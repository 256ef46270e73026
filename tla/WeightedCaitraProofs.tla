---------------------- MODULE WeightedCaitraProofs ----------------------
(***************************************************************************)
(* Proofs about the prefix search WeightedCaitraWithJump, for every set of *)
(* graphs in decoder order, every vocabulary, every set of prefixes, every *)
(* error weight and jump limit, and any way of matching a phrase that      *)
(* consumes at least one token.                                            *)
(***************************************************************************)
EXTENDS WeightedCaitraWithJump, Extremes

-------------------------------------------------------------------------
(* What recording a path does to the paths of a state, provided no two of  *)
(* them are rivals.                                                        *)

SameKey(b, c) == b.matched = c.matched /\ b.jump = c.jump

Distinct(seq) == \A i, k \in DOMAIN seq : SameKey(seq[i], seq[k]) => i = k

(* Recording keeps every path in its place or puts the new one there, and  *)
(* at most appends the new one.                                            *)
LEMMA RecordShape ==
  ASSUME NEW B, NEW seq \in Seq(B), NEW new \in B, Distinct(seq)
  PROVE  /\ Record(seq, new) \in Seq(B)
         /\ DOMAIN seq \subseteq DOMAIN Record(seq, new)
         /\ \A i \in DOMAIN seq :
              \/ Record(seq, new)[i] = seq[i]
              \/ Record(seq, new)[i] = new /\ SameKey(seq[i], new)
         /\ \A i \in DOMAIN Record(seq, new) \ DOMAIN seq :
              /\ Record(seq, new)[i] = new
              /\ i = Len(seq) + 1
              /\ \A k \in DOMAIN seq : ~SameKey(seq[k], new)
<1> DEFINE same == { i \in DOMAIN seq : seq[i].matched = new.matched
                                        /\ seq[i].jump = new.jump }
           first == CHOOSE x \in same : \A y \in same : x <= y
<1>1. CASE same = {}
  <2>1. Record(seq, new) = Append(seq, new)
    BY <1>1 DEF Record
  <2>2. \A k \in DOMAIN seq : ~SameKey(seq[k], new)
    BY <1>1 DEF SameKey
  <2>3. QED
    BY <2>1, <2>2
<1>2. CASE same # {}
  <2>1. PICK x \in DOMAIN seq : x \in same
    BY <1>2
  <2>2. same = {x}
    BY <2>1 DEF Distinct, SameKey
  <2>3. x \in Nat
    BY <2>1
  <2>4. first = x
    BY <2>2, <2>3
  <2>5. Record(seq, new) = IF Better(seq[x], new.score, new.error, new.matched)
                             THEN [seq EXCEPT ![x] = new] ELSE seq
    BY <1>2, <2>4 DEF Record
  <2>6. [seq EXCEPT ![x] = new] \in Seq(B) /\ DOMAIN [seq EXCEPT ![x] = new] = DOMAIN seq
    BY <2>1
  <2>7. QED
    BY <2>1, <2>5, <2>6 DEF SameKey
<1>3. QED
  BY <1>1, <1>2

-------------------------------------------------------------------------
(* The inductive invariant.  Between requests nothing is left of the loop  *)
(* and of the completions; every recorded path still has something of the  *)
(* prefix to match, also those a failed search has left.                   *)

Quiet == pc = "idle" => cur = Start /\ best = << >>

Open == \A s \in States(graph) : \A i \in DOMAIN back[s] :
          back[s][i].matched < Len(prefix)

IInv == TypeOK /\ Quiet /\ Open /\ BackLinked /\ NoRivals

(* What a step of the loop may rely on. *)
LEMMA Positions ==
  ASSUME IInv, AtTransition
  PROVE  /\ cur.st \in States(graph)
         /\ cur.bi \in DOMAIN back[cur.st] /\ Back \in BackType(graph)
         /\ Back.matched \in 0 .. Len(prefix) - 1
         /\ cur.ti \in DOMAIN graph.trans[cur.st] /\ Trans \in TransitionType
         /\ Trans.to \in cur.st + 1 .. graph.n - 1
         /\ Matches \in Seq(MatchType(prefix, Back.matched, Trans.output))
         /\ graph.n \in Nat /\ cur.st \in Nat /\ Len(prefix) \in Nat
         /\ graph.fscore[Trans.to] \in Int
<1> USE DEF AtTransition, AtBack, AtState
<1>1. graph \in Graphs /\ GraphType(graph) /\ Ordered(graph)
  BY GraphsAssumption DEF IInv, TypeOK
<1>2. cur.st \in States(graph)
  BY <1>1 DEF IInv, TypeOK, States, GraphType
<1>3. cur.bi \in DOMAIN back[cur.st] /\ Back \in BackType(graph)
  BY <1>2 DEF IInv, TypeOK, Back
<1>4. Back.matched \in 0 .. Len(prefix) - 1
  <2>1. Back.matched < Len(prefix)
    BY <1>2, <1>3 DEF IInv, Open, Back
  <2>2. Back.matched \in Nat /\ Len(prefix) \in Nat
    BY <1>3 DEF BackType, IInv, TypeOK
  <2>3. QED
    BY <2>1, <2>2
<1>5. cur.ti \in DOMAIN graph.trans[cur.st] /\ Trans \in TransitionType
  BY <1>1, <1>2 DEF IInv, TypeOK, GraphType, Trans
<1>6. Trans.to \in cur.st + 1 .. graph.n - 1
  BY <1>1, <1>2, <1>5 DEF Ordered, Trans
<1>7. Matches \in Seq(MatchType(prefix, Back.matched, Trans.output))
  <2>1. PICK r \in Requests : r.tokens = prefix /\ r.space = space
    BY DEF IInv, TypeOK
  <2>2. partial \in SUBSET Words
    BY DEF IInv, TypeOK
  <2>3. QED
    BY <1>1, <1>2, <1>4, <1>5, <2>1, <2>2, MatchesAssumption DEF Matches, Trans
<1>8. graph.n \in Nat /\ cur.st \in Nat /\ Len(prefix) \in Nat
  BY <1>1, <1>2 DEF IInv, TypeOK, GraphType, States
<1>9. graph.fscore[Trans.to] \in Int
  <2>1. Trans.to \in States(graph)
    BY <1>6, <1>8 DEF States
  <2>2. QED
    BY <1>1, <2>1 DEF GraphType
<1>10. QED
  BY <1>2, <1>3, <1>4, <1>5, <1>6, <1>7, <1>8, <1>9

(* The path that a step of the loop records. *)
IsExtension(new) ==
  /\ new \in BackType(graph)
  /\ new.bstate = cur.st /\ new.tr = cur.ti
  /\ new.bmatched = Back.matched /\ new.bjump = Back.jump
  /\ new.matched \in Back.matched .. Len(prefix) - 1

(* Recording it at the end of the transition keeps what IInv says of back. *)
LEMMA Extend ==
  ASSUME IInv, AtTransition, NEW new, IsExtension(new),
         back' = [back EXCEPT ![Trans.to] = Record(@, new)],
         UNCHANGED << graph, prefix, best >>
  PROVE  /\ back' \in [States(graph) -> Seq(BackType(graph))]
         /\ \A s \in States(graph) : s <= cur.st => back'[s] = back[s]
         /\ Open' /\ BackLinked' /\ NoRivals'
<1> DEFINE to == Trans.to
           rec == Record(back[to], new)
<1>1. cur.st \in States(graph) /\ cur.st \in Int
      /\ to \in States(graph) /\ to > cur.st /\ to # 0
  BY Positions DEF States
<1>2. back \in [States(graph) -> Seq(BackType(graph))]
  BY DEF IInv, TypeOK
<1>3. Distinct(back[to])
  BY <1>1 DEF IInv, NoRivals, Distinct, SameKey
<1>4. back[to] \in Seq(BackType(graph)) /\ new \in BackType(graph)
  BY <1>1, <1>2 DEF IsExtension
<1>5. /\ rec \in Seq(BackType(graph))
      /\ DOMAIN back[to] \subseteq DOMAIN rec
      /\ \A i \in DOMAIN back[to] :
           rec[i] = back[to][i] \/ (rec[i] = new /\ SameKey(back[to][i], new))
      /\ \A i \in DOMAIN rec \ DOMAIN back[to] :
           /\ rec[i] = new /\ i = Len(back[to]) + 1
           /\ \A k \in DOMAIN back[to] : ~SameKey(back[to][k], new)
  <2> HIDE DEF to
  <2> QED
    BY <1>3, <1>4, RecordShape
<1>6. /\ back' \in [States(graph) -> Seq(BackType(graph))]
      /\ back'[to] = rec
      /\ \A s \in States(graph) \ {to} : back'[s] = back[s]
  BY <1>1, <1>2, <1>5
<1>7. \A s \in States(graph) : s <= cur.st => back'[s] = back[s]
  BY <1>1, <1>6 DEF States
<1>8. Open'
  <2>1. \A i \in DOMAIN rec : rec[i] = new \/ \E k \in DOMAIN back[to] : rec[i] = back[to][k]
    BY <1>5
  <2>2. new.matched < Len(prefix)
    BY DEF IsExtension, IInv, TypeOK
  <2>3. QED
    BY <1>1, <1>6, <2>1, <2>2 DEF IInv, Open
<1>9. NoRivals'
  <2>1. Distinct(rec)
    BY <1>3, <1>5 DEF Distinct, SameKey
  <2>2. QED
    BY <1>6, <2>1 DEF IInv, NoRivals, Distinct, SameKey
<1>10. BackLinked'
  <2>1. \A m, j : \A s \in States(graph) :
           Linked(s, m, j) # {} => Linked(s, m, j)' # {}
    <3> SUFFICES ASSUME NEW s \in States(graph), NEW m, NEW j,
                        NEW i \in Linked(s, m, j)
                 PROVE  Linked(s, m, j)' # {}
      OBVIOUS
    <3>1. i \in DOMAIN back[s] /\ back[s][i].matched = m /\ back[s][i].jump = j
      BY DEF Linked
    <3>2. i \in DOMAIN back'[s] /\ back'[s][i].matched = m /\ back'[s][i].jump = j
      BY <1>5, <1>6, <3>1 DEF SameKey
    <3>3. QED
      BY <3>2 DEF Linked
  <2>2. \A from, tr, bm, bj, m : LinkOK(from, tr, bm, bj, m) => LinkOK(from, tr, bm, bj, m)'
    BY <2>1 DEF LinkOK
  <2>3. LinkOK(new.bstate, new.tr, new.bmatched, new.bjump, new.matched)
    <3>1. cur.bi \in Linked(cur.st, Back.matched, Back.jump)
      BY Positions DEF Linked, Back
    <3>2. Back.matched <= new.matched
      BY Positions DEF IsExtension, IInv, TypeOK
    <3>3. QED
      BY <3>1, <3>2, Positions DEF LinkOK, IsExtension
  <2>4. graph.trans[new.bstate][new.tr].to = to
    BY DEF IsExtension, Trans
  <2>5. ASSUME NEW s \in States(graph), NEW i \in DOMAIN back'[s], s # 0
        PROVE  /\ LinkOK(back'[s][i].bstate, back'[s][i].tr, back'[s][i].bmatched,
                         back'[s][i].bjump, back'[s][i].matched)
               /\ graph.trans[back'[s][i].bstate][back'[s][i].tr].to = s
    <3>1. CASE s = to /\ back'[s][i] = new
      BY <3>1, <2>3, <2>4
    <3>2. CASE i \in DOMAIN back[s] /\ back'[s][i] = back[s][i]
      BY <3>2, <2>5 DEF IInv, BackLinked
    <3>3. QED
      BY <1>5, <1>6, <2>5, <3>1, <3>2, Zenon
  <2>6. \A i \in DOMAIN back'[0] : 0 \in States(graph) => back'[0][i] = InitialBack
    BY <1>1, <1>6 DEF IInv, BackLinked
  <2>7. QED
    BY <2>2, <2>5, <2>6, ZenonT(30) DEF BackLinked, IInv
<1>11. QED
  BY <1>6, <1>7, <1>8, <1>9, <1>10

-------------------------------------------------------------------------
(* Every action keeps the invariant. *)

LEMMA ContinueIsExtension ==
  ASSUME IInv, AtTransition, NEW error \in Nat, NEW jump \in 0 .. 2,
         NEW matched \in Back.matched .. Len(prefix) - 1
  PROVE  IsExtension(Continue(error, matched, jump))
<1>1. Continue(error, matched, jump) \in BackType(graph)
  <2>1. /\ Back.score \in Int /\ Back.error \in Nat /\ Back.matched \in Nat
        /\ Back.jump \in 0 .. 2 /\ Back.njumps \in Nat
    BY Positions DEF BackType
  <2>2. Trans.score \in Int /\ cur.ti \in Nat /\ matched \in Nat
    <3>1. Trans.score \in Int
      BY Positions DEF TransitionType
    <3>2. cur.ti \in Nat
      BY DEF IInv, TypeOK
    <3>3. matched \in Nat
      BY <2>1, Positions
    <3>4. QED
      BY <3>1, <3>2, <3>3
  <2>3. cur.st \in -1 .. graph.n - 1
    BY Positions DEF States
  <2>4. /\ Back.score + Trans.score \in Int /\ Back.error + error \in Nat
        /\ Back.njumps + 1 \in Nat
    BY <2>1, <2>2, SMTT(30)
  <2>5. QED
    BY <2>1, <2>2, <2>3, <2>4 DEF Continue, BackType
<1>2. QED
  BY <1>1 DEF IsExtension, Continue

(* The step changes only the loop positions. *)
LEMMA PositionStep ==
  ASSUME IInv, pc = "search",
         cur' \in [st : 0 .. graph.n, bi : Nat \ {0}, ti : Nat \ {0}, mi : Nat],
         UNCHANGED << searchVars, back, best, bestScore >>
  PROVE  IInv'
BY DEF IInv, TypeOK, Quiet, Open, BackLinked, NoRivals, LinkOK, Linked, searchVars, SameKey

LEMMA JumpStep ==
  ASSUME IInv, process_jump
  PROVE  /\ IInv'
         /\ \A s \in States(graph) : s <= cur.st => back'[s] = back[s]
<1> DEFINE new == Continue(IF Back.jump = 0 THEN 1 ELSE 0, Back.matched, 1)
<1>1. AtTransition
  BY DEF process_jump
<1>2. cur' \in [st : 0 .. graph.n, bi : Nat \ {0}, ti : Nat \ {0}, mi : Nat]
  BY DEF process_jump, IInv, TypeOK
<1>3. CASE JumpAllowed
  <2>1. IsExtension(new)
    BY <1>1, ContinueIsExtension, Positions
  <2>2. back' = [back EXCEPT ![Trans.to] = Record(@, new)]
    BY <1>3 DEF process_jump
  <2>3. UNCHANGED << jumpLenThreshold, graph, prefix, best, space, partial, pc, answer,
                     bestScore >>
    BY DEF process_jump, searchVars
  <2>4. /\ back' \in [States(graph) -> Seq(BackType(graph))]
        /\ \A s \in States(graph) : s <= cur.st => back'[s] = back[s]
        /\ Open' /\ BackLinked' /\ NoRivals'
    <3> HIDE DEF new
    <3> QED
      BY <1>1, <2>1, <2>2, <2>3, Extend
  <2>5. QED
    BY <1>1, <1>2, <2>3, <2>4 DEF IInv, TypeOK, Quiet, AtTransition, AtBack, AtState, States
<1>4. CASE ~JumpAllowed
  <2>1. back' = back /\ UNCHANGED << searchVars, best, bestScore >>
    BY <1>4 DEF process_jump
  <2>2. IInv'
    BY <1>1, <1>2, <2>1, PositionStep DEF AtTransition, AtBack, AtState
  <2>3. QED
    BY <2>1, <2>2
<1>5. QED
  BY <1>3, <1>4

LEMMA MatchStep ==
  ASSUME IInv, process_match
  PROVE  /\ IInv'
         /\ \A s \in States(graph) : s <= cur.st => back'[s] = back[s]
<1> DEFINE m == Matches[cur.mi]
<1>1. AtTransition /\ cur.mi \in DOMAIN Matches
  BY Positions DEF process_match, IInv, TypeOK
<1>2. m.error \in Nat /\ m.pm \in Back.matched + 1 .. Len(prefix) /\ m.tm \in Nat
  <2>1. m \in MatchType(prefix, Back.matched, Trans.output)
    <3>1. Matches \in Seq(MatchType(prefix, Back.matched, Trans.output))
      BY <1>1, Positions
    <3> DEFINE M == MatchType(prefix, Back.matched, Trans.output)
               ms == Matches
               x == cur.mi
    <3>2. ms \in Seq(M) /\ x \in DOMAIN ms
      BY <1>1, <3>1
    <3> HIDE DEF M, ms, x
    <3>3. ms[x] \in M
      BY <3>2
    <3>4. QED
      BY <3>3 DEF M, ms, x
  <2>2. 0 .. Len(Trans.output) \subseteq Nat
    OBVIOUS
  <2>3. QED
    BY <2>1, <2>2 DEF MatchType
<1>3. cur' \in [st : 0 .. graph.n, bi : Nat \ {0}, ti : Nat \ {0}, mi : Nat]
  BY DEF process_match, IInv, TypeOK
<1>4. UNCHANGED << jumpLenThreshold, graph, prefix, space, partial, pc, answer >>
  BY DEF process_match, searchVars
<1>5. CASE MatchOn(m)
  <2> DEFINE new == Continue(m.error, m.pm, IF Back.jump = 0 THEN 0 ELSE 2)
  <2>1. m.pm \in Back.matched .. Len(prefix) - 1
    BY <1>1, <1>2, <1>5, Positions DEF MatchOn
  <2>2. IsExtension(new)
    BY <1>1, <1>2, <2>1, ContinueIsExtension
  <2>3. /\ back' = [back EXCEPT ![Trans.to] = Record(@, new)]
        /\ UNCHANGED << best, bestScore >>
    BY <1>5 DEF MatchOn
  <2>4. /\ back' \in [States(graph) -> Seq(BackType(graph))]
        /\ \A s \in States(graph) : s <= cur.st => back'[s] = back[s]
        /\ Open' /\ BackLinked' /\ NoRivals'
    <3> HIDE DEF new
    <3> QED
      BY <1>1, <1>4, <2>2, <2>3, Extend
  <2>5. QED
    BY <1>1, <1>3, <1>4, <2>3, <2>4 DEF IInv, TypeOK, Quiet, AtTransition, AtBack, AtState, States
<1>6. CASE Complete(m)
  <2> DEFINE error == Back.error + m.error
             new   == [score |-> Back.score + Trans.score + graph.fscore[Trans.to],
                       from |-> cur.st, tr |-> cur.ti, tm |-> m.tm,
                       bmatched |-> Back.matched, bjump |-> Back.jump]
  <2>1. back' = back
    BY <1>6 DEF Complete
  <2>2. error \in Nat /\ new \in BestType(graph) /\ Worth(new.score, error) \in Int
    <3>1. /\ Back.score \in Int /\ Back.error \in Nat /\ Back.matched \in Nat
          /\ Back.jump \in 0 .. 2
      BY <1>1, Positions DEF BackType
    <3>2. Trans.score \in Int /\ graph.fscore[Trans.to] \in Int
      BY <1>1, Positions DEF TransitionType
    <3>3. cur.st \in States(graph) /\ cur.ti \in Nat \ {0}
      BY <1>1, Positions DEF IInv, TypeOK
    <3>4. new.score \in Int /\ error \in Nat
      <4> HIDE DEF m
      <4>1. Back.score + Trans.score + graph.fscore[Trans.to] \in Int
        BY <3>1, <3>2
      <4>2. error \in Nat
        BY <1>2, <3>1
      <4>3. QED
        BY <4>1, <4>2
    <3>5. Worth(new.score, error) \in Int
      <4> HIDE DEF new, error
      <4> QED
        BY <3>4, NumbersAssumption DEF Worth
    <3>6. new \in BestType(graph)
      BY <1>2, <3>1, <3>3, <3>4 DEF BestType
    <3>7. QED
      <4> HIDE DEF new, error
      <4> QED
        BY <3>4, <3>5, <3>6
  <2>3. LinkOK(new.from, new.tr, new.bmatched, new.bjump, Len(prefix))
    <3>1. cur.bi \in Linked(cur.st, Back.matched, Back.jump)
      BY <1>1, Positions DEF Linked, Back
    <3>2. QED
      BY <1>1, <3>1, Positions, SMTT(30) DEF LinkOK, IInv, TypeOK
  <2>4. CASE UNCHANGED << best, bestScore >>
    BY <1>1, <1>3, <1>4, <2>1, <2>4, PositionStep
       DEF AtTransition, AtBack, AtState, searchVars
  <2>5. CASE /\ best' = [e \in DOMAIN best \cup {error} |-> IF e = error THEN new ELSE best[e]]
             /\ bestScore' = Max({bestScore, Worth(new.score, error)})
    <3> HIDE DEF new, error
    <3>1. bestScore' \in Int
      <4>1. bestScore' = bestScore \/ bestScore' = Worth(new.score, error)
        <5> DEFINE w == Worth(new.score, error)
        <5>1. \E x \in {bestScore, w} : \A y \in {bestScore, w} : x >= y
          BY <2>2 DEF IInv, TypeOK
        <5>2. Max({bestScore, w}) \in {bestScore, w}
          BY <5>1 DEF Max
        <5>3. QED
          BY <2>5, <5>2
      <4>2. QED
        BY <2>2, <4>1 DEF IInv, TypeOK
    <3>2. /\ DOMAIN best' \subseteq Nat
          /\ best' \in [DOMAIN best' -> BestType(graph)]
          /\ \A e \in DOMAIN best' : best'[e] = new \/ (e \in DOMAIN best /\ best'[e] = best[e])
      BY <2>2, <2>5 DEF IInv, TypeOK
    <3>3. BackLinked'
      <4>1. \A from, tr, bm, bj, k : LinkOK(from, tr, bm, bj, k) => LinkOK(from, tr, bm, bj, k)'
        BY <1>4, <2>1 DEF LinkOK, Linked
      <4>2. \A e \in DOMAIN best' :
              LinkOK(best'[e].from, best'[e].tr, best'[e].bmatched, best'[e].bjump, Len(prefix))
        BY <2>3, <3>2 DEF IInv, BackLinked
      <4>3. QED
        BY <1>4, <2>1, <4>1, <4>2 DEF IInv, BackLinked
    <3>4. QED
      BY <1>1, <1>3, <1>4, <2>1, <3>1, <3>2, <3>3
         DEF IInv, TypeOK, Quiet, Open, NoRivals, AtTransition, AtBack, AtState
  <2>6. QED
    BY <1>6, <2>1, <2>4, <2>5 DEF Complete
<1>7. QED
  BY <1>5, <1>6 DEF process_match

(* A graph whose states have no recorded path. *)
LEMMA Cleared ==
  ASSUME NEW g \in Graphs
  PROVE  /\ [s \in States(g) |-> << >>] \in [States(g) -> Seq(BackType(g))]
         /\ g.n \in Nat /\ 0 \in States(g) /\ Start \in [st : 0 .. g.n, bi : Nat \ {0}, ti : Nat \ {0}, mi : Nat]
BY GraphsAssumption DEF GraphType, States, Start

LEMMA NoCompletions ==
  ASSUME NEW S
  PROVE  DOMAIN << >> = {} /\ DOMAIN << >> \subseteq Nat /\ << >> \in [DOMAIN << >> -> S]
OBVIOUS

LEMMA EmptySequence == \A S : << >> \in Seq(S)
OBVIOUS

LEMMA InitStep == Init => IInv
<1> SUFFICES ASSUME Init PROVE IInv
  OBVIOUS
<1>1. TypeOK
  <2>1. graph \in Graphs /\ prefix \in Seq(Words) /\ space \in BOOLEAN /\ partial \subseteq Words
    BY EmptySequence DEF Init
  <2>2. back \in [States(graph) -> Seq(BackType(graph))] /\ pc = "idle"
    BY Cleared DEF Init
  <2>3. bestScore \in Int /\ cur \in [st : 0 .. graph.n, bi : Nat \ {0}, ti : Nat \ {0}, mi : Nat]
    BY Cleared, NumbersAssumption DEF Init
  <2>4. DOMAIN best \subseteq Nat /\ best \in [DOMAIN best -> BestType(graph)]
    BY NoCompletions DEF Init
  <2>5. jumpLenThreshold \in JumpLens
    BY DEF Init
  <2>6. QED
    BY <2>1, <2>2, <2>3, <2>4, <2>5 DEF TypeOK
<1>2. QED
  BY <1>1 DEF Init, IInv, Quiet, Open, BackLinked, NoRivals

LEMMA NewSentenceStep ==
  ASSUME IInv, NEW g \in Graphs, createGraph(g)
  PROVE  IInv'
<1>1. /\ graph' = g /\ prefix' = << >> /\ space' = FALSE /\ partial' = {}
      /\ back' = [s \in States(g) |-> << >>] /\ best' = << >>
      /\ bestScore' = bestScore /\ pc' = pc /\ cur' = cur
      /\ jumpLenThreshold' = jumpLenThreshold
      /\ pc = "idle" /\ best = << >> /\ cur = Start
  BY DEF createGraph, IInv, Quiet
<1>2. TypeOK'
  <2>1. DOMAIN best' \subseteq Nat /\ best' \in [DOMAIN best' -> BestType(g)]
    BY <1>1, NoCompletions
  <2>2. back' \in [States(g) -> Seq(BackType(g))]
    BY <1>1, Cleared
  <2>3. cur' \in [st : 0 .. g.n, bi : Nat \ {0}, ti : Nat \ {0}, mi : Nat]
    BY <1>1, Cleared
  <2>4. prefix' \in Seq(Words) /\ space' \in BOOLEAN /\ partial' \subseteq Words
    BY <1>1, EmptySequence
  <2>5. /\ graph' \in Graphs /\ pc' = "idle" /\ bestScore' \in Int
        /\ jumpLenThreshold' \in JumpLens
    BY <1>1 DEF IInv, TypeOK
  <2>6. QED
    BY <1>1, <2>1, <2>2, <2>3, <2>4, <2>5 DEF TypeOK
<1>3. QED
  BY <1>1, <1>2 DEF IInv, Quiet, Open, BackLinked, NoRivals

LEMMA RequestStep ==
  ASSUME IInv, NEW r \in Requests, getPrefix(r)
  PROVE  IInv'
<1>1. /\ graph \in Graphs /\ 0 \in States(graph)
      /\ r.tokens \in Seq(Words) /\ Len(r.tokens) \in Nat \ {0} /\ r.space \in BOOLEAN
  BY RequestsAssumption, Cleared DEF IInv, TypeOK
<1>2. InitialBack \in BackType(graph)
  BY <1>1, Cleared DEF InitialBack, BackType
<1>3. /\ back' = [back EXCEPT ![0] = Append(@, InitialBack)]
      /\ UNCHANGED << jumpLenThreshold, graph, best >> /\ best = << >>
      /\ prefix' = r.tokens /\ Len(prefix) <= Len(r.tokens)
  <2>1. Len(prefix) <= Len(r.tokens)
    BY <1>1 DEF getPrefix, Extends, IInv, TypeOK
  <2>2. QED
    BY <2>1 DEF getPrefix, IInv, Quiet
<1>4. /\ back' \in [States(graph) -> Seq(BackType(graph))]
      /\ \A s \in States(graph) \ {0} : back'[s] = back[s]
      /\ back[0] \in Seq(BackType(graph)) /\ back'[0] = Append(back[0], InitialBack)
  BY <1>1, <1>2, <1>3 DEF IInv, TypeOK
<1>5. \A s \in States(graph) : \A i \in DOMAIN back'[s] :
        back'[s][i] = InitialBack \/ (i \in DOMAIN back[s] /\ back'[s][i] = back[s][i])
  BY <1>4
<1>6. \A i \in DOMAIN back[0] : i \in DOMAIN back'[0] /\ back'[0][i] = back[0][i]
  BY <1>4
<1>7. TypeOK'
  <2>1. cur' \in [st : 0 .. graph.n, bi : Nat \ {0}, ti : Nat \ {0}, mi : Nat]
    BY <1>1, Cleared DEF getPrefix
  <2>2. pc' = "search" /\ space' = r.space /\ bestScore' = MinScore /\ graph' = graph
    BY DEF getPrefix
  <2>3. partial' \subseteq Words
    BY DEF getPrefix, IInv, TypeOK
  <2>4. QED
    BY <1>1, <1>3, <1>4, <2>1, <2>2, <2>3, NumbersAssumption DEF IInv, TypeOK
<1>8. Open'
  <2>1. InitialBack.matched = 0
    BY DEF InitialBack
  <2>2. \A s \in States(graph) : \A i \in DOMAIN back[s] : back[s][i].matched \in Nat
    <3>1. \A s \in States(graph) : \A i \in DOMAIN back[s] : back[s][i] \in BackType(graph)
      BY DEF IInv, TypeOK
    <3>2. QED
      BY <3>1 DEF BackType
  <2>3. \A s \in States(graph) : \A i \in DOMAIN back'[s] : back'[s][i].matched < Len(r.tokens)
    BY <1>1, <1>3, <1>5, <2>1, <2>2 DEF IInv, Open, TypeOK
  <2>4. QED
    BY <1>3, <2>3 DEF Open
<1>9. BackLinked'
  <2>1. \A m, j : \A s \in States(graph) : Linked(s, m, j) # {} => Linked(s, m, j)' # {}
    <3> SUFFICES ASSUME NEW m, NEW j, NEW s \in States(graph), NEW i \in Linked(s, m, j)
                 PROVE  Linked(s, m, j)' # {}
      OBVIOUS
    <3>1. i \in DOMAIN back[s] /\ back[s][i].matched = m /\ back[s][i].jump = j
      BY DEF Linked
    <3>2. i \in DOMAIN back'[s] /\ back'[s][i].matched = m /\ back'[s][i].jump = j
      BY <1>4, <1>6, <3>1
    <3>3. QED
      BY <3>2 DEF Linked
  <2>2. \A from, tr, bm, bj, m : LinkOK(from, tr, bm, bj, m) => LinkOK(from, tr, bm, bj, m)'
    BY <1>3, <2>1 DEF LinkOK
  <2>3. \A i \in DOMAIN back'[0] : back'[0][i] = InitialBack
    BY <1>1, <1>5 DEF IInv, BackLinked
  <2>4. \A e \in DOMAIN best' : FALSE
    BY <1>3
  <2>5. QED
    BY <1>3, <1>4, <2>2, <2>3, <2>4 DEF IInv, BackLinked
<1>10. NoRivals'
  BY <1>3, <1>4 DEF IInv, NoRivals
<1>11. Quiet'
  BY DEF getPrefix, Quiet
<1>12. QED
  BY <1>7, <1>8, <1>9, <1>10, <1>11 DEF IInv

LEMMA LoopStep ==
  ASSUME IInv, NextTransition \/ NextBack \/ NextState
  PROVE  IInv' /\ back' = back
<1>1. cur' \in [st : 0 .. graph.n, bi : Nat \ {0}, ti : Nat \ {0}, mi : Nat]
  <2>1. graph.n \in Nat /\ cur \in [st : 0 .. graph.n, bi : Nat \ {0}, ti : Nat \ {0}, mi : Nat]
    BY Cleared DEF IInv, TypeOK
  <2>2. cur.ti + 1 \in Nat \ {0} /\ cur.bi + 1 \in Nat \ {0}
    BY <2>1
  <2>3. CASE NextTransition
    BY <2>1, <2>2, <2>3 DEF NextTransition
  <2>4. CASE NextBack
    <3>1. cur' = [st |-> cur.st, bi |-> cur.bi + 1, ti |-> 1, mi |-> 0]
      BY <2>1, <2>4 DEF NextBack
    <3>2. cur.st \in 0 .. graph.n
      BY <2>1
    <3>3. QED
      BY <2>2, <3>1, <3>2
  <2>5. CASE NextState
    <3>1. cur.st + 1 \in 0 .. graph.n
      BY <2>1, <2>5 DEF NextState, AtState
    <3>2. cur' = [st |-> cur.st + 1, bi |-> 1, ti |-> cur.ti, mi |-> cur.mi]
      BY <2>1, <2>5 DEF NextState
    <3>3. cur.ti \in Nat \ {0} /\ cur.mi \in Nat
      BY <2>1
    <3>4. QED
      BY <3>1, <3>2, <3>3
  <2>6. QED
    BY <2>3, <2>4, <2>5
<1>2. pc = "search" /\ UNCHANGED << searchVars, back, best, bestScore >>
  BY DEF NextTransition, NextBack, NextState, AtTransition, AtBack, AtState
<1>3. QED
  BY <1>1, <1>2, PositionStep

LEMMA FailStep ==
  ASSUME IInv, Fail
  PROVE  IInv'
<1>1. /\ pc' = "idle" /\ cur' = Start /\ best = << >>
      /\ UNCHANGED << jumpLenThreshold, graph, prefix, space, partial, back, best,
                   bestScore, answer >>
  BY DEF Fail
<1>2. TypeOK'
  BY <1>1, Cleared DEF IInv, TypeOK
<1>3. QED
  BY <1>1, <1>2 DEF IInv, Quiet, Open, BackLinked, LinkOK, Linked, NoRivals

LEMMA AnswerStep ==
  ASSUME IInv, Answer
  PROVE  IInv'
<1>1. /\ pc' = "idle" /\ cur' = Start /\ best' = << >>
      /\ back' = [s \in States(graph) |-> << >>]
      /\ UNCHANGED << jumpLenThreshold, graph, prefix, space, partial, bestScore >>
  BY DEF Answer
<1>2. TypeOK'
  BY <1>1, Cleared DEF IInv, TypeOK
<1>3. QED
  BY <1>1, <1>2 DEF IInv, Quiet, Open, BackLinked, NoRivals

(* Every step keeps IInv. *)
LEMMA StepKeeps ==
  ASSUME IInv, [Next]_vars
  PROVE  IInv'
<1>1. CASE \E g \in Graphs : createGraph(g)
  BY <1>1, NewSentenceStep
<1>2. CASE \E r \in Requests : getPrefix(r)
  BY <1>2, RequestStep
<1>3. CASE process_jump
  BY <1>3, JumpStep
<1>4. CASE process_match
  BY <1>4, MatchStep
<1>5. CASE NextTransition \/ NextBack \/ NextState
  BY <1>5, LoopStep
<1>6. CASE Fail
  BY <1>6, FailStep
<1>7. CASE Answer
  BY <1>7, AnswerStep
<1>8. CASE UNCHANGED vars
  BY <1>8 DEF vars, IInv, TypeOK, Quiet, Open, BackLinked, LinkOK, Linked, NoRivals
<1>9. QED
  BY <1>1, <1>2, <1>3, <1>4, <1>5, <1>6, <1>7, <1>8 DEF Next, Step

(* IInv holds throughout. *)
THEOREM Invariance == Spec => []IInv
<1>1. IInv /\ [Next]_vars => IInv'
  BY StepKeeps
<1>2. QED
  BY <1>1, InitStep, PTL DEF Spec

(* Type correctness: no index of the search leaves its vector. *)
THEOREM TypeCorrect == Spec => []TypeOK
<1>1. IInv => TypeOK
  BY DEF IInv
<1>2. QED
  BY <1>1, Invariance, PTL

(* The loops of getPrefix that follow the back transitions always find the *)
(* predecessor they look for.                                              *)
THEOREM BackAlwaysLinked == Spec => []BackLinked
<1>1. IInv => BackLinked
  BY DEF IInv
<1>2. QED
  BY <1>1, Invariance, PTL

(* process_match and process_jump never leave two competing paths. *)
THEOREM NeverRivals == Spec => []NoRivals
<1>1. IInv => NoRivals
  BY DEF IInv
<1>2. QED
  BY <1>1, Invariance, PTL

(* A state the loop has reached is settled: later steps of the search only *)
(* record paths to later states.                                           *)
THEOREM SettledStates == Spec => Settled
<1>1. ASSUME IInv, [Next]_vars
      PROVE  [pc = "search" /\ pc' = "search" =>
                \A s \in 0 .. cur.st : s < graph.n => back'[s] = back[s]]_vars
  <2> SUFFICES ASSUME Next, pc = "search", pc' = "search",
                      NEW s \in 0 .. cur.st, s < graph.n
               PROVE  back'[s] = back[s]
    BY <1>1
  <2>1. s \in States(graph) /\ s <= cur.st
    BY <1>1, Cleared DEF States, IInv, TypeOK
  <2>2. CASE process_jump
    BY <1>1, <2>1, <2>2, JumpStep
  <2>3. CASE process_match
    BY <1>1, <2>1, <2>3, MatchStep
  <2>4. CASE NextTransition \/ NextBack \/ NextState
    BY <1>1, <2>4, LoopStep
  <2>5. ~(\E g \in Graphs : createGraph(g)) /\ ~(\E r \in Requests : getPrefix(r))
    BY DEF createGraph, getPrefix
  <2>6. ~Fail /\ ~Answer
    BY DEF Fail, Answer
  <2>7. QED
    BY <2>2, <2>3, <2>4, <2>5, <2>6 DEF Next, Step
<1>2. QED
  BY <1>1, Invariance, PTL DEF Spec, Settled

-------------------------------------------------------------------------
(* Scores.  In a search on a cleared graph every path was made in this     *)
(* search, so from a state the loop has reached, and those are settled.    *)

Fresh ==
  /\ Len(back[0]) = 0 => \A s \in States(graph) : back[s] = << >>
  /\ Len(back[0]) = 1 /\ pc = "search" =>
       \A s \in States(graph) \ {0} : \A i \in DOMAIN back[s] : back[s][i].bstate <= cur.st

(* The path a sequence of paths holds for one situation, the scores that   *)
(* follow from it, and ScoreLinked in these terms.                         *)
PathIn(seq, matched, jump) ==
  LET same == { i \in DOMAIN seq : seq[i].matched = matched /\ seq[i].jump = jump }
  IN  seq[CHOOSE i \in same : \A k \in same : i <= k]

Follows(b, p, g) ==
  /\ b.score = p.score + g.trans[b.bstate][b.tr].score
  /\ b.error >= p.error

ScoresFollow(bk, g) ==
  Len(bk[0]) = 1 => \A s \in States(g) \ {0} : \A i \in DOMAIN bk[s] :
    Follows(bk[s][i], PathIn(bk[bk[s][i].bstate], bk[s][i].bmatched, bk[s][i].bjump), g)

LEMMA ScoresRestated ==
  /\ ScoreLinked <=> ScoresFollow(back, graph)
  /\ ScoreLinked' <=> ScoresFollow(back', graph')
<1>1. \A s, m, j : Lookup(s, m, j) = PathIn(back[s], m, j)
  BY DEF Lookup, Linked, PathIn
<1>2. \A s, m, j : Lookup(s, m, j)' = PathIn(back'[s], m, j)
  BY DEF Lookup, Linked, PathIn
<1>3. ScoreLinked <=> ScoresFollow(back, graph)
  BY <1>1 DEF ScoreLinked, ScoresFollow, Follows
<1>4. ScoreLinked' <=> ScoresFollow(back', graph')
  BY <1>2 DEF ScoreLinked, ScoresFollow, Follows
<1>5. QED
  BY <1>3, <1>4

(* The loop's own path is the one its key leads to; at state 0 all paths    *)
(* are the same.                                                           *)
LEMMA OwnPath ==
  ASSUME IInv, AtTransition
  PROVE  PathIn(back[cur.st], Back.matched, Back.jump) = Back
<1> DEFINE L == { i \in DOMAIN back[cur.st] : back[cur.st][i].matched = Back.matched
                                              /\ back[cur.st][i].jump = Back.jump }
           first == CHOOSE i \in L : \A k \in L : i <= k
<1>1. cur.bi \in L /\ L \subseteq Nat
  <2>1. back[cur.st] \in Seq(BackType(graph))
    BY Positions DEF IInv, TypeOK
  <2>2. QED
    BY <2>1, Positions DEF Back
<1>2. \A i \in L : back[cur.st][i] = Back
  <2>1. CASE cur.st = 0
    BY <2>1, Positions DEF IInv, BackLinked, Back
  <2>2. CASE cur.st # 0
    BY <1>1, <2>2, Positions DEF IInv, NoRivals, Back
  <2>3. QED
    BY <2>1, <2>2
<1>3. first \in L
  <2>1. \E i \in L : \A k \in L : i <= k
    <3> HIDE DEF L
    <3> QED
      BY <1>1, MinIn
  <2> HIDE DEF L
  <2>2. QED
    BY <2>1
<1>4. PathIn(back[cur.st], Back.matched, Back.jump) = back[cur.st][first]
  BY DEF PathIn
<1>5. QED
  BY <1>2, <1>3, <1>4, Zenon

(* Recording a continuation of the loop's path keeps the scores linked. *)
LEMMA ExtendScore ==
  ASSUME IInv, Fresh, ScoreLinked, AtTransition,
         NEW error \in Nat, NEW jump \in 0 .. 2,
         NEW matched \in Back.matched .. Len(prefix) - 1,
         back' = [back EXCEPT ![Trans.to] = Record(@, Continue(error, matched, jump))],
         UNCHANGED << graph, prefix, best, pc >>, cur'.st = cur.st
  PROVE  Fresh' /\ ScoreLinked'
<1> DEFINE new == Continue(error, matched, jump)
           to  == Trans.to
<1>1. IsExtension(new)
  BY ContinueIsExtension
<1>2. back' = [back EXCEPT ![Trans.to] = Record(@, new)]
  OBVIOUS
<1>3. /\ back' \in [States(graph) -> Seq(BackType(graph))]
      /\ \A s \in States(graph) : s <= cur.st => back'[s] = back[s]
  <2> HIDE DEF new
  <2> QED
    BY <1>2, <1>1, Extend
<1>4. cur.st \in States(graph) /\ cur.st \in Nat /\ to \in States(graph) /\ to # 0
      /\ 0 \in States(graph) /\ to > cur.st
  BY Positions DEF States
<1>5. back'[0] = back[0]
  BY <1>3, <1>4
<1>6. \A s \in States(graph) : \A i \in DOMAIN back'[s] :
        \/ i \in DOMAIN back[s] /\ back'[s][i] = back[s][i]
        \/ s = to /\ back'[s][i] = new
  <2>1. Distinct(back[to]) /\ back[to] \in Seq(BackType(graph)) /\ new \in BackType(graph)
    BY <1>1, <1>4 DEF IInv, TypeOK, NoRivals, Distinct, SameKey, IsExtension
  <2>2. \A i \in DOMAIN Record(back[to], new) :
          \/ i \in DOMAIN back[to] /\ Record(back[to], new)[i] = back[to][i]
          \/ Record(back[to], new)[i] = new
    <3> HIDE DEF to, new
    <3> QED
      BY <2>1, RecordShape
  <2>3. back'[to] = Record(back[to], new) /\ \A s \in States(graph) \ {to} : back'[s] = back[s]
    BY <1>4 DEF IInv, TypeOK
  <2>4. QED
    BY <2>2, <2>3
<1>7. Len(back[0]) # 0
  <2>1. CASE Len(back[0]) = 0
    <3>1. back[cur.st] = << >>
      BY <1>4, <2>1 DEF Fresh
    <3>2. QED
      BY <3>1, Positions
  <2>2. QED
    BY <2>1
<1>8. Fresh'
  <2>1. ASSUME Len(back[0]) = 1, pc = "search",
               NEW s \in States(graph) \ {0}, NEW i \in DOMAIN back'[s]
        PROVE  back'[s][i].bstate <= cur.st
    <3>1. new.bstate <= cur.st
      BY <1>1, <1>4 DEF IsExtension
    <3>2. QED
      BY <1>6, <2>1, <3>1 DEF Fresh
  <2>2. QED
    BY <1>5, <1>7, <2>1 DEF Fresh
<1>9. ASSUME Len(back[0]) = 1, NEW s \in States(graph) \ {0}, NEW i \in DOMAIN back'[s]
      PROVE  Follows(back'[s][i], PathIn(back'[back'[s][i].bstate], back'[s][i].bmatched,
                                         back'[s][i].bjump), graph)
  <2>1. CASE i \in DOMAIN back[s] /\ back'[s][i] = back[s][i]
    <3> DEFINE b == back[s][i]
    <3>1. b.bstate \in States(graph)
      BY <1>9, <2>1 DEF IInv, BackLinked, LinkOK
    <3>2. b.bstate <= cur.st
      BY <1>9, <2>1 DEF Fresh, AtTransition, AtBack, AtState
    <3>3. back'[b.bstate] = back[b.bstate]
      BY <1>3, <3>1, <3>2
    <3>4. Follows(b, PathIn(back[b.bstate], b.bmatched, b.bjump), graph)
      BY <1>9, <2>1, ScoresRestated DEF ScoresFollow
    <3>5. QED
      BY <2>1, <3>3, <3>4
  <2>2. CASE back'[s][i] = new
    <3>1. new.bstate = cur.st /\ new.tr = cur.ti /\ new.bmatched = Back.matched
          /\ new.bjump = Back.jump
      BY <1>1 DEF IsExtension
    <3>2. back'[new.bstate] = back[cur.st]
      BY <1>3, <1>4, <3>1
    <3>3. PathIn(back'[new.bstate], new.bmatched, new.bjump) = Back
      BY <1>9, <3>1, <3>2, OwnPath
    <3>4. new.score = Back.score + Trans.score /\ new.error = Back.error + error
      BY DEF Continue
    <3>5. graph.trans[new.bstate][new.tr] = Trans
      BY <3>1 DEF Trans
    <3>6. Back.error \in Nat
      BY Positions DEF BackType
    <3>7. Follows(new, Back, graph)
      <4> HIDE DEF new
      <4> QED
        BY <3>4, <3>5, <3>6 DEF Follows
    <3>8. QED
      BY <2>2, <3>3, <3>7
  <2>3. QED
    BY <1>6, <2>1, <2>2
<1>10. ScoreLinked'
  <2>1. ScoresFollow(back', graph')
    <3> HIDE DEF new
    <3> QED
      BY <1>5, <1>9 DEF ScoresFollow
  <2>2. QED
    BY <2>1, ScoresRestated
<1>11. QED
  BY <1>8, <1>10

(* The steps of the loop that record nothing. *)
LEMMA SameScore ==
  ASSUME Fresh, ScoreLinked, UNCHANGED << graph, back, pc >>,
         cur'.st >= cur.st, cur.st \in Int, cur'.st \in Int,
         \A s \in States(graph) : \A i \in DOMAIN back[s] : back[s][i].bstate \in Int
  PROVE  Fresh' /\ ScoreLinked'
<1>1. ScoreLinked'
  BY ScoresRestated
<1>2. Fresh'
  <2>1. ASSUME Len(back[0]) = 1, pc = "search",
               NEW s \in States(graph) \ {0}, NEW i \in DOMAIN back[s]
        PROVE  back[s][i].bstate <= cur'.st
    <3>1. back[s][i].bstate <= cur.st
      BY <2>1 DEF Fresh
    <3>2. back[s][i].bstate \in Int
      OBVIOUS
    <3>3. QED
      BY <3>1, <3>2
  <2>2. QED
    BY <2>1 DEF Fresh
<1>3. QED
  BY <1>1, <1>2

(* A cleared graph has no scores to link. *)
LEMMA ClearedScore ==
  ASSUME 0 \in States(graph'), back' = [s \in States(graph') |-> << >>]
  PROVE  Fresh' /\ ScoreLinked'
<1>1. Len(back'[0]) = 0 /\ \A s \in States(graph') : back'[s] = << >>
  OBVIOUS
<1>2. Fresh'
  BY <1>1 DEF Fresh
<1>3. ScoresFollow(back', graph')
  BY <1>1 DEF ScoresFollow
<1>4. QED
  BY <1>2, <1>3, ScoresRestated

(* A request on a cleared graph starts with no path but the initial one;   *)
(* any other request finds more than one path at state 0.                  *)
LEMMA RequestScore ==
  ASSUME IInv, Fresh, NEW r \in Requests, getPrefix(r)
  PROVE  Fresh' /\ ScoreLinked'
<1>1. 0 \in States(graph)
  BY GraphsAssumption DEF IInv, TypeOK, GraphType, States
<1>2. back[0] \in Seq(BackType(graph)) /\ back \in [States(graph) -> Seq(BackType(graph))]
  BY <1>1 DEF IInv, TypeOK
<1>3. back'[0] = Append(back[0], InitialBack)
      /\ \A s \in States(graph) \ {0} : back'[s] = back[s]
  BY <1>1, <1>2 DEF getPrefix
<1>4. graph' = graph
  BY DEF getPrefix
<1>5. Len(back'[0]) = Len(back[0]) + 1 /\ Len(back[0]) \in Nat
  BY <1>2, <1>3
<1>6. Len(back'[0]) = 1 => \A s \in States(graph) \ {0} : back'[s] = << >>
  BY <1>3, <1>5 DEF Fresh
<1>7. Fresh'
  BY <1>4, <1>5, <1>6 DEF Fresh
<1>8. ScoresFollow(back', graph')
  BY <1>4, <1>6 DEF ScoresFollow
<1>9. QED
  BY <1>7, <1>8, ScoresRestated

(* Every step keeps the scores linked. *)
LEMMA ScoreStep ==
  ASSUME IInv, Fresh, ScoreLinked, [Next]_vars
  PROVE  Fresh' /\ ScoreLinked'
<1>1. cur.st \in Int /\ graph \in Graphs /\ 0 \in States(graph)
  BY GraphsAssumption DEF IInv, TypeOK, GraphType, States
<1>2. \A s \in States(graph) : \A i \in DOMAIN back[s] : back[s][i].bstate \in Int
  <2>1. graph.n \in Int /\ back \in [States(graph) -> Seq(BackType(graph))]
    BY <1>1, GraphsAssumption DEF GraphType, IInv, TypeOK
  <2>2. \A b \in BackType(graph) : b.bstate \in Int
    BY <2>1 DEF BackType
  <2>3. QED
    BY <2>1, <2>2
<1>3. CASE UNCHANGED vars
  <2>1. UNCHANGED << graph, back, pc >> /\ cur' = cur
    BY <1>3 DEF vars
  <2>2. cur'.st = cur.st
    BY <2>1
  <2>3. cur'.st \in Int /\ cur'.st >= cur.st
    BY <1>1, <2>2
  <2>4. QED
    BY <1>1, <1>2, <2>1, <2>3, SameScore
<1>4. ASSUME NEW g \in Graphs, createGraph(g) PROVE Fresh' /\ ScoreLinked'
  <2>1. 0 \in States(graph') /\ back' = [s \in States(graph') |-> << >>]
    BY <1>4, GraphsAssumption DEF createGraph, GraphType, States
  <2>2. QED
    BY <2>1, ClearedScore
<1>5. ASSUME NEW r \in Requests, getPrefix(r) PROVE Fresh' /\ ScoreLinked'
  BY <1>5, RequestScore
<1>6. CASE process_jump
  <2> USE <1>6 DEF process_jump
  <2>1. cur'.st = cur.st /\ pc' = pc /\ AtTransition
        /\ UNCHANGED << graph, prefix, best >>
    BY DEF searchVars, IInv, TypeOK
  <2>2. CASE JumpAllowed
    <3>1. PICK error \in {0, 1} :
            back' = [back EXCEPT ![Trans.to] = Record(@, Continue(error, Back.matched, 1))]
      BY <2>2
    <3>2. Back.matched \in Back.matched .. Len(prefix) - 1
      BY <2>1, Positions
    <3>3. error \in Nat /\ 1 \in 0 .. 2
      OBVIOUS
    <3>4. QED
      BY <2>1, <3>1, <3>2, <3>3, ExtendScore
  <2>3. CASE ~JumpAllowed
    <3>1. back' = back /\ cur'.st \in Int /\ cur'.st >= cur.st
      BY <1>1, <2>1, <2>3
    <3>2. QED
      BY <1>1, <1>2, <2>1, <3>1, SameScore
  <2>4. QED
    BY <2>2, <2>3
<1>7. CASE process_match
  <2> DEFINE m == Matches[cur.mi]
             jump == IF Back.jump = 0 THEN 0 ELSE 2
  <2>1. cur'.st = cur.st /\ pc' = pc /\ AtTransition /\ UNCHANGED << graph, prefix >>
        /\ cur.mi \in DOMAIN Matches
    BY <1>7, Positions DEF process_match, searchVars, IInv, TypeOK
  <2>2. CASE MatchOn(m)
    <3>1. m.error \in Nat /\ m.pm \in Back.matched .. Len(prefix) - 1
      <4>1. m \in MatchType(prefix, Back.matched, Trans.output)
        BY <2>1, Positions
      <4>2. m.pm < Len(prefix) /\ Back.matched \in Nat /\ Len(prefix) \in Nat
        BY <2>1, <2>2, Positions DEF MatchOn, BackType
      <4>3. QED
        <5> HIDE DEF m
        <5> QED
          BY <4>1, <4>2 DEF MatchType
    <3>2. back' = [back EXCEPT ![Trans.to] = Record(@, Continue(m.error, m.pm, jump))]
          /\ UNCHANGED best
      BY <2>2 DEF MatchOn
    <3>3. jump \in 0 .. 2
      OBVIOUS
    <3>4. QED
      <4> HIDE DEF m, jump
      <4> QED
        BY <2>1, <3>1, <3>2, <3>3, ExtendScore
  <2>3. CASE Complete(m)
    <3>1. back' = back /\ cur'.st \in Int /\ cur'.st >= cur.st
      BY <1>1, <2>1, <2>3 DEF Complete
    <3>2. QED
      BY <1>1, <1>2, <2>1, <3>1, SameScore
  <2>4. QED
    BY <1>7, <2>2, <2>3 DEF process_match
<1>8. CASE NextTransition \/ NextBack \/ NextState
  <2>1. UNCHANGED << graph, back, pc >>
    BY <1>8 DEF NextTransition, NextBack, NextState, searchVars
  <2>2. cur'.st \in Int /\ cur'.st >= cur.st
    <3>1. cur \in [st : 0 .. graph.n, bi : Nat \ {0}, ti : Nat \ {0}, mi : Nat]
      BY DEF IInv, TypeOK
    <3>2. cur'.st = cur.st \/ cur'.st = cur.st + 1
      <4>1. CASE NextTransition
        BY <3>1, <4>1 DEF NextTransition
      <4>2. CASE NextBack
        BY <3>1, <4>2 DEF NextBack
      <4>3. CASE NextState
        BY <3>1, <4>3 DEF NextState
      <4>4. QED
        BY <1>8, <4>1, <4>2, <4>3
    <3>3. QED
      BY <1>1, <3>2
  <2>3. QED
    BY <1>1, <1>2, <2>1, <2>2, SameScore
<1>9. CASE Fail
  <2>1. graph' = graph /\ back' = back /\ pc' = "idle"
    BY <1>9 DEF Fail
  <2>2. Fresh'
    BY <2>1 DEF Fresh
  <2>3. QED
    BY <2>1, <2>2, ScoresRestated
<1>10. CASE Answer
  <2>1. 0 \in States(graph') /\ back' = [s \in States(graph') |-> << >>]
    BY <1>1, <1>10 DEF Answer
  <2>2. QED
    BY <2>1, ClearedScore
<1>11. QED
  BY <1>3, <1>4, <1>5, <1>6, <1>7, <1>8, <1>9, <1>10 DEF Next, Step

(* In a search on a cleared graph a recorded path has the score of the one *)
(* it was made from plus that of the transition, and no fewer errors.      *)
THEOREM ScoresLinked == Spec => []ScoreLinked
<1>1. Init => Fresh /\ ScoreLinked
  <2> SUFFICES ASSUME Init PROVE Fresh /\ ScoreLinked
    OBVIOUS
  <2>1. 0 \in States(graph) /\ \A s \in States(graph) : back[s] = << >>
    BY GraphsAssumption DEF Init, GraphType, States
  <2>2. Len(back[0]) = 0
    BY <2>1
  <2>3. QED
    BY <2>1, <2>2, ScoresRestated DEF Fresh, ScoresFollow
<1>2. IInv /\ (Fresh /\ ScoreLinked) /\ [Next]_vars => (Fresh /\ ScoreLinked)'
  BY ScoreStep
<1>3. QED
  BY <1>1, <1>2, Invariance, PTL DEF Spec

(***************************************************************************)
(* The prefix search WeightedCaitraWithJump keeps its promise: a request   *)
(* that finds the search cleared is answered with a completion that is     *)
(* worth most, for every set of graphs, prefixes and vocabularies, every   *)
(* error weight and every way of matching a phrase.                        *)
(*                                                                         *)
(* The argument has three parts: what the ways of BestCompletion are, what *)
(* the loops have done when they end, and the comparison of the two.       *)
(***************************************************************************)

-------------------------------------------------------------------------
(* Graphs and matches, as the ways use them. *)

LEMMA TransFacts ==
  ASSUME NEW g \in Graphs, NEW s \in States(g), NEW k \in DOMAIN g.trans[s]
  PROVE  /\ g.trans[s][k].to \in States(g) /\ g.trans[s][k].to > s
         /\ g.trans[s][k].score \in Int /\ g.trans[s][k].output \in Seq(Words)
         /\ g.fscore[g.trans[s][k].to] \in Int /\ g.fscore[s] \in Int
         /\ g.trans[s][k].score + g.fscore[g.trans[s][k].to] <= g.fscore[s]
         /\ g.n \in Nat /\ s \in 0 .. g.n - 1
<1>1. GraphType(g) /\ Ordered(g) /\ ForwardBest(g)
  BY GraphsAssumption
<1>2. g.n \in Nat /\ s \in 0 .. g.n - 1
  BY <1>1 DEF GraphType, States
<1>3. g.trans[s] \in Seq(TransitionType)
  BY <1>1 DEF GraphType
<1>4. g.trans[s][k] \in TransitionType
  BY <1>3
<1>5. g.trans[s][k].to \in s + 1 .. g.n - 1
  BY <1>1 DEF Ordered
<1>6. g.trans[s][k].to \in States(g) /\ g.trans[s][k].to > s
  BY <1>2, <1>5 DEF States
<1>7. g.fscore[g.trans[s][k].to] \in Int /\ g.fscore[s] \in Int
  BY <1>1, <1>6 DEF GraphType
<1>8. g.trans[s][k].score + g.fscore[g.trans[s][k].to] <= g.fscore[s]
  BY <1>1 DEF ForwardBest
<1>9. g.trans[s][k].score \in Int /\ g.trans[s][k].output \in Seq(Words)
  BY <1>4 DEF TransitionType
<1>10. QED
  BY <1>2, <1>6, <1>7, <1>8, <1>9

LEMMA MatchFacts ==
  ASSUME NEW g \in Graphs, NEW r \in Requests, NEW part \in SUBSET Words,
         NEW s \in States(g), NEW k \in DOMAIN g.trans[s],
         NEW m \in 0 .. Len(r.tokens) - 1,
         NEW y \in DOMAIN EditMatches(r.tokens, m, g.trans[s][k].output, part, r.space)
  PROVE  LET x == EditMatches(r.tokens, m, g.trans[s][k].output, part, r.space)[y]
         IN  x.error \in Nat /\ x.pm \in m + 1 .. Len(r.tokens) /\ x.tm \in Nat
<1> DEFINE E == EditMatches(r.tokens, m, g.trans[s][k].output, part, r.space)
           M == MatchType(r.tokens, m, g.trans[s][k].output)
<1>1. E \in Seq(M)
  BY MatchesAssumption
<1>2. E[y] \in M
  <2> HIDE DEF M
  <2> QED
    BY <1>1
<1>3. 0 .. Len(g.trans[s][k].output) \subseteq Nat
  OBVIOUS
<1>4. QED
  BY <1>2, <1>3 DEF MatchType

(* How many tokens there are. *)
LEMMA Tokens ==
  ASSUME NEW r \in Requests
  PROVE  /\ r.tokens \in Seq(Words) /\ Len(r.tokens) \in Nat \ {0}
         /\ 0 \in 0 .. Len(r.tokens) - 1
BY RequestsAssumption

-------------------------------------------------------------------------
(* The ways. *)

Ends(g, r, part) ==
  { Promise!Completion(g, g.trans[a[1]][a[2]],
      EditMatches(r.tokens, a[3], g.trans[a[1]][a[2]].output, part, r.space)[a[4]])
    : a \in States(g) \X Nat \X Nat \X Nat }

WayType(g, r, part) ==
  [score : Int, error : Nat, last : { w.last : w \in Ends(g, r, part) },
   jumped : Seq(Words), suffix : { w.suffix : w \in Ends(g, r, part) }]

Over(g, r, part, ways, c, k) ==
  Promise!WaysOver(g, r.tokens, r.space, part, ways, c, g.trans[c[1]][k])

(* The kinds of ways that begin with a transition: it is jumped over, it    *)
(* ends the way, or it is matched and something follows.                   *)
Kinds(g, r, part, ways, s, m, j, k, w) ==
  LET t == g.trans[s][k]
      E == EditMatches(r.tokens, m, t.output, part, r.space)
  IN  \/ j # 2 /\ \E v \in ways[<< t.to, m, 1 >>] :
                     w = Promise!Jumped(v, t, IF j = 0 THEN 1 ELSE 0)
      \/ \E y \in DOMAIN E :
           \/ E[y].pm = Len(r.tokens) /\ w = Promise!Completion(g, t, E[y])
           \/ /\ E[y].pm # Len(r.tokens)
              /\ \E v \in ways[<< t.to, E[y].pm, IF j = 0 THEN 0 ELSE 2 >>] :
                   w = Promise!Matched(v, t, E[y].error)

LEMMA OverShape ==
  ASSUME NEW g, NEW r, NEW part, NEW ways, NEW s, NEW m, NEW j, NEW k, NEW w
  PROVE  w \in Over(g, r, part, ways, << s, m, j >>, k)
         <=> Kinds(g, r, part, ways, s, m, j, k, w)
<1> DEFINE t == g.trans[s][k]
           E == EditMatches(r.tokens, m, t.output, part, r.space)
           J == IF j = 2 THEN {}
                ELSE { Promise!Jumped(v, t, IF j = 0 THEN 1 ELSE 0) : v \in ways[<< t.to, m, 1 >>] }
           M(y) == IF E[y].pm = Len(r.tokens)
                     THEN { Promise!Completion(g, t, E[y]) }
                     ELSE { Promise!Matched(v, t, E[y].error)
                            : v \in ways[<< t.to, E[y].pm, IF j = 0 THEN 0 ELSE 2 >>] }
<1>1. Over(g, r, part, ways, << s, m, j >>, k) = J \cup UNION { M(y) : y \in DOMAIN E }
  BY DEF Over, Promise!WaysOver
<1>2. w \in J <=> j # 2 /\ \E v \in ways[<< t.to, m, 1 >>] :
                             w = Promise!Jumped(v, t, IF j = 0 THEN 1 ELSE 0)
  OBVIOUS
<1>3. \A y : w \in M(y) <=>
        \/ E[y].pm = Len(r.tokens) /\ w = Promise!Completion(g, t, E[y])
        \/ /\ E[y].pm # Len(r.tokens)
           /\ \E v \in ways[<< t.to, E[y].pm, IF j = 0 THEN 0 ELSE 2 >>] :
                w = Promise!Matched(v, t, E[y].error)
  OBVIOUS
<1>4. w \in UNION { M(y) : y \in DOMAIN E } <=> \E y \in DOMAIN E : w \in M(y)
  <2> HIDE DEF M, E
  <2> QED
    OBVIOUS
<1> HIDE DEF J, M
<1>5. QED
  BY <1>1, <1>2, <1>3, <1>4 DEF Kinds

LEMMA WayFields ==
  ASSUME NEW g, NEW r, NEW part, NEW v \in WayType(g, r, part)
  PROVE  v.score \in Int /\ v.error \in Nat /\ v.jumped \in Seq(Words)
<1> DEFINE L == { w.last : w \in Ends(g, r, part) }
           F == { w.suffix : w \in Ends(g, r, part) }
<1>1. v \in [score : Int, error : Nat, last : L, jumped : Seq(Words), suffix : F]
  BY DEF WayType
<1> HIDE DEF L, F
<1>2. QED
  BY <1>1

(* A way with a transition before it is a way. *)
LEMMA WayLonger ==
  ASSUME NEW g \in Graphs, NEW r \in Requests, NEW part \in SUBSET Words,
         NEW v \in WayType(g, r, part), NEW t, t.score \in Int, t.output \in Seq(Words),
         NEW error \in Nat
  PROVE  /\ Promise!Jumped(v, t, error) \in WayType(g, r, part)
         /\ Promise!Jumped(v, t, error).score = v.score + t.score
         /\ Promise!Jumped(v, t, error).error = v.error + error
         /\ Promise!Jumped(v, t, error).last = v.last
         /\ Promise!Jumped(v, t, error).suffix = v.suffix
         /\ Promise!Jumped(v, t, error).jumped = t.output \o v.jumped
         /\ Promise!Matched(v, t, error) \in WayType(g, r, part)
         /\ Promise!Matched(v, t, error).score = v.score + t.score
         /\ Promise!Matched(v, t, error).error = v.error + error
         /\ Promise!Matched(v, t, error).last = v.last
         /\ Promise!Matched(v, t, error).suffix = v.suffix
         /\ Promise!Matched(v, t, error).jumped = v.jumped
         /\ v.score \in Int /\ v.error \in Nat /\ v.jumped \in Seq(Words)
<1> DEFINE L == { w.last : w \in Ends(g, r, part) }
           F == { w.suffix : w \in Ends(g, r, part) }
<1>1. v \in [score : Int, error : Nat, last : L, jumped : Seq(Words), suffix : F]
  BY DEF WayType
<1> HIDE DEF L, F
<1>2. /\ v.score \in Int /\ v.error \in Nat /\ v.last \in L /\ v.jumped \in Seq(Words)
      /\ v.suffix \in F
  BY <1>1
<1>3. v.score + t.score \in Int /\ v.error + error \in Nat /\ t.output \o v.jumped \in Seq(Words)
  BY <1>2
<1>4. Promise!Jumped(v, t, error)
        = [score |-> v.score + t.score, error |-> v.error + error, last |-> v.last,
           jumped |-> t.output \o v.jumped, suffix |-> v.suffix]
  BY DEF Promise!Jumped
<1>5. Promise!Matched(v, t, error)
        = [score |-> v.score + t.score, error |-> v.error + error, last |-> v.last,
           jumped |-> v.jumped, suffix |-> v.suffix]
  BY DEF Promise!Matched
<1>6. /\ Promise!Jumped(v, t, error) \in [score : Int, error : Nat, last : L,
                                          jumped : Seq(Words), suffix : F]
      /\ Promise!Matched(v, t, error) \in [score : Int, error : Nat, last : L,
                                           jumped : Seq(Words), suffix : F]
  BY <1>2, <1>3, <1>4, <1>5
<1>7. WayType(g, r, part) = [score : Int, error : Nat, last : L, jumped : Seq(Words), suffix : F]
  BY DEF WayType, L, F
<1> DEFINE J == Promise!Jumped(v, t, error)
           M == Promise!Matched(v, t, error)
<1> DEFINE sc == v.score + t.score
           er == v.error + error
           la == v.last
           su == v.suffix
           ju == v.jumped
           lo == t.output \o v.jumped
<1>8. /\ J.score = v.score + t.score /\ J.error = v.error + error /\ J.last = v.last
      /\ J.suffix = v.suffix /\ J.jumped = t.output \o v.jumped
  <2>1. J = [score |-> sc, error |-> er, last |-> la, jumped |-> lo, suffix |-> su]
    BY ONLY <1>4
  <2> HIDE DEF J, sc, er, la, lo, su
  <2>2. J.score = sc /\ J.error = er /\ J.last = la /\ J.suffix = su /\ J.jumped = lo
    BY ONLY <2>1
  <2>3. QED
    BY ONLY <2>2 DEF sc, er, la, lo, su
<1>9. /\ M.score = v.score + t.score /\ M.error = v.error + error /\ M.last = v.last
      /\ M.suffix = v.suffix /\ M.jumped = v.jumped
  <2>1. M = [score |-> sc, error |-> er, last |-> la, jumped |-> ju, suffix |-> su]
    BY ONLY <1>5
  <2> HIDE DEF M, sc, er, la, ju, su
  <2>2. M.score = sc /\ M.error = er /\ M.last = la /\ M.suffix = su /\ M.jumped = ju
    BY ONLY <2>1
  <2>3. QED
    BY ONLY <2>2 DEF sc, er, la, ju, su
<1>10. QED
  BY <1>2, <1>6, <1>7, <1>8, <1>9

(* So is an end. *)
LEMMA WayEnd ==
  ASSUME NEW g \in Graphs, NEW r \in Requests, NEW part \in SUBSET Words,
         NEW s \in States(g), NEW k \in DOMAIN g.trans[s], NEW m \in 0 .. Len(r.tokens) - 1,
         NEW y \in DOMAIN EditMatches(r.tokens, m, g.trans[s][k].output, part, r.space)
  PROVE  Promise!Completion(g, g.trans[s][k],
           EditMatches(r.tokens, m, g.trans[s][k].output, part, r.space)[y])
             \in WayType(g, r, part)
<1> DEFINE t == g.trans[s][k]
           E == EditMatches(r.tokens, m, t.output, part, r.space)
           w == Promise!Completion(g, t, E[y])
<1>1. k \in Nat /\ m \in Nat /\ y \in Nat
  <2>1. g.trans[s] \in Seq(TransitionType)
    BY GraphsAssumption DEF GraphType
  <2>2. E \in Seq(MatchType(r.tokens, m, t.output))
    BY MatchesAssumption
  <2>3. y \in Nat
    <3> DEFINE M == MatchType(r.tokens, m, t.output)
    <3> HIDE DEF M, E
    <3> QED
      BY <2>2 DEF E
  <2>4. QED
    BY <2>1, <2>3
<1>2. w \in Ends(g, r, part)
  <2>1. << s, k, m, y >> \in States(g) \X Nat \X Nat \X Nat
    BY <1>1
  <2>2. w = Promise!Completion(g, g.trans[<< s, k, m, y >>[1]][<< s, k, m, y >>[2]],
      EditMatches(r.tokens, << s, k, m, y >>[3],
         g.trans[<< s, k, m, y >>[1]][<< s, k, m, y >>[2]].output, part, r.space)[<< s, k, m, y >>[4]])
    OBVIOUS
  <2>3. QED
    BY <2>1, <2>2 DEF Ends
<1>3. t.score + g.fscore[t.to] \in Int /\ E[y].error \in Nat
  <2>1. t.score \in Int /\ g.fscore[t.to] \in Int
    BY TransFacts
  <2>2. E[y].error \in Nat
    BY MatchFacts
  <2> HIDE DEF t, E
  <2>3. QED
    BY <2>1, <2>2
<1>4. w.last \in { v.last : v \in Ends(g, r, part) }
      /\ w.suffix \in { v.suffix : v \in Ends(g, r, part) }
  BY <1>2
<1>5. w = [score |-> t.score + g.fscore[t.to], error |-> E[y].error, last |-> w.last,
           jumped |-> << >>, suffix |-> w.suffix]
  BY DEF Promise!Completion
<1>6. << >> \in Seq(Words)
  OBVIOUS
<1> HIDE DEF w, E, t
<1>7. w \in WayType(g, r, part)
  <2> DEFINE L == { v.last : v \in Ends(g, r, part) }
             F == { v.suffix : v \in Ends(g, r, part) }
             a == t.score + g.fscore[t.to]
             b == E[y].error
             l == w.last
             f == w.suffix
  <2>1. w = [score |-> a, error |-> b, last |-> l, jumped |-> << >>, suffix |-> f]
    BY <1>5
  <2>2. a \in Int /\ b \in Nat /\ l \in L /\ f \in F
    BY <1>3, <1>4
  <2> HIDE DEF L, F, a, b, l, f
  <2>3. w \in [score : Int, error : Nat, last : L, jumped : Seq(Words), suffix : F]
    BY <1>6, <2>1, <2>2
  <2>4. QED
    BY <2>3 DEF WayType, L, F
<1>8. QED
  BY <1>7 DEF w, E, t

(* What the ways from one situation are, given those from later states. *)
SituationsOf(g, r) == States(g) \X (0 .. Len(r.tokens) - 1) \X (0 .. 2)

WaysFrom(g, r, part, ways, c) ==
  UNION { Over(g, r, part, ways, c, k) : k \in DOMAIN g.trans[c[1]] }

LEMMA WaysFromType ==
  ASSUME NEW g \in Graphs, NEW r \in Requests, NEW part \in SUBSET Words,
         NEW f \in [SituationsOf(g, r) -> SUBSET WayType(g, r, part)],
         NEW s \in States(g), NEW m \in 0 .. Len(r.tokens) - 1, NEW j \in 0 .. 2,
         NEW k \in DOMAIN g.trans[s], NEW w \in Over(g, r, part, f, << s, m, j >>, k)
  PROVE  w \in WayType(g, r, part)
<1> DEFINE t == g.trans[s][k]
           E == EditMatches(r.tokens, m, t.output, part, r.space)
<1>1. \/ j # 2 /\ \E v \in f[<< t.to, m, 1 >>] :
                    w = Promise!Jumped(v, t, IF j = 0 THEN 1 ELSE 0)
      \/ \E y \in DOMAIN E :
           \/ E[y].pm = Len(r.tokens) /\ w = Promise!Completion(g, t, E[y])
           \/ /\ E[y].pm # Len(r.tokens)
              /\ \E v \in f[<< t.to, E[y].pm, IF j = 0 THEN 0 ELSE 2 >>] :
                   w = Promise!Matched(v, t, E[y].error)
  <2>1. Kinds(g, r, part, f, s, m, j, k, w)
    BY OverShape
  <2>2. QED
    BY <2>1, Zenon DEF Kinds
<1>2. t.to \in States(g) /\ t.score \in Int /\ t.output \in Seq(Words)
  BY TransFacts
<1>3. ASSUME NEW a \in 0 .. Len(r.tokens) - 1, NEW b \in 0 .. 2, NEW v \in f[<< t.to, a, b >>]
      PROVE  v \in WayType(g, r, part)
  <2> DEFINE to == t.to
  <2>1. << to, a, b >> \in SituationsOf(g, r) /\ v \in f[<< to, a, b >>]
    BY <1>2, <1>3 DEF SituationsOf
  <2> HIDE DEF to
  <2>2. QED
    BY <2>1
<1>4. CASE \E v \in f[<< t.to, m, 1 >>] : w = Promise!Jumped(v, t, IF j = 0 THEN 1 ELSE 0)
  <2>1. PICK v \in f[<< t.to, m, 1 >>] : w = Promise!Jumped(v, t, IF j = 0 THEN 1 ELSE 0)
    BY <1>4
  <2>2. v \in WayType(g, r, part)
    <3> HIDE DEF t, E
    <3>1. 1 \in 0 .. 2
      OBVIOUS
    <3>2. QED
      BY <1>3, <2>1, <3>1
  <2>3. (IF j = 0 THEN 1 ELSE 0) \in Nat
    OBVIOUS
  <2> HIDE DEF t
  <2>4. QED
    BY <1>2, <2>1, <2>2, <2>3, WayLonger
<1>5. ASSUME NEW y \in DOMAIN E PROVE E[y].error \in Nat /\ E[y].pm \in m + 1 .. Len(r.tokens)
  BY MatchFacts
<1>6. ASSUME NEW y \in DOMAIN E, w = Promise!Completion(g, t, E[y])
      PROVE  w \in WayType(g, r, part)
  BY <1>6, WayEnd
<1>7. ASSUME NEW y \in DOMAIN E, E[y].pm # Len(r.tokens),
             NEW v \in f[<< t.to, E[y].pm, IF j = 0 THEN 0 ELSE 2 >>],
             w = Promise!Matched(v, t, E[y].error)
      PROVE  w \in WayType(g, r, part)
  <2>1. E[y].pm \in 0 .. Len(r.tokens) - 1 /\ E[y].error \in Nat
    <3>1. E[y].error \in Nat /\ E[y].pm \in m + 1 .. Len(r.tokens) /\ E[y].pm # Len(r.tokens)
      BY <1>5, <1>7
    <3>2. Len(r.tokens) \in Nat
      BY Tokens
    <3> HIDE DEF E
    <3>3. QED
      BY <3>1, <3>2
  <2>2. (IF j = 0 THEN 0 ELSE 2) \in 0 .. 2
    OBVIOUS
  <2>3. v \in WayType(g, r, part)
    BY <1>3, <2>1, <2>2, Zenon
  <2> HIDE DEF t, E
  <2>4. QED
    BY <1>2, <1>7, <2>1, <2>3, WayLonger
<1> HIDE DEF t, E
<1>8. QED
  BY <1>1, <1>4, <1>6, <1>7, Zenon

(* The ways over a transition depend only on those from later states. *)
LEMMA OverBelow ==
  ASSUME NEW g \in Graphs, NEW r \in Requests, NEW part \in SUBSET Words, NEW f, NEW h,
         NEW s \in States(g), NEW m \in 0 .. Len(r.tokens) - 1, NEW j \in 0 .. 2,
         NEW k \in DOMAIN g.trans[s],
         \A a \in States(g), b \in 0 .. Len(r.tokens) - 1, e \in 0 .. 2 :
           a > s => f[<< a, b, e >>] = h[<< a, b, e >>]
  PROVE  Over(g, r, part, f, << s, m, j >>, k) \subseteq Over(g, r, part, h, << s, m, j >>, k)
<1> SUFFICES ASSUME NEW w \in Over(g, r, part, f, << s, m, j >>, k)
             PROVE  w \in Over(g, r, part, h, << s, m, j >>, k)
  OBVIOUS
<1> DEFINE t == g.trans[s][k]
           E == EditMatches(r.tokens, m, t.output, part, r.space)
           i == IF j = 0 THEN 0 ELSE 2
<1>1. \/ j # 2 /\ \E v \in f[<< t.to, m, 1 >>] :
                    w = Promise!Jumped(v, t, IF j = 0 THEN 1 ELSE 0)
      \/ \E y \in DOMAIN E :
           \/ E[y].pm = Len(r.tokens) /\ w = Promise!Completion(g, t, E[y])
           \/ /\ E[y].pm # Len(r.tokens)
              /\ \E v \in f[<< t.to, E[y].pm, i >>] : w = Promise!Matched(v, t, E[y].error)
  <2>1. Kinds(g, r, part, f, s, m, j, k, w)
    BY OverShape
  <2>2. QED
    BY <2>1, Zenon DEF Kinds
<1>2. t.to \in States(g) /\ t.to > s
  BY TransFacts
<1>3. f[<< t.to, m, 1 >>] = h[<< t.to, m, 1 >>]
  <2> HIDE DEF t
  <2>1. 1 \in 0 .. 2
    OBVIOUS
  <2>2. QED
    BY <1>2, <2>1
<1>4. \A y \in DOMAIN E : E[y].pm # Len(r.tokens) =>
        f[<< t.to, E[y].pm, i >>] = h[<< t.to, E[y].pm, i >>]
  <2>1. ASSUME NEW y \in DOMAIN E, E[y].pm # Len(r.tokens)
        PROVE  E[y].pm \in 0 .. Len(r.tokens) - 1
    <3>1. E[y].pm \in m + 1 .. Len(r.tokens)
      BY MatchFacts
    <3>2. QED
      BY <2>1, <3>1, Tokens
  <2> HIDE DEF t, E
  <2>2. i \in 0 .. 2
    OBVIOUS
  <2>3. QED
    BY <1>2, <2>1, <2>2
<1>5. \/ j # 2 /\ \E v \in h[<< t.to, m, 1 >>] :
                    w = Promise!Jumped(v, t, IF j = 0 THEN 1 ELSE 0)
      \/ \E y \in DOMAIN E :
           \/ E[y].pm = Len(r.tokens) /\ w = Promise!Completion(g, t, E[y])
           \/ /\ E[y].pm # Len(r.tokens)
              /\ \E v \in h[<< t.to, E[y].pm, i >>] : w = Promise!Matched(v, t, E[y].error)
  <2> HIDE DEF t, E, i
  <2> QED
    BY <1>1, <1>3, <1>4
<1>6. Kinds(g, r, part, h, s, m, j, k, w)
  BY <1>5, Zenon DEF Kinds
<1>7. QED
  BY <1>6, OverShape

LEMMA WaysFromBelow ==
  ASSUME NEW g \in Graphs, NEW r \in Requests, NEW part \in SUBSET Words, NEW f, NEW h,
         NEW c \in SituationsOf(g, r),
         \A d \in SituationsOf(g, r) : g.n - d[1] < g.n - c[1] => f[d] = h[d]
  PROVE  WaysFrom(g, r, part, f, c) = WaysFrom(g, r, part, h, c)
<1>1. /\ c = << c[1], c[2], c[3] >> /\ c[1] \in States(g)
      /\ c[2] \in 0 .. Len(r.tokens) - 1 /\ c[3] \in 0 .. 2
  BY DEF SituationsOf
<1>2. g.n \in Int /\ States(g) \subseteq Int
  BY GraphsAssumption DEF GraphType, States
<1>3. ASSUME NEW a \in States(g), NEW b \in 0 .. Len(r.tokens) - 1, NEW e \in 0 .. 2, a > c[1]
      PROVE  f[<< a, b, e >>] = h[<< a, b, e >>]
  <2> DEFINE d == << a, b, e >>
  <2>1. d \in SituationsOf(g, r) /\ d[1] = a
    BY DEF SituationsOf
  <2>2. g.n - a < g.n - c[1]
    BY <1>1, <1>2, <1>3
  <2>3. QED
    BY <2>1, <2>2
<1>4. ASSUME NEW k \in DOMAIN g.trans[c[1]]
      PROVE  Over(g, r, part, f, << c[1], c[2], c[3] >>, k)
               = Over(g, r, part, h, << c[1], c[2], c[3] >>, k)
  <2>1. Over(g, r, part, f, << c[1], c[2], c[3] >>, k)
          \subseteq Over(g, r, part, h, << c[1], c[2], c[3] >>, k)
    BY <1>1, <1>3, OverBelow
  <2>2. \A a \in States(g), b \in 0 .. Len(r.tokens) - 1, e \in 0 .. 2 :
          a > c[1] => h[<< a, b, e >>] = f[<< a, b, e >>]
    BY <1>3
  <2>3. Over(g, r, part, h, << c[1], c[2], c[3] >>, k)
          \subseteq Over(g, r, part, f, << c[1], c[2], c[3] >>, k)
    BY <1>1, <2>2, OverBelow
  <2>4. QED
    BY <2>1, <2>3
<1>5. \A k \in DOMAIN g.trans[c[1]] : Over(g, r, part, f, c, k) = Over(g, r, part, h, c, k)
  BY <1>1, <1>4
<1>6. QED
  BY <1>5 DEF WaysFrom

WaysOf(g, r, part) == Promise!AllWays(g, r.tokens, r.space, part)

(* There are such ways, and AllWays is them. *)
LEMMA WaysEquation ==
  ASSUME NEW g \in Graphs, NEW r \in Requests, NEW part \in SUBSET Words
  PROVE  /\ WaysOf(g, r, part) \in [SituationsOf(g, r) -> SUBSET WayType(g, r, part)]
         /\ \A c \in SituationsOf(g, r) :
              WaysOf(g, r, part)[c] = WaysFrom(g, r, part, WaysOf(g, r, part), c)
<1> DEFINE D == SituationsOf(g, r)
           V == SUBSET WayType(g, r, part)
           G == [f \in [D -> V] |-> [c \in D |-> WaysFrom(g, r, part, f, c)]]
           rank == [c \in D |-> g.n - c[1]]
<1>1. g.n \in Nat /\ rank \in [D -> 0 .. g.n]
  <2>1. g.n \in Nat /\ \A s \in States(g) : g.n - s \in 0 .. g.n
    BY GraphsAssumption DEF GraphType, States
  <2>2. QED
    BY <2>1 DEF SituationsOf
<1>2. ASSUME NEW f \in [D -> V], NEW c \in D PROVE G[f][c] = WaysFrom(g, r, part, f, c)
  OBVIOUS
<1>3. ASSUME NEW c \in D
      PROVE  /\ c = << c[1], c[2], c[3] >> /\ c[1] \in States(g)
             /\ c[2] \in 0 .. Len(r.tokens) - 1 /\ c[3] \in 0 .. 2
  BY DEF SituationsOf
<1>4. KeepsType(G, D, V)
  <2>1. ASSUME NEW f \in [D -> V], NEW c \in D PROVE WaysFrom(g, r, part, f, c) \in V
    <3>1. ASSUME NEW k \in DOMAIN g.trans[c[1]], NEW w \in Over(g, r, part, f, c, k)
          PROVE  w \in WayType(g, r, part)
      <4>1. w \in Over(g, r, part, f, << c[1], c[2], c[3] >>, k)
        BY <1>3
      <4>2. QED
        BY <1>3, <4>1, WaysFromType
    <3>2. QED
      BY <3>1 DEF WaysFrom
  <2> HIDE DEF D, V, G
  <2>2. QED
    BY <1>2, <2>1 DEF KeepsType
<1>5. LooksBelow(G, D, V, rank)
  <2>1. ASSUME NEW f \in [D -> V], NEW h \in [D -> V], NEW c \in D,
               \A y \in D : rank[y] < rank[c] => f[y] = h[y]
        PROVE  WaysFrom(g, r, part, f, c) = WaysFrom(g, r, part, h, c)
    <3>1. \A d \in D : rank[d] = g.n - d[1]
      OBVIOUS
    <3> HIDE DEF rank
    <3>2. \A d \in D : g.n - d[1] < g.n - c[1] => f[d] = h[d]
      BY <2>1, <3>1
    <3>3. QED
      BY <3>2, WaysFromBelow
  <2> HIDE DEF D, V, G, rank
  <2>2. QED
    BY <1>2, <2>1 DEF LooksBelow
<1>6. V # {}
  OBVIOUS
<1>7. PICK f \in [D -> V] : Solution(f, G, D)
  <2> HIDE DEF D, V, G, rank
  <2> QED
    BY <1>1, <1>4, <1>5, <1>6, Recursion
<1>8. \A c \in D : f[c] = WaysFrom(g, r, part, f, c)
  <2> HIDE DEF D, V, G
  <2> QED
    BY <1>2, <1>7 DEF Solution
<1> HIDE DEF G, rank
<1> DEFINE E(x) == x = [c \in Promise!Situations(g, r.tokens) |->
                         UNION { Promise!WaysOver(g, r.tokens, r.space, part, x, c, g.trans[c[1]][k])
                                 : k \in DOMAIN g.trans[c[1]] }]
<1>9. \A x : E(x) <=> x = [c \in D |-> WaysFrom(g, r, part, x, c)]
  BY DEF SituationsOf, Promise!Situations, Promise!States, States, WaysFrom, Over
<1>10. E(f)
  <2>1. f = [c \in D |-> WaysFrom(g, r, part, f, c)]
    <3> HIDE DEF D, V
    <3> QED
      BY <1>8
  <2>2. QED
    BY <1>9, <2>1
<1>11. WaysOf(g, r, part) = CHOOSE x : E(x)
  BY DEF WaysOf, Promise!AllWays
<1>12. E(WaysOf(g, r, part))
  <2> HIDE DEF E
  <2> QED
    BY <1>10, <1>11
<1>13. WaysOf(g, r, part) = [c \in D |-> WaysFrom(g, r, part, WaysOf(g, r, part), c)]
  BY <1>9, <1>12
<1>14. \A x : x = [c \in D |-> WaysFrom(g, r, part, x, c)]
               => \A c \in D : x[c] = WaysFrom(g, r, part, x, c)
  OBVIOUS
<1> DEFINE X == WaysOf(g, r, part)
<1>15. DOMAIN X = D /\ X = [c \in D |-> X[c]]
  <2> HIDE DEF D
  <2> QED
    BY <1>13
<1>16. \A c \in D : X[c] = WaysFrom(g, r, part, X, c)
  <2> HIDE DEF D, X
  <2> QED
    BY <1>13, <1>14 DEF X
<1> DEFINE S == { n \in Nat : \A c \in D : g.n - c[1] = n => X[c] = f[c] }
<1>17. ASSUME NEW n \in Nat, \A i \in 0 .. n - 1 : i \in S PROVE n \in S
  <2>1. ASSUME NEW c \in D, g.n - c[1] = n PROVE X[c] = f[c]
    <3>1. \A d \in D : g.n - d[1] \in Nat
      BY <1>1, <1>3 DEF States
    <3>2. \A d \in D : g.n - d[1] < g.n - c[1] => X[d] = f[d]
      <4>1. ASSUME NEW d \in D, g.n - d[1] < n PROVE X[d] = f[d]
        <5>1. g.n - d[1] \in 0 .. n - 1
          BY <3>1, <4>1
        <5>2. g.n - d[1] \in S
          BY <1>17, <5>1
        <5>3. QED
          BY <5>2
      <4>2. QED
        BY <2>1, <4>1
    <3>3. WaysFrom(g, r, part, X, c) = WaysFrom(g, r, part, f, c)
      <4> HIDE DEF X
      <4> QED
        BY <3>2, WaysFromBelow
    <3>4. QED
      BY <1>8, <1>16, <3>3
  <2>2. QED
    BY <2>1
<1>18. \A n \in Nat : n \in S
  <2> HIDE DEF S
  <2> QED
    BY <1>17, StrongInduction
<1>19. \A c \in D : X[c] = f[c]
  <2>1. \A d \in D : g.n - d[1] \in Nat
    BY <1>1, <1>3 DEF States
  <2>2. QED
    BY <1>18, <2>1
<1>20. X \in [D -> V]
  <2> HIDE DEF X, V
  <2> QED
    BY <1>15, <1>19
<1>21. QED
  <2> HIDE DEF X, V
  <2>1. X = WaysOf(g, r, part)
    BY DEF X
  <2>2. X \in [D -> SUBSET WayType(g, r, part)]
    BY <1>20 DEF V
  <2>3. QED
    BY <1>16, <2>1, <2>2

(* A way from a situation is of one of these kinds, over some transition.  *)
LEMMA WayKinds ==
  ASSUME NEW g \in Graphs, NEW r \in Requests, NEW part \in SUBSET Words,
         NEW s \in States(g), NEW m \in 0 .. Len(r.tokens) - 1, NEW j \in 0 .. 2, NEW w
  PROVE  /\ w \in WaysOf(g, r, part)[<< s, m, j >>]
              <=> \E k \in DOMAIN g.trans[s] : Kinds(g, r, part, WaysOf(g, r, part), s, m, j, k, w)
         /\ w \in WaysOf(g, r, part)[<< s, m, j >>] => w \in WayType(g, r, part)
<1> DEFINE X == WaysOf(g, r, part)
           c == << s, m, j >>
<1>1. c \in SituationsOf(g, r) /\ c[1] = s
  BY DEF SituationsOf
<1>2. X \in [SituationsOf(g, r) -> SUBSET WayType(g, r, part)]
      /\ X[c] = WaysFrom(g, r, part, X, c)
  BY <1>1, WaysEquation
<1>3. w \in X[c] <=> \E k \in DOMAIN g.trans[s] : w \in Over(g, r, part, X, c, k)
  <2> HIDE DEF X, c
  <2> QED
    BY <1>1, <1>2 DEF WaysFrom
<1>4. \A k : w \in Over(g, r, part, X, c, k) <=> Kinds(g, r, part, X, s, m, j, k, w)
  BY OverShape
<1>5. X[c] \subseteq WayType(g, r, part)
  <2> HIDE DEF X, c
  <2> QED
    BY <1>1, <1>2
<1>6. QED
  BY <1>3, <1>4, <1>5

(* Worth adds up along a way. *)
LEMMA WorthAdds ==
  ASSUME NEW a \in Int, NEW b \in Int, NEW e \in Int, NEW f \in Int
  PROVE  /\ Worth(a + b, e + f) = Worth(a, e) + Worth(b, f)
         /\ Worth(a, e) \in Int
<1>1. ErrorWeight \in Int
  BY NumbersAssumption
<1>2. ErrorWeight * (e + f) = ErrorWeight * e + ErrorWeight * f
  BY <1>1
<1>3. ErrorWeight * e \in Int /\ ErrorWeight * f \in Int
  BY <1>1
<1>4. QED
  BY <1>2, <1>3 DEF Worth

(* If some q that is worth at least x with a step of t and e errors is, with *)
(* v, worth no more than top, then so are x and the step before v.         *)
LEMMA WorthShift ==
  ASSUME NEW x1 \in Int, NEW x2 \in Int, NEW v1 \in Int, NEW v2 \in Int, NEW t1 \in Int,
         NEW e \in Int, NEW q1 \in Int, NEW q2 \in Int, NEW top \in Int,
         Worth(q1, q2) >= Worth(x1 + t1, x2 + e),
         Worth(q1, q2) + Worth(v1, v2) <= top
  PROVE  Worth(x1, x2) + Worth(v1 + t1, v2 + e) <= top
<1>1. Worth(x1 + t1, x2 + e) = Worth(x1, x2) + Worth(t1, e)
  BY WorthAdds
<1>2. Worth(v1 + t1, v2 + e) = Worth(v1, v2) + Worth(t1, e)
  BY WorthAdds
<1>3. Worth(x1, x2) \in Int /\ Worth(t1, e) \in Int
  BY WorthAdds
<1>4. Worth(v1, v2) \in Int /\ Worth(q1, q2) \in Int
  BY WorthAdds
<1> DEFINE a == Worth(x1, x2)
           b == Worth(t1, e)
           c == Worth(v1, v2)
           q == Worth(q1, q2)
<1>5. q >= a + b /\ q + c <= top /\ a \in Int /\ b \in Int /\ c \in Int /\ q \in Int
  BY <1>1, <1>3, <1>4
<1>6. a + (c + b) <= top
  <2> HIDE DEF a, b, c, q
  <2> QED
    BY <1>5
<1>7. QED
  BY <1>2, <1>6

(* Errors never make anything worth more. *)
LEMMA ErrorsCost ==
  ASSUME NEW a \in Int, NEW e \in Nat, NEW b \in Int, a <= b
  PROVE  Worth(a, e) <= b
<1>1. ErrorWeight \in Int /\ ErrorWeight <= 0
  BY NumbersAssumption
<1>2. ErrorWeight * e <= 0 /\ ErrorWeight * e \in Int
  BY <1>1
<1>3. QED
  BY <1>2 DEF Worth

(* No way scores more than the best way forward: this is what makes the    *)
(* loop right in dropping a hopeless path.                                 *)
(* What a path may be worth in the end bounds what any path made of it may. *)
LEMMA HopefulBefore ==
  ASSUME NEW g \in Graphs, NEW s \in States(g), NEW k \in DOMAIN g.trans[s],
         NEW score \in Int, NEW error \in Int, NEW e \in Nat, NEW top \in Int,
         g.fscore[g.trans[s][k].to] + Worth(score + g.trans[s][k].score, error + e) >= top
  PROVE  g.fscore[s] + Worth(score, error) >= top
<1> DEFINE t == g.trans[s][k].score
           f == g.fscore[g.trans[s][k].to]
           h == g.fscore[s]
           W == Worth(score, error)
           V == Worth(t, e)
<1>1. t \in Int /\ f \in Int /\ h \in Int /\ t + f <= h
  BY TransFacts
<1>2. f + Worth(score + t, error + e) >= top
  OBVIOUS
<1> HIDE DEF t, f, h
<1>3. W + V = Worth(score + t, error + e) /\ W \in Int /\ V \in Int
  <2>1. e \in Int /\ score \in Int /\ error \in Int
    OBVIOUS
  <2>2. Worth(score, error) + Worth(t, e) = Worth(score + t, error + e)
        /\ Worth(score, error) \in Int /\ Worth(t, e) \in Int
    <3>1. Worth(score + t, error + e) = Worth(score, error) + Worth(t, e)
      BY <1>1, <2>1, WorthAdds
    <3>2. Worth(score, error) \in Int
      BY <1>1, <2>1, WorthAdds
    <3>3. Worth(t, e) \in Int
      BY <1>1, <2>1, WorthAdds
    <3>4. QED
      BY <3>1, <3>2, <3>3
  <2>3. QED
    BY <2>2
<1>4. V <= t
  BY <1>1, ErrorsCost
<1> HIDE DEF W, V
<1>5. h + W >= top
  BY <1>1, <1>2, <1>3, <1>4
<1>6. QED
  BY <1>5 DEF h, W

LEMMA WaysBounded ==
  ASSUME NEW g \in Graphs, NEW r \in Requests, NEW part \in SUBSET Words
  PROVE  \A s \in States(g), m \in 0 .. Len(r.tokens) - 1, j \in 0 .. 2 :
           \A w \in WaysOf(g, r, part)[<< s, m, j >>] : w.score <= g.fscore[s]
<1> DEFINE X == WaysOf(g, r, part)
           Bound(s) == \A m \in 0 .. Len(r.tokens) - 1, j \in 0 .. 2 :
                         \A w \in X[<< s, m, j >>] : w.score <= g.fscore[s]
           S == { n \in Nat : \A s \in States(g) : g.n - s = n => Bound(s) }
<1>1. g.n \in Nat /\ \A s \in States(g) : s \in Int /\ g.n - s \in Nat
  BY GraphsAssumption DEF GraphType, States
<1>2. ASSUME NEW n \in Nat, \A i \in 0 .. n - 1 : i \in S PROVE n \in S
  <2> SUFFICES ASSUME NEW s \in States(g), g.n - s = n,
                      NEW m \in 0 .. Len(r.tokens) - 1, NEW j \in 0 .. 2,
                      NEW w \in X[<< s, m, j >>]
               PROVE  w.score <= g.fscore[s]
    OBVIOUS
  <2>1. PICK k \in DOMAIN g.trans[s] : Kinds(g, r, part, X, s, m, j, k, w)
    BY WayKinds
  <2> DEFINE t == g.trans[s][k]
             E == EditMatches(r.tokens, m, t.output, part, r.space)
  <2>2. /\ t.to \in States(g) /\ t.to > s /\ t.score \in Int /\ t.output \in Seq(Words)
        /\ g.fscore[t.to] \in Int /\ g.fscore[s] \in Int
        /\ t.score + g.fscore[t.to] <= g.fscore[s]
    BY TransFacts
  <2>3. Bound(t.to)
    <3>1. g.n - t.to \in 0 .. n - 1
      <4> DEFINE to == t.to
      <4>1. to \in Int /\ s \in Int /\ to > s /\ g.n - to \in Nat /\ g.n - s = n
        BY <1>1, <2>2
      <4> HIDE DEF to
      <4>2. g.n - to \in 0 .. n - 1
        BY <1>1, <1>2, <4>1
      <4>3. QED
        BY <4>2 DEF to
    <3>2. g.n - t.to \in S
      BY <1>2, <3>1
    <3> HIDE DEF Bound, t
    <3>3. QED
      BY <2>2, <3>2
  <2>4. ASSUME NEW a \in 0 .. Len(r.tokens) - 1, NEW i \in 0 .. 2, NEW v \in X[<< t.to, a, i >>],
               w.score = v.score + t.score
        PROVE  w.score <= g.fscore[s]
    <3>1. v \in WayType(g, r, part)
      BY <2>2, <2>4, WayKinds, ZenonT(30)
    <3>2. v.score \in Int
      BY <3>1, WayFields
    <3>3. v.score <= g.fscore[t.to]
      <4> HIDE DEF X, t
      <4> QED
        BY <2>3, <2>4
    <3> DEFINE x == v.score
               y == t.score
               z == g.fscore[t.to]
               f == g.fscore[s]
    <3>4. /\ x \in Int /\ y \in Int /\ z \in Int /\ f \in Int
          /\ x <= z /\ y + z <= f /\ w.score = x + y
      BY <2>2, <2>4, <3>2, <3>3
    <3> HIDE DEF x, y, z, f
    <3>5. w.score <= f
      BY <3>4
    <3>6. QED
      BY <3>5 DEF f
  <2>5. \/ \E v \in X[<< t.to, m, 1 >>] : w = Promise!Jumped(v, t, IF j = 0 THEN 1 ELSE 0)
        \/ \E y \in DOMAIN E :
             \/ w = Promise!Completion(g, t, E[y])
             \/ /\ E[y].pm # Len(r.tokens)
                /\ \E v \in X[<< t.to, E[y].pm, IF j = 0 THEN 0 ELSE 2 >>] :
                     w = Promise!Matched(v, t, E[y].error)
    BY <2>1 DEF Kinds
  <2>6. CASE \E v \in X[<< t.to, m, 1 >>] : w = Promise!Jumped(v, t, IF j = 0 THEN 1 ELSE 0)
    <3>1. PICK v \in X[<< t.to, m, 1 >>] : w = Promise!Jumped(v, t, IF j = 0 THEN 1 ELSE 0)
      BY <2>6
    <3>2. w.score = v.score + t.score
      BY <3>1 DEF Promise!Jumped
    <3>3. 1 \in 0 .. 2
      OBVIOUS
    <3> HIDE DEF X, t
    <3>4. QED
      BY <2>4, <3>2, <3>3
  <2>7. ASSUME NEW y \in DOMAIN E, w = Promise!Completion(g, t, E[y])
        PROVE  w.score <= g.fscore[s]
    <3>1. w.score = t.score + g.fscore[t.to]
      BY <2>7, Zenon DEF Promise!Completion
    <3>2. QED
      BY <2>2, <3>1
  <2>8. ASSUME NEW y \in DOMAIN E, E[y].pm # Len(r.tokens),
               NEW v \in X[<< t.to, E[y].pm, IF j = 0 THEN 0 ELSE 2 >>],
               w = Promise!Matched(v, t, E[y].error)
        PROVE  w.score <= g.fscore[s]
    <3>1. E[y].pm \in 0 .. Len(r.tokens) - 1
      <4>1. E[y].pm \in m + 1 .. Len(r.tokens)
        BY MatchFacts
      <4>2. QED
        BY <2>8, <4>1, Tokens
    <3>2. w.score = v.score + t.score
      BY <2>8 DEF Promise!Matched
    <3>3. (IF j = 0 THEN 0 ELSE 2) \in 0 .. 2
      OBVIOUS
    <3> HIDE DEF X, t, E
    <3>4. QED
      BY <2>4, <2>8, <3>1, <3>2, <3>3
  <2> HIDE DEF X, t, E
  <2>9. QED
    BY <2>5, <2>6, <2>7, <2>8
<1>3. \A n \in Nat : n \in S
  <2> HIDE DEF S
  <2> QED
    BY <1>2, StrongInduction
<1>4. \A s \in States(g) : Bound(s)
  <2> HIDE DEF Bound
  <2> QED
    BY <1>1, <1>3
<1>5. QED
  BY <1>4

-------------------------------------------------------------------------
(* What recording does to the worth of what is recorded. *)

Has(seq, m, j, w) ==
  \E i \in DOMAIN seq : seq[i].matched = m /\ seq[i].jump = j
                        /\ Worth(seq[i].score, seq[i].error) >= w

LEMMA RecordWorth ==
  ASSUME NEW g \in Graphs, NEW seq \in Seq(BackType(g)), NEW new \in BackType(g), Distinct(seq)
  PROVE  /\ Has(Record(seq, new), new.matched, new.jump, Worth(new.score, new.error))
         /\ \A m, j : \A w \in Int : Has(seq, m, j, w) => Has(Record(seq, new), m, j, w)
<1> DEFINE same == { i \in DOMAIN seq : seq[i].matched = new.matched
                                        /\ seq[i].jump = new.jump }
           first == CHOOSE x \in same : \A y \in same : x <= y
           W(b) == Worth(b.score, b.error)
<1>1. \A b \in BackType(g) : W(b) \in Int
  <2>1. \A b \in BackType(g) : b.score \in Int /\ b.error \in Int
    BY DEF BackType
  <2>2. QED
    BY <2>1, WorthAdds
<1>2. W(new) \in Int /\ \A i \in DOMAIN seq : seq[i] \in BackType(g) /\ W(seq[i]) \in Int
  BY <1>1
<1>3. CASE same = {}
  <2>1. Record(seq, new) = Append(seq, new)
    BY <1>3 DEF Record
  <2>2. /\ Len(seq) + 1 \in DOMAIN Append(seq, new)
        /\ Append(seq, new)[Len(seq) + 1] = new
        /\ \A i \in DOMAIN seq : i \in DOMAIN Append(seq, new) /\ Append(seq, new)[i] = seq[i]
    OBVIOUS
  <2>3. Has(Append(seq, new), new.matched, new.jump, W(new))
    BY <1>2, <2>2 DEF Has
  <2>4. \A m, j : \A w \in Int : Has(seq, m, j, w) => Has(Append(seq, new), m, j, w)
    BY <2>2 DEF Has
  <2>5. QED
    BY <2>1, <2>3, <2>4
<1>4. CASE same # {}
  <2>1. PICK x \in DOMAIN seq : x \in same
    BY <1>4
  <2>2. same = {x}
    BY <2>1 DEF Distinct, SameKey
  <2>3. x \in Nat
    BY <2>1
  <2>4. first = x
    BY <2>2, <2>3
  <2>5. Record(seq, new) = IF Better(seq[x], new.score, new.error, new.matched)
                             THEN [seq EXCEPT ![x] = new] ELSE seq
    BY <1>4, <2>4 DEF Record
  <2>6. seq[x].matched = new.matched /\ seq[x].jump = new.jump
    BY <2>1
  <2>7. CASE Better(seq[x], new.score, new.error, new.matched)
    <3> DEFINE rec == [seq EXCEPT ![x] = new]
    <3>1. W(seq[x]) <= W(new)
      BY <1>2, <2>7 DEF Better
    <3>2. DOMAIN rec = DOMAIN seq /\ rec[x] = new /\ \A i \in DOMAIN seq \ {x} : rec[i] = seq[i]
      OBVIOUS
    <3> HIDE DEF rec
    <3>3. Has(rec, new.matched, new.jump, W(new))
      BY <1>2, <2>1, <3>2 DEF Has
    <3>4. ASSUME NEW m, NEW j, NEW w \in Int, Has(seq, m, j, w) PROVE Has(rec, m, j, w)
      <4>1. PICK i \in DOMAIN seq : seq[i].matched = m /\ seq[i].jump = j /\ W(seq[i]) >= w
        BY <3>4 DEF Has
      <4>2. CASE i = x
        <5>1. W(new) >= w
          <6> HIDE DEF W
          <6> QED
            BY <1>2, <3>1, <4>1, <4>2
        <5>2. QED
          BY <2>6, <3>2, <4>1, <4>2, <5>1 DEF Has
      <4>3. CASE i # x
        BY <3>2, <4>1, <4>3 DEF Has
      <4>4. QED
        BY <4>2, <4>3
    <3>5. QED
      BY <2>5, <2>7, <3>3, <3>4 DEF rec
  <2>8. CASE ~Better(seq[x], new.score, new.error, new.matched)
    <3>1. W(seq[x]) >= W(new)
      BY <1>2, <2>8 DEF Better
    <3>2. Has(seq, new.matched, new.jump, W(new))
      BY <2>1, <2>6, <3>1 DEF Has
    <3>3. QED
      BY <2>5, <2>8, <3>2
  <2>9. QED
    BY <2>7, <2>8
<1>5. QED
  BY <1>3, <1>4

(* What a step of the loop does that records a path. *)
LEMMA Recorded ==
  ASSUME IInv, AtTransition, NEW new, IsExtension(new),
         back' = [back EXCEPT ![Trans.to] = Record(@, new)],
         UNCHANGED << graph, prefix, best >>
  PROVE  /\ \A s \in States(graph) : s <= cur.st => back'[s] = back[s]
         /\ \A s \in States(graph) : \A i \in DOMAIN back'[s] :
              \/ i \in DOMAIN back[s] /\ back'[s][i] = back[s][i]
              \/ s = Trans.to /\ back'[s][i] = new
         /\ \A s \in States(graph) : \A m, j : \A w \in Int :
              Has(back[s], m, j, w) => Has(back'[s], m, j, w)
         /\ Has(back'[Trans.to], new.matched, new.jump, Worth(new.score, new.error))
<1> DEFINE to == Trans.to
           rec == Record(back[to], new)
<1>1. to \in States(graph) /\ to # 0 /\ graph \in Graphs
  BY Positions DEF States, IInv, TypeOK
<1>2. back[to] \in Seq(BackType(graph)) /\ Distinct(back[to]) /\ new \in BackType(graph)
  BY <1>1 DEF IInv, TypeOK, NoRivals, Distinct, SameKey, IsExtension
<1>3. back'[to] = rec /\ \A s \in States(graph) \ {to} : back'[s] = back[s]
  BY <1>1 DEF IInv, TypeOK
<1>4. \A s \in States(graph) : s <= cur.st => back'[s] = back[s]
  BY Extend
<1> HIDE DEF to
<1>5. /\ Has(rec, new.matched, new.jump, Worth(new.score, new.error))
      /\ \A m, j : \A w \in Int : Has(back[to], m, j, w) => Has(rec, m, j, w)
  BY <1>1, <1>2, RecordWorth
<1>6. \A i \in DOMAIN rec : (i \in DOMAIN back[to] /\ rec[i] = back[to][i]) \/ rec[i] = new
  BY <1>2, RecordShape
<1> HIDE DEF rec
<1>7. \A s \in States(graph) : \A i \in DOMAIN back'[s] :
        \/ i \in DOMAIN back[s] /\ back'[s][i] = back[s][i]
        \/ s = to /\ back'[s][i] = new
  BY <1>3, <1>6
<1>8. \A s \in States(graph) : \A m, j : \A w \in Int :
        Has(back[s], m, j, w) => Has(back'[s], m, j, w)
  BY <1>3, <1>5
<1>9. QED
  BY <1>3, <1>4, <1>5, <1>7, <1>8 DEF to

-------------------------------------------------------------------------
(* What holds while a search runs, whatever an earlier one has left.  A     *)
(* completion is exactly what process_match made of the path that is now   *)
(* where it says it came from, and that path is worth something.           *)

Searching == pc = "search"

Hopeful(g, s, b, top) == g.fscore[s] + Worth(b.score, b.error) >= top

MadeBy(b, q, t, E) ==
  /\ b.score = q.score + t.score
  /\ \/ /\ b.jump = 1 /\ b.bjump # 2 /\ b.matched = b.bmatched
        /\ b.error = q.error + (IF b.bjump = 0 THEN 1 ELSE 0)
     \/ \E y \in DOMAIN E :
          /\ b.matched = E[y].pm /\ b.error = q.error + E[y].error
          /\ b.jump = IF b.bjump = 0 THEN 0 ELSE 2

CompletedBy(e, c, q, t, E, g, p) ==
  /\ c.score = q.score + t.score + g.fscore[t.to]
  /\ \E y \in DOMAIN E : E[y].pm = Len(p) /\ E[y].tm = c.tm /\ e = q.error + E[y].error

EndsExact(g, p, sp, pt, bk, bt, st) ==
  \A e \in DOMAIN bt :
    /\ bt[e].from <= st
    /\ Hopeful(g, bt[e].from, PathIn(bk[bt[e].from], bt[e].bmatched, bt[e].bjump), MinScore)
    /\ CompletedBy(e, bt[e], PathIn(bk[bt[e].from], bt[e].bmatched, bt[e].bjump),
         g.trans[bt[e].from][bt[e].tr],
         EditMatches(p, bt[e].bmatched, g.trans[bt[e].from][bt[e].tr].output, pt, sp), g, p)

Exact ==
  Searching => EndsExact(graph, prefix, space, partial, back, best, cur.st)

(* The value of the best completion is that of one of them, and none is    *)
(* worth more.                                                             *)
Topped ==
  Searching =>
    /\ MinScore <= bestScore
    /\ bestScore = MinScore \/ \E e \in DOMAIN best : bestScore = Worth(best[e].score, e)
    /\ \A e \in DOMAIN best : Worth(best[e].score, e) <= bestScore

(* A path has left out no more phrases than it has transitions. *)
Short == \A s \in States(graph) : \A i \in DOMAIN back[s] : back[s][i].njumps <= s

(* Jumping over a phrase matches no token, any other use of it does.        *)
Shape(b) == /\ b.jump = 1 => b.bmatched = b.matched
            /\ b.jump # 1 => b.bmatched < b.matched

Shaped == \A s \in States(graph) \ {0} : \A i \in DOMAIN back[s] : Shape(back[s][i])

Begun == Searching => back[0] # << >>

(* The loop goes over the transitions of no path that is worth nothing.     *)
Worthwhile == AtBack /\ ~StartOfBack => Hopeful(graph, cur.st, Back, MinScore)

(* A position past the last path of a state is the first one there.        *)
Rested == AtState /\ ~AtBack => cur.ti = 1 /\ cur.mi = 0

(* The loop has been at transition k of path i to state s, with match y (0 *)
(* stands for the jump).                                                   *)
Passed(c, s, i, k, y) ==
  \/ s < c.st
  \/ s = c.st /\ i < c.bi
  \/ s = c.st /\ i = c.bi /\ k < c.ti
  \/ s = c.st /\ i = c.bi /\ k = c.ti /\ y < c.mi

(* Nothing that is worth more can come of it now: the path is hopeless, or *)
(* what was made of it is recorded or counted, or something as good is.    *)
Covered(g, p, sp, pt, bk, top, s, i, k, y) ==
  LET b == bk[s][i]
      t == g.trans[s][k]
      E == EditMatches(p, b.matched, t.output, pt, sp)
  IN  \/ g.fscore[s] + Worth(b.score, b.error) < top
      \/ /\ y = 0
         /\ b.jump # 2 => Has(bk[t.to], b.matched, 1,
                              Worth(b.score + t.score, b.error + (IF b.jump = 0 THEN 1 ELSE 0)))
      \/ /\ y # 0 /\ E[y].pm < Len(p)
         /\ Has(bk[t.to], E[y].pm, IF b.jump = 0 THEN 0 ELSE 2,
                Worth(b.score + t.score, b.error + E[y].error))
      \/ /\ y # 0 /\ E[y].pm = Len(p)
         /\ Worth(b.score + t.score + g.fscore[t.to], b.error + E[y].error) <= top

MatchPositions(g, p, sp, pt, bk, s, i, k) ==
  0 .. Len(EditMatches(p, bk[s][i].matched, g.trans[s][k].output, pt, sp))

AllCovered(g, p, sp, pt, bk, top, c) ==
  \A s \in States(g) : \A i \in DOMAIN bk[s] : \A k \in DOMAIN g.trans[s] :
    \A y \in MatchPositions(g, p, sp, pt, bk, s, i, k) :
      Passed(c, s, i, k, y) => Covered(g, p, sp, pt, bk, top, s, i, k, y)

Explored ==
  Searching /\ jumpLenThreshold >= graph.n =>
    AllCovered(graph, prefix, space, partial, back, bestScore, cur)

SInv == Begun /\ Exact /\ Topped /\ Short /\ Shaped /\ Rested /\ Worthwhile /\ Explored

-------------------------------------------------------------------------
(* Recording a continuation of the loop's path keeps the completions exact. *)
LEMMA ExactRecorded ==
  ASSUME IInv, Exact, Searching, AtTransition, NEW new, IsExtension(new),
         back' = [back EXCEPT ![Trans.to] = Record(@, new)],
         UNCHANGED << graph, prefix, space, partial, best >>, cur'.st = cur.st
  PROVE  Exact'
<1>1. \A s \in States(graph) : s <= cur.st => back'[s] = back[s]
  BY Recorded
<1>2. EndsExact(graph, prefix, space, partial, back, best, cur.st)
  BY DEF Exact
<1>3. ASSUME NEW e \in DOMAIN best PROVE back'[best[e].from] = back[best[e].from]
  <2>1. best[e].from \in States(graph) /\ best[e].from <= cur.st
    BY <1>2, <1>3 DEF EndsExact, IInv, BackLinked, LinkOK
  <2>2. QED
    BY <1>1, <2>1
<1>4. EndsExact(graph, prefix, space, partial, back', best, cur.st)
  BY <1>2, <1>3 DEF EndsExact
<1>5. QED
  BY <1>4 DEF Exact

LEMMA ShapedRecorded ==
  ASSUME IInv, Shaped, AtTransition, NEW new, IsExtension(new), Shape(new),
         back' = [back EXCEPT ![Trans.to] = Record(@, new)],
         UNCHANGED << graph, prefix, best >>
  PROVE  Shaped'
<1>1. \A s \in States(graph) : \A i \in DOMAIN back'[s] :
        \/ i \in DOMAIN back[s] /\ back'[s][i] = back[s][i]
        \/ s = Trans.to /\ back'[s][i] = new
  BY Recorded
<1>2. QED
  BY <1>1 DEF Shaped

(* A path whose transitions the loop goes over is worth something.          *)
LEMMA GoesOver ==
  ASSUME IInv, Topped, Worthwhile, AtTransition, ~(StartOfBack /\ Hopeless)
  PROVE  Hopeful(graph, cur.st, Back, MinScore)
<1>1. CASE StartOfBack
  <2> DEFINE W == graph.fscore[cur.st] + Worth(Back.score, Back.error)
  <2>1. ~(W < bestScore)
    BY <1>1 DEF Hopeless
  <2>2. W \in Int
    <3> DEFINE x == Back.score
               y == Back.error
    <3>1. x \in Int /\ y \in Int
      BY Positions DEF BackType
    <3> HIDE DEF x, y
    <3>2. Worth(x, y) \in Int
      BY <3>1, WorthAdds
    <3>3. graph.fscore[cur.st] \in Int
      BY Positions, GraphsAssumption DEF GraphType, IInv, TypeOK
    <3>4. QED
      BY <3>2, <3>3 DEF x, y
  <2>3. MinScore <= bestScore /\ bestScore \in Int /\ MinScore \in Int
    BY NumbersAssumption DEF Topped, Searching, AtTransition, AtBack, AtState, IInv, TypeOK
  <2> HIDE DEF W
  <2>4. W >= MinScore
    BY <2>1, <2>2, <2>3
  <2>5. QED
    BY <2>4 DEF Hopeful, W
<1>2. CASE ~StartOfBack
  BY <1>2 DEF Worthwhile, AtTransition
<1>3. QED
  BY <1>1, <1>2

LEMMA WorthwhileStep ==
  ASSUME IInv, Topped, Worthwhile, AtTransition, ~(StartOfBack /\ Hopeless),
         UNCHANGED graph, back'[cur.st] = back[cur.st], cur'.st = cur.st, cur'.bi = cur.bi
  PROVE  Worthwhile'
<1>1. Hopeful(graph, cur.st, Back, MinScore)
  BY GoesOver
<1>2. Back' = Back
  BY DEF Back
<1>3. QED
  BY <1>1, <1>2 DEF Worthwhile

(* What is covered stays covered, when the paths the loop has come to stay *)
(* and what is recorded is only ever replaced by something as good.        *)
LEMMA CoveredStays ==
  ASSUME NEW g \in Graphs, NEW p, NEW sp, NEW pt, NEW bk, NEW bk2, NEW top \in Int,
         NEW top2 \in Int, top <= top2,
         NEW s \in States(g), NEW i, NEW k \in DOMAIN g.trans[s], NEW y,
         bk2[s][i] = bk[s][i], bk[s][i] \in BackType(g),
         y # 0 => EditMatches(p, bk[s][i].matched, g.trans[s][k].output, pt, sp)[y].error \in Nat,
         \A u \in States(g) : \A m, j : \A w \in Int : Has(bk[u], m, j, w) => Has(bk2[u], m, j, w),
         Covered(g, p, sp, pt, bk, top, s, i, k, y)
  PROVE  Covered(g, p, sp, pt, bk2, top2, s, i, k, y)
<1> DEFINE b == bk[s][i]
           t == g.trans[s][k]
           E == EditMatches(p, b.matched, t.output, pt, sp)
           w0 == Worth(b.score + t.score, b.error + (IF b.jump = 0 THEN 1 ELSE 0))
           w1 == Worth(b.score + t.score, b.error + E[y].error)
           w2 == Worth(b.score + t.score + g.fscore[t.to], b.error + E[y].error)
           w3 == Worth(b.score, b.error)
<1>1. /\ t.to \in States(g) /\ t.score \in Int /\ g.fscore[t.to] \in Int /\ g.fscore[s] \in Int
  BY TransFacts
<1>2. b.score \in Int /\ b.error \in Nat
  BY DEF BackType
<1> DEFINE a == b.score + t.score
           d == b.error + (IF b.jump = 0 THEN 1 ELSE 0)
           f == b.error + E[y].error
           h == b.score + t.score + g.fscore[t.to]
<1>3. w0 \in Int /\ w3 \in Int
  <2>1. a \in Int /\ d \in Int
    <3> HIDE DEF t
    <3> QED
      BY <1>1, <1>2
  <2>2. w0 = Worth(a, d)
    OBVIOUS
  <2> HIDE DEF a, d
  <2>3. w0 \in Int
    BY <2>1, <2>2, WorthAdds
  <2> HIDE DEF b
  <2>4. w3 \in Int
    <3>1. b.score \in Int /\ b.error \in Int
      BY <1>2
    <3>2. QED
      BY <3>1, WorthAdds
  <2>5. QED
    BY <2>3, <2>4
<1>4. y # 0 => w1 \in Int /\ w2 \in Int
  <2> SUFFICES ASSUME y # 0 PROVE w1 \in Int /\ w2 \in Int
    OBVIOUS
  <2>1. a \in Int /\ h \in Int /\ f \in Int
    <3>1. E[y].error \in Nat
      OBVIOUS
    <3> HIDE DEF t, E
    <3> QED
      BY <1>1, <1>2, <3>1
  <2>2. w1 = Worth(a, f) /\ w2 = Worth(h, f)
    OBVIOUS
  <2> HIDE DEF a, f, h
  <2>3. QED
    BY <2>1, <2>2, WorthAdds
<1>5. \/ g.fscore[s] + w3 < top
      \/ y = 0 /\ (b.jump # 2 => Has(bk[t.to], b.matched, 1, w0))
      \/ y # 0 /\ E[y].pm < Len(p) /\ Has(bk[t.to], E[y].pm, IF b.jump = 0 THEN 0 ELSE 2, w1)
      \/ y # 0 /\ E[y].pm = Len(p) /\ w2 <= top
  BY DEF Covered
<1>6. \/ g.fscore[s] + w3 < top2
      \/ y = 0 /\ (b.jump # 2 => Has(bk2[t.to], b.matched, 1, w0))
      \/ y # 0 /\ E[y].pm < Len(p) /\ Has(bk2[t.to], E[y].pm, IF b.jump = 0 THEN 0 ELSE 2, w1)
      \/ y # 0 /\ E[y].pm = Len(p) /\ w2 <= top2
  <2> HIDE DEF w0, w1, w2, w3, t, E, b
  <2>1. CASE g.fscore[s] + w3 < top
    BY <1>1, <1>3, <2>1
  <2>2. CASE y = 0 /\ (b.jump # 2 => Has(bk[t.to], b.matched, 1, w0))
    BY <1>1, <1>3, <2>2
  <2>3. CASE y # 0 /\ E[y].pm < Len(p) /\ Has(bk[t.to], E[y].pm, IF b.jump = 0 THEN 0 ELSE 2, w1)
    BY <1>1, <1>4, <2>3
  <2>4. CASE y # 0 /\ E[y].pm = Len(p) /\ w2 <= top
    BY <1>4, <2>4
  <2>5. QED
    BY <1>5, <2>1, <2>2, <2>3, <2>4
<1> DEFINE C(c) ==
             LET F == EditMatches(p, c.matched, t.output, pt, sp)
             IN  \/ g.fscore[s] + Worth(c.score, c.error) < top2
                 \/ /\ y = 0
                    /\ c.jump # 2 => Has(bk2[t.to], c.matched, 1,
                                         Worth(c.score + t.score, c.error + (IF c.jump = 0 THEN 1 ELSE 0)))
                 \/ /\ y # 0 /\ F[y].pm < Len(p)
                    /\ Has(bk2[t.to], F[y].pm, IF c.jump = 0 THEN 0 ELSE 2,
                           Worth(c.score + t.score, c.error + F[y].error))
                 \/ /\ y # 0 /\ F[y].pm = Len(p)
                    /\ Worth(c.score + t.score + g.fscore[t.to], c.error + F[y].error) <= top2
<1>7. C(bk[s][i])
  BY <1>6, Zenon
<1>8. C(bk2[s][i])
  <2> HIDE DEF C
  <2> QED
    BY <1>7
<1>9. QED
  BY <1>8, Zenon DEF Covered

(* A step of the loop keeps Explored when what it passes is covered. *)
LEMMA ExploredStep ==
  ASSUME IInv, Explored, Searching, jumpLenThreshold >= graph.n,
         UNCHANGED << graph, prefix, space, partial >>,
         \A s \in States(graph) : s <= cur.st => back'[s] = back[s],
         \A s \in States(graph) : \A m, j : \A w \in Int :
           Has(back[s], m, j, w) => Has(back'[s], m, j, w),
         back' \in [States(graph) -> Seq(BackType(graph))],
         bestScore' \in Int, bestScore <= bestScore',
         \A s \in States(graph) : \A i, k \in Nat \ {0} : \A y \in Nat :
           Passed(cur', s, i, k, y) => s <= cur.st,
         \A s \in States(graph) : \A i \in DOMAIN back[s] : \A k \in DOMAIN graph.trans[s] :
           \A y \in MatchPositions(graph, prefix, space, partial, back, s, i, k) :
             Passed(cur', s, i, k, y)
               => \/ Passed(cur, s, i, k, y)
                  \/ Covered(graph, prefix, space, partial, back', bestScore', s, i, k, y)
  PROVE  AllCovered(graph, prefix, space, partial, back', bestScore', cur')
<1> SUFFICES ASSUME NEW s \in States(graph), NEW i \in DOMAIN back'[s],
                    NEW k \in DOMAIN graph.trans[s],
                    NEW y \in MatchPositions(graph, prefix, space, partial, back', s, i, k),
                    Passed(cur', s, i, k, y)
             PROVE  Covered(graph, prefix, space, partial, back', bestScore', s, i, k, y)
  BY DEF AllCovered
<1> DEFINE E == EditMatches(prefix, back'[s][i].matched, graph.trans[s][k].output, partial, space)
<1>1. graph \in Graphs /\ back \in [States(graph) -> Seq(BackType(graph))]
      /\ bestScore \in Int /\ graph.trans[s] \in Seq(TransitionType)
  BY GraphsAssumption DEF IInv, TypeOK, GraphType
<1>2. y \in Nat /\ k \in Nat \ {0}
  BY <1>1 DEF MatchPositions
<1>3. s <= cur.st
  <2>1. i \in Nat \ {0}
    OBVIOUS
  <2>2. QED
    BY <1>2, <2>1
<1>4. back'[s] = back[s] /\ i \in DOMAIN back[s]
  BY <1>3
<1>5. back[s][i] \in BackType(graph)
  BY <1>1, <1>4
<1>6. y \in MatchPositions(graph, prefix, space, partial, back, s, i, k)
  BY <1>4 DEF MatchPositions
<1>7. CASE Covered(graph, prefix, space, partial, back', bestScore', s, i, k, y)
  BY <1>7
<1>8. CASE Passed(cur, s, i, k, y)
  <2>1. Covered(graph, prefix, space, partial, back, bestScore, s, i, k, y)
    BY <1>4, <1>6, <1>8 DEF Explored, AllCovered
  <2>2. y # 0 => EditMatches(prefix, back[s][i].matched, graph.trans[s][k].output,
                             partial, space)[y].error \in Nat
    <3> SUFFICES ASSUME y # 0
                 PROVE EditMatches(prefix, back[s][i].matched, graph.trans[s][k].output,
                                   partial, space)[y].error \in Nat
      OBVIOUS
    <3>1. PICK r \in Requests : r.tokens = prefix /\ r.space = space
      BY DEF IInv, TypeOK, Searching
    <3>2. back[s][i].matched \in 0 .. Len(prefix) - 1
      <4>1. back[s][i].matched < Len(prefix) /\ back[s][i].matched \in Nat
        BY <1>4, <1>5 DEF IInv, Open, BackType
      <4>2. Len(prefix) \in Nat
        BY DEF IInv, TypeOK
      <4>3. QED
        BY <4>1, <4>2
    <3> DEFINE m == back[s][i].matched
               F == EditMatches(prefix, m, graph.trans[s][k].output, partial, space)
    <3>3. F \in Seq(MatchType(prefix, m, graph.trans[s][k].output))
      BY <1>1, <3>1, <3>2, MatchesAssumption DEF IInv, TypeOK
    <3>4. y \in DOMAIN F
      <4>1. y \in 0 .. Len(F)
        BY <1>6 DEF MatchPositions
      <4> DEFINE M == MatchType(prefix, m, graph.trans[s][k].output)
      <4> HIDE DEF F, M
      <4>2. QED
        BY <3>3, <4>1 DEF M
    <3>5. partial \in SUBSET Words
      BY DEF IInv, TypeOK
    <3>6. QED
      BY <1>1, <3>1, <3>2, <3>4, <3>5, MatchFacts
  <2>3. QED
    BY <1>1, <1>4, <1>5, <2>1, <2>2, CoveredStays
<1>9. QED
  BY <1>4, <1>6, <1>7, <1>8

(* The loop positions are numbers. *)
LEMMA CurType ==
  ASSUME IInv
  PROVE  /\ cur \in [st : 0 .. graph.n, bi : Nat \ {0}, ti : Nat \ {0}, mi : Nat]
         /\ cur.st \in Nat /\ cur.bi \in Nat \ {0} /\ cur.ti \in Nat \ {0} /\ cur.mi \in Nat
         /\ graph.n \in Nat /\ graph \in Graphs
         /\ back \in [States(graph) -> Seq(BackType(graph))]
         /\ \A s \in States(graph) : \A i \in DOMAIN back[s] : i \in Nat \ {0}
         /\ \A s \in States(graph) : \A k \in DOMAIN graph.trans[s] : k \in Nat \ {0}
         /\ \A s \in States(graph) : s \in Nat
         /\ bestScore \in Int
<1>1. /\ cur \in [st : 0 .. graph.n, bi : Nat \ {0}, ti : Nat \ {0}, mi : Nat]
      /\ graph.n \in Nat /\ graph \in Graphs
      /\ back \in [States(graph) -> Seq(BackType(graph))] /\ bestScore \in Int
  BY Cleared DEF IInv, TypeOK
<1>2. graph.trans \in [States(graph) -> Seq(TransitionType)]
  BY <1>1, GraphsAssumption DEF GraphType
<1>3. cur.st \in 0 .. graph.n /\ cur.bi \in Nat \ {0} /\ cur.ti \in Nat \ {0} /\ cur.mi \in Nat
  BY <1>1
<1>4. \A s \in States(graph) : s \in Nat
  BY <1>1 DEF States
<1>5. \A s \in States(graph) : \A i \in DOMAIN back[s] : i \in Nat \ {0}
  BY <1>1
<1>6. \A s \in States(graph) : \A k \in DOMAIN graph.trans[s] : k \in Nat \ {0}
  <2> SUFFICES ASSUME NEW s \in States(graph), NEW k \in DOMAIN graph.trans[s]
               PROVE  k \in Nat \ {0}
    OBVIOUS
  <2>1. graph.trans[s] \in Seq(TransitionType)
    BY <1>2
  <2>2. QED
    BY <2>1
<1>7. QED
  BY <1>1, <1>3, <1>4, <1>5, <1>6

(* What a step passes that only moves on from one match to the next. *)
LEMMA PassesMatch ==
  ASSUME IInv, AtTransition, cur' = [cur EXCEPT !.mi = @ + 1]
  PROVE  /\ cur'.st = cur.st /\ cur'.bi = cur.bi /\ cur'.ti = cur.ti /\ cur'.mi = cur.mi + 1
         /\ \A s, i, k : \A y \in Nat :
              Passed(cur', s, i, k, y)
                => \/ Passed(cur, s, i, k, y)
                   \/ s = cur.st /\ i = cur.bi /\ k = cur.ti /\ y = cur.mi
         /\ \A s \in States(graph) : \A i, k, y : Passed(cur', s, i, k, y) => s <= cur.st
<1>1. cur'.st = cur.st /\ cur'.bi = cur.bi /\ cur'.ti = cur.ti /\ cur'.mi = cur.mi + 1
  BY CurType
<1>2. \A y \in Nat : y < cur.mi + 1 => y < cur.mi \/ y = cur.mi
  BY CurType
<1>3. QED
  BY <1>1, <1>2, CurType DEF Passed

LEMMA RestedStep ==
  ASSUME IInv, AtBack, UNCHANGED << graph, pc >>, back'[cur.st] = back[cur.st],
         cur'.st = cur.st, cur'.bi = cur.bi
  PROVE  Rested'
BY DEF Rested, AtState, AtBack

(* Recording a path that continues the loop's. *)
LEMMA ShortRecorded ==
  ASSUME IInv, Short, AtTransition, NEW error, NEW matched, NEW jump,
         IsExtension(Continue(error, matched, jump)),
         back' = [back EXCEPT ![Trans.to] = Record(@, Continue(error, matched, jump))],
         UNCHANGED << graph, prefix, best >>
  PROVE  Short'
<1> DEFINE new == Continue(error, matched, jump)
<1>1. \A s \in States(graph) : \A i \in DOMAIN back'[s] :
        \/ i \in DOMAIN back[s] /\ back'[s][i] = back[s][i]
        \/ s = Trans.to /\ back'[s][i] = new
  <2>1. back' = [back EXCEPT ![Trans.to] = Record(@, new)] /\ IsExtension(new)
    OBVIOUS
  <2> HIDE DEF new
  <2>2. QED
    BY <2>1, Recorded
<1>2. new.njumps <= Trans.to
  <2>1. Back.njumps <= cur.st /\ Back.njumps \in Nat
    BY Positions DEF Short, Back, BackType
  <2>2. Trans.to > cur.st /\ Trans.to \in Int /\ cur.st \in Nat
    BY Positions
  <2>3. new.njumps = Back.njumps + 1
    BY DEF Continue
  <2> HIDE DEF new
  <2>4. QED
    BY <2>1, <2>2, <2>3
<1> HIDE DEF new
<1>3. QED
  BY <1>1, <1>2 DEF Short

(* When all phrases on the way may be jumped over, this one may, unless a   *)
(* phrase has been used since.                                             *)
LEMMA JumpsAllowed ==
  ASSUME IInv, Short, AtTransition, jumpLenThreshold >= graph.n, Back.jump # 2
  PROVE  JumpAllowed
<1>1. cur.st \in States(graph) /\ cur.st \in Nat /\ Back \in BackType(graph)
      /\ cur.bi \in DOMAIN back[cur.st]
  BY Positions
<1>2. Back.njumps <= cur.st /\ cur.st < graph.n
  BY <1>1 DEF Short, Back, AtTransition, AtBack, AtState
<1>3. Back.njumps \in Nat /\ jumpLenThreshold \in Int /\ graph.n \in Nat /\ Back.jump \in 0 .. 2
  BY <1>1, CurType, NumbersAssumption DEF BackType, IInv, TypeOK
<1>4. Back.njumps < jumpLenThreshold
  BY <1>1, <1>2, <1>3
<1>5. QED
  BY <1>3, <1>4 DEF JumpAllowed

LEMMA JumpSearch ==
  ASSUME IInv, Fresh, SInv, process_jump
  PROVE  SInv'
<1> DEFINE error == IF Back.jump = 0 THEN 1 ELSE 0
           new == Continue(error, Back.matched, 1)
<1>1. /\ AtTransition /\ AtBack /\ pc = "search" /\ cur.mi = 0
      /\ UNCHANGED << jumpLenThreshold, graph, prefix, space, partial, pc, best, bestScore >>
  BY DEF process_jump, searchVars, AtTransition, AtBack, AtState
<1>2. cur' = [cur EXCEPT !.mi = @ + 1]
  BY <1>1 DEF process_jump
<1>3. /\ cur.st \in States(graph) /\ cur.st \in Nat /\ Trans.to \in States(graph)
      /\ Trans.to > cur.st /\ cur.bi \in DOMAIN back[cur.st] /\ 0 \in States(graph)
      /\ Back \in BackType(graph) /\ error \in Nat
  BY <1>1, Positions DEF States
<1>4. /\ cur'.st = cur.st /\ cur'.bi = cur.bi /\ cur'.ti = cur.ti /\ cur'.mi = cur.mi + 1
      /\ \A s, i, k : \A y \in Nat :
           Passed(cur', s, i, k, y)
             => \/ Passed(cur, s, i, k, y)
                \/ s = cur.st /\ i = cur.bi /\ k = cur.ti /\ y = cur.mi
      /\ \A s \in States(graph) : \A i, k, y : Passed(cur', s, i, k, y) => s <= cur.st
  BY <1>1, <1>2, PassesMatch
<1>5. IInv' /\ \A s \in States(graph) : s <= cur.st => back'[s] = back[s]
  BY JumpStep
<1>6. JumpAllowed => IsExtension(new) /\ back' = [back EXCEPT ![Trans.to] = Record(@, new)]
  <2>1. IsExtension(new)
    BY <1>1, <1>3, ContinueIsExtension, Positions, SMTT(30)
  <2>2. QED
    BY <2>1 DEF process_jump
<1>7. ~JumpAllowed => back' = back
  BY DEF process_jump
<1>8. Exact'
  <2>1. CASE JumpAllowed
    <3> HIDE DEF new
    <3> QED
      BY <1>1, <1>4, <1>6, <2>1, ExactRecorded DEF SInv, Exact, Searching
  <2>2. CASE ~JumpAllowed
    BY <1>1, <1>4, <1>7, <2>2 DEF SInv, Exact, Searching
  <2>3. QED
    BY <2>1, <2>2
<1>9. Topped' /\ Worthwhile'
  <2>1. Topped'
    BY <1>1 DEF SInv, Topped, Searching
  <2>2. Worthwhile'
    BY <1>1, <1>3, <1>4, <1>5, WorthwhileStep DEF SInv, process_jump
  <2>3. QED
    BY <2>1, <2>2
<1>10. Short' /\ Shaped'
  <2>1. CASE JumpAllowed
    <3>1. Short'
      BY <1>1, <1>6, <2>1, ShortRecorded DEF SInv
    <3>2. Shape(new)
      BY DEF Continue, Shape
    <3> HIDE DEF new
    <3>3. QED
      BY <1>1, <1>6, <2>1, <3>1, <3>2, ShapedRecorded DEF SInv
  <2>2. CASE ~JumpAllowed
    BY <1>1, <1>7, <2>2 DEF SInv, Short, Shaped
  <2>3. QED
    BY <2>1, <2>2
<1>11. Rested'
  BY <1>1, <1>3, <1>4, <1>5, RestedStep
<1>12. Explored'
  <2> SUFFICES ASSUME Searching', jumpLenThreshold >= graph.n PROVE Explored'
    BY <1>1 DEF Explored
  <2>1. Searching
    BY <1>1, <1>3, <1>5 DEF Searching
  <2>2. \A s \in States(graph) : \A m, j : \A w \in Int :
          Has(back[s], m, j, w) => Has(back'[s], m, j, w)
    <3>1. CASE JumpAllowed
      <4> HIDE DEF new
      <4> QED
        BY <1>1, <1>6, <3>1, Recorded
    <3>2. CASE ~JumpAllowed
      BY <1>7, <3>2
    <3>3. QED
      BY <3>1, <3>2
  <2>3. Back.jump # 2 => Has(back'[Trans.to], Back.matched, 1,
                             Worth(Back.score + Trans.score, Back.error + error))
    <3>1. ASSUME Back.jump # 2 PROVE JumpAllowed
      BY <1>1, <3>1, JumpsAllowed DEF SInv
    <3>2. JumpAllowed => Has(back'[Trans.to], new.matched, new.jump, Worth(new.score, new.error))
      <4> HIDE DEF new
      <4> QED
        BY <1>1, <1>6, Recorded
    <3>3. new.matched = Back.matched /\ new.jump = 1 /\ new.score = Back.score + Trans.score
          /\ new.error = Back.error + error
      BY DEF Continue
    <3>4. QED
      BY <3>1, <3>2, <3>3
  <2>4. Covered(graph, prefix, space, partial, back', bestScore', cur.st, cur.bi, cur.ti, 0)
    <3>1. back'[cur.st] = back[cur.st]
      BY <1>3, <1>5
    <3>2. QED
      BY <2>3, <3>1 DEF Covered, Back, Trans
  <2>5. /\ bestScore' \in Int /\ bestScore <= bestScore'
        /\ back' \in [States(graph) -> Seq(BackType(graph))]
    BY <1>1, <1>5, CurType DEF IInv, TypeOK
  <2>6. \A s \in States(graph) : \A i \in DOMAIN back[s] : \A k \in DOMAIN graph.trans[s] :
           \A y \in MatchPositions(graph, prefix, space, partial, back, s, i, k) :
             Passed(cur', s, i, k, y)
               => \/ Passed(cur, s, i, k, y)
                  \/ Covered(graph, prefix, space, partial, back', bestScore', s, i, k, y)
    <3>1. \A s, i, k : MatchPositions(graph, prefix, space, partial, back, s, i, k) \subseteq Nat
      BY DEF MatchPositions
    <3>2. QED
      BY <1>1, <1>4, <2>4, <3>1
  <2>7. AllCovered(graph, prefix, space, partial, back', bestScore', cur')
    BY <1>1, <1>4, <1>5, <2>1, <2>2, <2>5, <2>6, ExploredStep DEF SInv
  <2>8. QED
    BY <1>1, <2>7 DEF Explored
<1>13. Begun'
  BY <1>1, <1>3, <1>5 DEF SInv, Begun, Searching
<1>14. QED
  BY <1>13, <1>8, <1>9, <1>10, <1>11, <1>12 DEF SInv

LEMMA MatchFound ==
  ASSUME IInv, process_match
  PROVE  /\ AtTransition /\ cur.mi \in DOMAIN Matches /\ cur.mi # 0
         /\ MatchOn(Matches[cur.mi]) \/ Complete(Matches[cur.mi])
         /\ Matches[cur.mi].error \in Nat
         /\ Matches[cur.mi].pm \in Back.matched + 1 .. Len(prefix)
         /\ Matches[cur.mi].tm \in Nat
<1>1. AtTransition /\ cur.mi \in DOMAIN Matches /\ cur.mi # 0
  BY Positions, CurType DEF process_match
<1>2. MatchOn(Matches[cur.mi]) \/ Complete(Matches[cur.mi])
  BY DEF process_match
<1> DEFINE M == MatchType(prefix, Back.matched, Trans.output)
           ms == Matches
           x == cur.mi
<1>3. ms \in Seq(M) /\ x \in DOMAIN ms
  BY <1>1, Positions
<1>4. ms[x] \in M
  <2> HIDE DEF M, ms, x
  <2> QED
    BY <1>3
<1>5. 0 .. Len(Trans.output) \subseteq Nat
  OBVIOUS
<1>6. QED
  BY <1>1, <1>2, <1>4, <1>5 DEF MatchType

(* The step that records a match which leaves something of the prefix. *)
LEMMA MatchOnSearch ==
  ASSUME IInv, Fresh, SInv, process_match, MatchOn(Matches[cur.mi])
  PROVE  SInv'
<1> DEFINE x == Matches[cur.mi]
           jump == IF Back.jump = 0 THEN 0 ELSE 2
           new == Continue(x.error, x.pm, jump)
<1>1. /\ AtTransition /\ AtBack /\ pc = "search" /\ cur.mi \in DOMAIN Matches /\ cur.mi # 0
      /\ UNCHANGED << jumpLenThreshold, graph, prefix, space, partial, pc, best, bestScore >>
      /\ cur' = [cur EXCEPT !.mi = @ + 1]
      /\ x.error \in Nat /\ x.pm \in Back.matched .. Len(prefix) - 1 /\ x.pm < Len(prefix)
  <2>1. /\ AtTransition /\ cur.mi \in DOMAIN Matches /\ cur.mi # 0 /\ x.error \in Nat
        /\ x.pm \in Back.matched + 1 .. Len(prefix)
    BY MatchFound
  <2>2. x.pm < Len(prefix)
    BY DEF MatchOn
  <2>3. Back.matched \in Nat /\ Len(prefix) \in Nat
    BY <2>1, Positions DEF BackType
  <2>4. x.pm \in Back.matched .. Len(prefix) - 1
    <3> HIDE DEF x
    <3> QED
      BY <2>1, <2>2, <2>3
  <2>5. QED
    BY <2>1, <2>2, <2>4 DEF process_match, searchVars, AtTransition, AtBack, AtState, MatchOn
<1>2. /\ cur.st \in States(graph) /\ cur.st \in Nat /\ Trans.to \in States(graph)
      /\ Trans.to > cur.st /\ cur.bi \in DOMAIN back[cur.st] /\ 0 \in States(graph)
      /\ Back \in BackType(graph)
  BY <1>1, Positions DEF States
<1>3. /\ cur'.st = cur.st /\ cur'.bi = cur.bi /\ cur'.ti = cur.ti /\ cur'.mi = cur.mi + 1
      /\ \A s, i, k : \A y \in Nat :
           Passed(cur', s, i, k, y)
             => \/ Passed(cur, s, i, k, y)
                \/ s = cur.st /\ i = cur.bi /\ k = cur.ti /\ y = cur.mi
      /\ \A s \in States(graph) : \A i, k, y : Passed(cur', s, i, k, y) => s <= cur.st
  BY <1>1, PassesMatch
<1>4. IInv' /\ \A s \in States(graph) : s <= cur.st => back'[s] = back[s]
  BY MatchStep
<1>5. IsExtension(new) /\ back' = [back EXCEPT ![Trans.to] = Record(@, new)]
  <2>1. jump \in 0 .. 2
    OBVIOUS
  <2>2. IsExtension(new)
    <3> HIDE DEF x, jump
    <3> QED
      BY <1>1, <2>1, ContinueIsExtension
  <2>3. QED
    BY <2>2 DEF MatchOn
<1>6. Searching
  BY <1>1 DEF Searching
<1>7. Exact'
  <2> HIDE DEF new
  <2> QED
    BY <1>1, <1>3, <1>5, <1>6, ExactRecorded DEF SInv
<1>8. Topped' /\ Worthwhile'
  <2>1. Topped'
    BY <1>1, <1>6 DEF SInv, Topped
  <2>2. Worthwhile'
    BY <1>1, <1>2, <1>3, <1>4, WorthwhileStep DEF SInv, StartOfBack
  <2>3. QED
    BY <2>1, <2>2
<1>9. Short' /\ Shaped'
  <2>1. Short'
    BY <1>1, <1>5, ShortRecorded DEF SInv
  <2>2. new.matched = x.pm /\ new.bmatched = Back.matched /\ new.jump = jump /\ jump # 1
    BY DEF Continue
  <2>3. Back.matched < x.pm
    <3>1. x.pm \in Back.matched + 1 .. Len(prefix) /\ Back.matched \in Nat /\ Len(prefix) \in Nat
      BY <1>1, MatchFound, Positions DEF BackType
    <3> HIDE DEF x
    <3>2. QED
      BY <3>1
  <2> HIDE DEF new, jump
  <2>4. Shape(new)
    BY <2>2, <2>3 DEF Shape
  <2>5. QED
    BY <1>1, <1>5, <2>1, <2>4, ShapedRecorded DEF SInv
<1>10. Rested'
  BY <1>1, <1>2, <1>3, <1>4, RestedStep
<1>11. Explored'
  <2> SUFFICES ASSUME Searching', jumpLenThreshold >= graph.n PROVE Explored'
    BY <1>1 DEF Explored
  <2>1. \A s \in States(graph) : \A m, j : \A w \in Int :
          Has(back[s], m, j, w) => Has(back'[s], m, j, w)
    <3> HIDE DEF new
    <3> QED
      BY <1>1, <1>5, Recorded
  <2>2. Has(back'[Trans.to], x.pm, jump, Worth(Back.score + Trans.score, Back.error + x.error))
    <3>1. Has(back'[Trans.to], new.matched, new.jump, Worth(new.score, new.error))
      <4> HIDE DEF new
      <4> QED
        BY <1>1, <1>5, Recorded, Zenon
    <3>2. new.matched = x.pm /\ new.jump = jump /\ new.score = Back.score + Trans.score
          /\ new.error = Back.error + x.error
      BY DEF Continue
    <3> HIDE DEF new
    <3>3. QED
      BY <3>1, <3>2
  <2>3. Covered(graph, prefix, space, partial, back', bestScore', cur.st, cur.bi, cur.ti, cur.mi)
    <3>1. back'[cur.st] = back[cur.st]
      BY <1>2, <1>4
    <3>2. QED
      BY <1>1, <2>2, <3>1, Zenon DEF Covered, Back, Trans, Matches
  <2>4. /\ bestScore' \in Int /\ bestScore <= bestScore'
        /\ back' \in [States(graph) -> Seq(BackType(graph))]
    BY <1>1, <1>4, CurType DEF IInv, TypeOK
  <2>5. \A s \in States(graph) : \A i \in DOMAIN back[s] : \A k \in DOMAIN graph.trans[s] :
           \A y \in MatchPositions(graph, prefix, space, partial, back, s, i, k) :
             Passed(cur', s, i, k, y)
               => \/ Passed(cur, s, i, k, y)
                  \/ Covered(graph, prefix, space, partial, back', bestScore', s, i, k, y)
    <3>1. \A s, i, k : MatchPositions(graph, prefix, space, partial, back, s, i, k) \subseteq Nat
      BY DEF MatchPositions
    <3>2. QED
      BY <1>3, <2>3, <3>1
  <2>6. AllCovered(graph, prefix, space, partial, back', bestScore', cur')
    BY <1>1, <1>3, <1>4, <1>6, <2>1, <2>4, <2>5, ExploredStep DEF SInv
  <2>7. QED
    BY <1>1, <2>6 DEF Explored
<1>12. Begun'
  BY <1>1, <1>2, <1>4 DEF SInv, Begun, Searching
<1>13. QED
  BY <1>12, <1>7, <1>8, <1>9, <1>10, <1>11 DEF SInv

(* The step that finds a completion. *)
LEMMA CompleteSearch ==
  ASSUME IInv, Fresh, SInv, process_match, Complete(Matches[cur.mi])
  PROVE  SInv'
<1> DEFINE x == Matches[cur.mi]
           error == Back.error + x.error
           score == Back.score + Trans.score + graph.fscore[Trans.to]
           new == [score |-> score, from |-> cur.st, tr |-> cur.ti, tm |-> x.tm,
                   bmatched |-> Back.matched, bjump |-> Back.jump]
           w == Worth(score, error)
<1>1. /\ AtTransition /\ AtBack /\ pc = "search" /\ cur.mi \in DOMAIN Matches /\ cur.mi # 0
      /\ UNCHANGED << jumpLenThreshold, graph, prefix, space, partial, pc, back >>
      /\ cur' = [cur EXCEPT !.mi = @ + 1]
      /\ x.error \in Nat /\ x.pm = Len(prefix)
  <2>1. AtTransition /\ cur.mi \in DOMAIN Matches /\ cur.mi # 0 /\ x.error \in Nat
    BY MatchFound
  <2>2. QED
    BY <2>1 DEF process_match, searchVars, AtTransition, AtBack, AtState, Complete
<1>2. \/ /\ error \in DOMAIN best /\ score <= best[error].score
         /\ UNCHANGED << best, bestScore >>
      \/ /\ error \notin DOMAIN best \/ score > best[error].score
         /\ best' = [e \in DOMAIN best \cup {error} |-> IF e = error THEN new ELSE best[e]]
         /\ bestScore' = Max({bestScore, w})
  <2>1. CASE error \notin DOMAIN best \/ score > best[error].score
    BY <2>1 DEF Complete
  <2>2. CASE ~(error \notin DOMAIN best \/ score > best[error].score)
    <3>1. score \in Int /\ best[error].score \in Int
      <4>1. Back.score \in Int /\ Trans.score \in Int /\ graph.fscore[Trans.to] \in Int
        BY <1>1, Positions DEF BackType, TransitionType
      <4>2. best[error] \in BestType(graph)
        BY <2>2 DEF IInv, TypeOK
      <4>3. best[error].score \in Int
        BY <4>2 DEF BestType
      <4>4. QED
        BY <4>1, <4>3
    <3>2. UNCHANGED << best, bestScore >>
      BY <2>2 DEF Complete
    <3> HIDE DEF score, error
    <3>3. QED
      BY <2>2, <3>1, <3>2
  <2>3. QED
    BY <2>1, <2>2
<1>3. /\ cur.st \in States(graph) /\ cur.st \in Nat /\ 0 \in States(graph)
      /\ cur.bi \in DOMAIN back[cur.st] /\ Back \in BackType(graph)
  BY <1>1, Positions DEF States
<1>4. /\ cur'.st = cur.st /\ cur'.bi = cur.bi /\ cur'.ti = cur.ti /\ cur'.mi = cur.mi + 1
      /\ \A s, i, k : \A y \in Nat :
           Passed(cur', s, i, k, y)
             => \/ Passed(cur, s, i, k, y)
                \/ s = cur.st /\ i = cur.bi /\ k = cur.ti /\ y = cur.mi
      /\ \A s \in States(graph) : \A i, k, y : Passed(cur', s, i, k, y) => s <= cur.st
  BY <1>1, PassesMatch
<1>5. IInv'
  BY MatchStep
<1>6. Searching' <=> Searching
  BY <1>1 DEF Searching
<1>7. /\ score \in Int /\ error \in Nat /\ w \in Int /\ bestScore \in Int /\ bestScore' \in Int
      /\ \A e \in DOMAIN best : e \in Nat /\ best[e].score \in Int
                                /\ Worth(best[e].score, e) \in Int
  <2>1. /\ Back.score \in Int /\ Trans.score \in Int /\ graph.fscore[Trans.to] \in Int
        /\ Back.error \in Nat
    BY <1>1, Positions DEF BackType, TransitionType
  <2>2. score \in Int /\ error \in Nat
    <3> HIDE DEF x
    <3> QED
      BY <1>1, <2>1
  <2>3. w \in Int
    <3> HIDE DEF score, error
    <3> QED
      BY <2>2, WorthAdds
  <2>4. ASSUME NEW e \in DOMAIN best
        PROVE  e \in Nat /\ best[e].score \in Int /\ Worth(best[e].score, e) \in Int
    <3>1. e \in Nat /\ best[e] \in BestType(graph)
      BY <2>4 DEF IInv, TypeOK
    <3>2. best[e].score \in Int /\ e \in Int
      BY <3>1 DEF BestType
    <3>3. QED
      BY <3>1, <3>2, WorthAdds
  <2>5. bestScore \in Int /\ bestScore' \in Int
    BY <1>5 DEF IInv, TypeOK
  <2>6. QED
    BY <2>2, <2>3, <2>4, <2>5
<1>8. Exact'
  <2> SUFFICES ASSUME Searching PROVE Exact'
    BY <1>6 DEF Exact
  <2>1. EndsExact(graph, prefix, space, partial, back, best, cur.st)
    BY DEF SInv, Exact
  <2>2. /\ Hopeful(graph, new.from, PathIn(back[new.from], new.bmatched, new.bjump), MinScore)
        /\ CompletedBy(error, new, PathIn(back[new.from], new.bmatched, new.bjump),
             graph.trans[new.from][new.tr],
             EditMatches(prefix, new.bmatched, graph.trans[new.from][new.tr].output, partial, space),
             graph, prefix)
    <3>1. PathIn(back[new.from], new.bmatched, new.bjump) = Back
      BY <1>1, OwnPath
    <3>2. CompletedBy(error, new, Back, Trans, Matches, graph, prefix)
      BY <1>1 DEF CompletedBy
    <3>3. graph.trans[new.from][new.tr] = Trans /\ new.from = cur.st
          /\ EditMatches(prefix, new.bmatched, Trans.output, partial, space) = Matches
      BY DEF Trans, Matches
    <3>4. Hopeful(graph, cur.st, Back, MinScore)
      BY <1>1, GoesOver DEF SInv, StartOfBack
    <3> HIDE DEF new, error
    <3>5. QED
      BY <3>1, <3>2, <3>3, <3>4
  <2>3. new.from = cur.st
    OBVIOUS
  <2>4. \A e \in DOMAIN best' : \/ e \in DOMAIN best /\ best'[e] = best[e]
                                \/ e = error /\ best'[e] = new
    <3> HIDE DEF error, new
    <3> QED
      BY <1>2
  <2>5. EndsExact(graph, prefix, space, partial, back, best', cur.st)
    <3> HIDE DEF error, new
    <3> QED
      BY <1>3, <2>1, <2>2, <2>3, <2>4 DEF EndsExact
  <2>6. QED
    BY <1>1, <1>4, <2>5 DEF Exact
<1>9. ASSUME Searching
      PROVE  /\ bestScore <= bestScore' /\ w <= bestScore'
             /\ bestScore' = MinScore \/ \E e \in DOMAIN best' : bestScore' = Worth(best'[e].score, e)
             /\ \A e \in DOMAIN best' : Worth(best'[e].score, e) <= bestScore'
  <2>1. /\ bestScore = MinScore \/ \E e \in DOMAIN best : bestScore = Worth(best[e].score, e)
        /\ \A e \in DOMAIN best : Worth(best[e].score, e) <= bestScore
    BY <1>9 DEF SInv, Topped
  <2>2. ASSUME NEW a \in Int, NEW b \in Int, a <= b PROVE Worth(a, error) <= Worth(b, error)
    <3>1. ErrorWeight * error \in Int
      BY <1>7, NumbersAssumption
    <3> HIDE DEF error
    <3>2. QED
      BY <2>2, <3>1 DEF Worth
  <2>3. ASSUME NEW a \in Int, NEW b \in Int, a < b PROVE Worth(a, error) < Worth(b, error)
    <3>1. ErrorWeight * error \in Int
      BY <1>7, NumbersAssumption
    <3> HIDE DEF error
    <3>2. QED
      BY <2>3, <3>1 DEF Worth
  <2>4. CASE /\ error \in DOMAIN best /\ score <= best[error].score
             /\ UNCHANGED << best, bestScore >>
    <3>1. w <= Worth(best[error].score, error)
      <4> HIDE DEF score, error
      <4> QED
        BY <1>7, <2>2, <2>4
    <3>2. w <= bestScore
      <4> HIDE DEF w, error, score
      <4> QED
        BY <1>7, <2>1, <2>4, <3>1
    <3>3. QED
      BY <1>7, <2>1, <2>4, <3>2
  <2>5. CASE /\ error \notin DOMAIN best \/ score > best[error].score
             /\ best' = [e \in DOMAIN best \cup {error} |-> IF e = error THEN new ELSE best[e]]
             /\ bestScore' = Max({bestScore, w})
    <3>1. bestScore <= bestScore' /\ w <= bestScore' /\ (bestScore' = bestScore \/ bestScore' = w)
      <4> HIDE DEF w, error, score, new
      <4> QED
        BY <1>7, <2>5, MaxOfTwo
    <3>2. /\ error \in DOMAIN best' /\ best'[error] = new
          /\ \A e \in DOMAIN best : e \in DOMAIN best' /\ (e # error => best'[e] = best[e])
          /\ \A e \in DOMAIN best' : e = error \/ (e \in DOMAIN best /\ best'[e] = best[e])
      <4> HIDE DEF w, error, score, new
      <4>1. /\ DOMAIN best' = DOMAIN best \cup {error}
            /\ \A e \in DOMAIN best \cup {error} :
                 best'[e] = IF e = error THEN new ELSE best[e]
        BY <2>5
      <4>2. error \in DOMAIN best' /\ best'[error] = new
        BY <4>1
      <4>3. ASSUME NEW e \in DOMAIN best
            PROVE  e \in DOMAIN best' /\ (e # error => best'[e] = best[e])
        BY <4>1, <4>3
      <4>4. ASSUME NEW e \in DOMAIN best', e # error
            PROVE  e \in DOMAIN best /\ best'[e] = best[e]
        BY <4>1, <4>4
      <4>5. QED
        BY <4>2, <4>3, <4>4
    <3>3. new.score = score
      OBVIOUS
    <3>4. Worth(best'[error].score, error) = w
      <4> HIDE DEF error, new, score
      <4> QED
        BY <3>2, <3>3
    <3>5. \A e \in DOMAIN best' : Worth(best'[e].score, e) <= bestScore'
      <4> HIDE DEF w, error, score, new
      <4> QED
        BY <1>7, <2>1, <3>1, <3>2, <3>4
    <3>6. bestScore' = MinScore \/ \E e \in DOMAIN best' : bestScore' = Worth(best'[e].score, e)
      <4>1. CASE bestScore' = w
        <5> HIDE DEF w, error, score, new
        <5> QED
          BY <3>2, <3>4, <4>1
      <4>2. CASE bestScore' = bestScore /\ bestScore' # w
        <5>1. ASSUME NEW e \in DOMAIN best, bestScore = Worth(best[e].score, e)
              PROVE  e # error
          <6>1. SUFFICES ASSUME e = error PROVE FALSE
            OBVIOUS
          <6>2. best[error].score < score
            <7> HIDE DEF w, score, new
            <7> QED
              BY <2>5, <5>1, <6>1
          <6>3. Worth(best[error].score, error) < w
            <7> HIDE DEF score, error
            <7> QED
              BY <1>7, <2>3, <5>1, <6>1, <6>2
          <6> HIDE DEF w, error, score, new
          <6>4. QED
            BY <1>7, <3>1, <4>2, <5>1, <6>1, <6>3
        <5> HIDE DEF w, error, score, new
        <5>2. QED
          BY <2>1, <3>2, <4>2, <5>1
      <4>3. QED
        BY <3>1, <4>1, <4>2
    <3>7. QED
      BY <3>1, <3>5, <3>6
  <2>6. QED
    BY <1>2, <2>4, <2>5
<1>10. Topped'
  <2>1. Searching => MinScore <= bestScore'
    <3>1. Searching => MinScore <= bestScore
      BY DEF SInv, Topped
    <3>2. QED
      BY <1>7, <1>9, <3>1, NumbersAssumption
  <2>2. QED
    BY <1>6, <1>9, <2>1 DEF Topped
<1>11. Short' /\ Shaped'
  BY <1>1 DEF SInv, Short, Shaped
<1>12. Rested' /\ Worthwhile'
  <2>1. Rested'
    BY <1>1, <1>4, RestedStep
  <2>2. Worthwhile'
    BY <1>1, <1>3, <1>4, WorthwhileStep DEF SInv, StartOfBack
  <2>3. QED
    BY <2>1, <2>2
<1>13. Explored'
  <2> SUFFICES ASSUME Searching, jumpLenThreshold >= graph.n PROVE Explored'
    BY <1>1, <1>6 DEF Explored
  <2>1. Covered(graph, prefix, space, partial, back', bestScore', cur.st, cur.bi, cur.ti, cur.mi)
    BY <1>1, <1>9, Zenon DEF Covered, Back, Trans, Matches
  <2>2. \A s \in States(graph) : \A i \in DOMAIN back[s] : \A k \in DOMAIN graph.trans[s] :
           \A y \in MatchPositions(graph, prefix, space, partial, back, s, i, k) :
             Passed(cur', s, i, k, y)
               => \/ Passed(cur, s, i, k, y)
                  \/ Covered(graph, prefix, space, partial, back', bestScore', s, i, k, y)
    <3>1. \A s, i, k : MatchPositions(graph, prefix, space, partial, back, s, i, k) \subseteq Nat
      BY DEF MatchPositions
    <3>2. QED
      BY <1>4, <2>1, <3>1
  <2>3. back' \in [States(graph) -> Seq(BackType(graph))]
    BY <1>1, CurType
  <2>4. AllCovered(graph, prefix, space, partial, back', bestScore', cur')
    BY <1>1, <1>4, <1>7, <1>9, <2>2, <2>3, ExploredStep DEF SInv
  <2>5. QED
    BY <1>1, <2>4 DEF Explored
<1>14. Begun'
  BY <1>1 DEF SInv, Begun, Searching
<1>15. QED
  BY <1>14, <1>8, <1>10, <1>11, <1>12, <1>13 DEF SInv

(* Where the steps that only move on lead to. *)
LEMMA MovesOn ==
  ASSUME IInv, Rested, NextTransition \/ NextBack \/ NextState
  PROVE  \/ /\ NextTransition
            /\ cur'.st = cur.st /\ cur'.bi = cur.bi /\ cur'.ti = cur.ti + 1 /\ cur'.mi = 0
         \/ /\ NextBack
            /\ cur'.st = cur.st /\ cur'.bi = cur.bi + 1 /\ cur'.ti = 1 /\ cur'.mi = 0
         \/ /\ NextState
            /\ cur'.st = cur.st + 1 /\ cur'.bi = 1 /\ cur'.ti = 1 /\ cur'.mi = 0
<1>1. CASE NextTransition
  <2>1. cur' = [cur EXCEPT !.ti = cur.ti + 1, !.mi = 0]
    BY <1>1 DEF NextTransition
  <2>2. QED
    BY <1>1, <2>1, CurType
<1>2. CASE NextBack
  <2>1. cur' = [cur EXCEPT !.bi = cur.bi + 1, !.ti = 1, !.mi = 0]
    BY <1>2 DEF NextBack
  <2>2. QED
    BY <1>2, <2>1, CurType
<1>3. CASE NextState
  <2>1. cur' = [cur EXCEPT !.st = cur.st + 1, !.bi = 1]
    BY <1>3 DEF NextState
  <2>2. cur.ti = 1 /\ cur.mi = 0
    <3>1. cur.st \in States(graph)
      BY <1>3, CurType DEF NextState, AtState, States
    <3>2. ~AtBack
      BY <1>3, <3>1, CurType DEF NextState, AtBack
    <3>3. QED
      BY <1>3, <3>2 DEF Rested, NextState
  <2>3. QED
    BY <1>3, <2>1, <2>2, CurType
<1>4. QED
  BY <1>1, <1>2, <1>3

(* What they pass: what there is not, or what is hopeless.                  *)
LEMMA PassesMove ==
  ASSUME IInv, Rested, NextTransition \/ NextBack \/ NextState,
         NEW s \in States(graph), NEW i \in DOMAIN back[s], NEW k \in DOMAIN graph.trans[s],
         NEW y \in Nat, Passed(cur', s, i, k, y)
  PROVE  \/ Passed(cur, s, i, k, y)
         \/ AtTransition /\ s = cur.st /\ i = cur.bi /\ k = cur.ti /\ y > Len(Matches)
         \/ s = cur.st /\ i = cur.bi /\ Hopeless
<1>1. s \in Nat /\ i \in Nat \ {0} /\ k \in Nat \ {0}
  BY CurType
<1>2. CASE /\ NextTransition
           /\ cur'.st = cur.st /\ cur'.bi = cur.bi /\ cur'.ti = cur.ti + 1 /\ cur'.mi = 0
  <2>1. CASE s = cur.st /\ i = cur.bi /\ k = cur.ti
    <3>1. AtTransition /\ Len(Matches) < cur.mi /\ Len(Matches) \in Nat
      BY <1>2, Positions, CurType DEF NextTransition
    <3>2. y < cur.mi \/ y > Len(Matches)
      BY <3>1, CurType
    <3>3. QED
      BY <2>1, <3>1, <3>2 DEF Passed
  <2>2. CASE ~(s = cur.st /\ i = cur.bi /\ k = cur.ti)
    BY <1>1, <1>2, <2>2, CurType DEF Passed
  <2>3. QED
    BY <2>1, <2>2
<1>3. CASE /\ NextBack
           /\ cur'.st = cur.st /\ cur'.bi = cur.bi + 1 /\ cur'.ti = 1 /\ cur'.mi = 0
  <2>1. CASE s = cur.st /\ i = cur.bi
    <3>1. CASE StartOfBack /\ Hopeless
      BY <2>1, <3>1
    <3>2. CASE cur.ti > Len(graph.trans[cur.st])
      <4>1. k <= Len(graph.trans[s]) /\ Len(graph.trans[s]) \in Nat
        <5>1. graph.trans[s] \in Seq(TransitionType)
          BY GraphsAssumption, CurType DEF GraphType
        <5>2. QED
          BY <5>1
      <4>2. k < cur.ti
        BY <1>1, <2>1, <3>2, <4>1, CurType
      <4>3. QED
        BY <2>1, <4>2 DEF Passed
    <3>3. QED
      BY <1>3, <3>1, <3>2 DEF NextBack
  <2>2. CASE ~(s = cur.st /\ i = cur.bi)
    BY <1>1, <1>3, <2>2, CurType DEF Passed
  <2>3. QED
    BY <2>1, <2>2
<1>4. CASE /\ NextState
           /\ cur'.st = cur.st + 1 /\ cur'.bi = 1 /\ cur'.ti = 1 /\ cur'.mi = 0
  <2>1. CASE s = cur.st
    <3>1. i <= Len(back[s]) /\ Len(back[s]) \in Nat
      BY CurType
    <3>2. cur.bi > Len(back[s])
      BY <1>4, <2>1 DEF NextState
    <3>3. i < cur.bi
      BY <1>1, <3>1, <3>2, CurType
    <3>4. QED
      BY <2>1, <3>3 DEF Passed
  <2>2. CASE s # cur.st
    BY <1>1, <1>4, <2>2, CurType DEF Passed
  <2>3. QED
    BY <2>1, <2>2
<1>5. QED
  BY <1>2, <1>3, <1>4, MovesOn

(* The steps that only move on: what they pass is already covered, or      *)
(* hopeless.                                                               *)
LEMMA MoveSearch ==
  ASSUME IInv, Fresh, SInv, NextTransition \/ NextBack \/ NextState
  PROVE  SInv'
<1>1. /\ pc = "search" /\ AtState
      /\ UNCHANGED << jumpLenThreshold, graph, prefix, space, partial, pc, back, best, bestScore >>
  BY DEF NextTransition, NextBack, NextState, searchVars, AtTransition, AtBack, AtState
<1>2. IInv'
  BY LoopStep
<1>3. Searching' <=> Searching
  BY <1>1 DEF Searching
<1>4. \/ /\ NextTransition
         /\ cur'.st = cur.st /\ cur'.bi = cur.bi /\ cur'.ti = cur.ti + 1 /\ cur'.mi = 0
      \/ /\ NextBack
         /\ cur'.st = cur.st /\ cur'.bi = cur.bi + 1 /\ cur'.ti = 1 /\ cur'.mi = 0
      \/ /\ NextState
         /\ cur'.st = cur.st + 1 /\ cur'.bi = 1 /\ cur'.ti = 1 /\ cur'.mi = 0
  BY MovesOn DEF SInv
<1>5. cur.st <= cur'.st /\ cur'.st \in Int
  BY <1>4, CurType
<1>6. Exact'
  <2> SUFFICES ASSUME Searching PROVE Exact'
    BY <1>3 DEF Exact
  <2>1. EndsExact(graph, prefix, space, partial, back, best, cur.st)
    BY DEF SInv, Exact
  <2>2. \A e \in DOMAIN best : best[e].from \in Int
    BY CurType DEF IInv, BackLinked, LinkOK
  <2>3. \A e \in DOMAIN best : best[e].from <= cur'.st
    <3> SUFFICES ASSUME NEW e \in DOMAIN best PROVE best[e].from <= cur'.st
      OBVIOUS
    <3>1. best[e].from <= cur.st /\ best[e].from \in Int
      BY <2>1, <2>2 DEF EndsExact
    <3>2. QED
      BY <1>5, <3>1, CurType
  <2>4. EndsExact(graph, prefix, space, partial, back, best, cur'.st)
    BY <2>1, <2>3 DEF EndsExact
  <2>5. QED
    BY <1>1, <2>4 DEF Exact
<1>7. Begun' /\ Topped' /\ Short' /\ Shaped'
  BY <1>1, <1>3 DEF SInv, Begun, Topped, Short, Shaped
<1>8. Rested' /\ Worthwhile'
  <2>1. CASE NextTransition /\ cur'.st = cur.st /\ cur'.bi = cur.bi
    <3>1. AtBack /\ back'[cur.st] = back[cur.st]
      BY <1>1, <2>1 DEF NextTransition, AtTransition
    <3>2. AtTransition /\ ~StartOfBack
      <4>1. AtTransition /\ cur.mi > Len(Matches)
        BY <2>1 DEF NextTransition
      <4>2. Len(Matches) \in Nat
        BY <4>1, Positions
      <4>3. QED
        BY <4>1, <4>2, CurType DEF StartOfBack
    <3>3. QED
      BY <1>1, <2>1, <3>1, <3>2, RestedStep, WorthwhileStep DEF SInv
  <2>2. CASE cur'.ti = 1 /\ cur'.mi = 0
    BY <2>2 DEF Rested, Worthwhile, StartOfBack
  <2>3. QED
    BY <1>4, <2>1, <2>2
<1>9. Explored'
  <2> SUFFICES ASSUME Searching, jumpLenThreshold >= graph.n PROVE Explored'
    BY <1>1, <1>3 DEF Explored
  <2>1. ASSUME NEW s \in States(graph), NEW i \in Nat \ {0}, NEW k \in Nat \ {0}, NEW y \in Nat,
               Passed(cur', s, i, k, y)
        PROVE  s <= cur.st
    BY <1>4, <2>1, CurType DEF Passed
  <2>2. ASSUME NEW s \in States(graph), NEW i \in DOMAIN back[s], NEW k \in DOMAIN graph.trans[s],
               NEW y \in MatchPositions(graph, prefix, space, partial, back, s, i, k),
               Passed(cur', s, i, k, y)
        PROVE  \/ Passed(cur, s, i, k, y)
               \/ Covered(graph, prefix, space, partial, back', bestScore', s, i, k, y)
    <3>1. y \in Nat
      BY DEF MatchPositions
    <3>2. CASE AtTransition /\ s = cur.st /\ i = cur.bi /\ k = cur.ti /\ y > Len(Matches)
      <4>1. MatchPositions(graph, prefix, space, partial, back, s, i, k) = 0 .. Len(Matches)
        BY <3>2 DEF MatchPositions, Matches, Back, Trans
      <4>2. Len(Matches) \in Nat
        BY <3>2, Positions
      <4>3. QED
        BY <3>1, <3>2, <4>1, <4>2
    <3>3. CASE s = cur.st /\ i = cur.bi /\ Hopeless
      BY <1>1, <3>3 DEF Covered, Hopeless, Back
    <3>4. QED
      BY <2>2, <3>1, <3>2, <3>3, PassesMove DEF SInv
  <2>3. /\ bestScore' \in Int /\ bestScore <= bestScore'
        /\ back' \in [States(graph) -> Seq(BackType(graph))]
    BY <1>1, CurType
  <2>4. AllCovered(graph, prefix, space, partial, back', bestScore', cur')
    BY <1>1, <2>1, <2>2, <2>3, ExploredStep DEF SInv
  <2>5. QED
    BY <1>1, <2>4 DEF Explored
<1>10. QED
  BY <1>6, <1>7, <1>8, <1>9 DEF SInv

(* A request starts a search: nothing is recorded but the initial path,    *)
(* nothing passed.                                                         *)
LEMMA RequestSearch ==
  ASSUME IInv, Fresh, SInv, NEW r \in Requests, getPrefix(r)
  PROVE  SInv'
<1>1. /\ back' = [back EXCEPT ![0] = Append(@, InitialBack)] /\ graph' = graph
      /\ best' = << >> /\ bestScore' = MinScore /\ cur' = Start
  BY DEF getPrefix, IInv, Quiet
<1>2. 0 \in States(graph) /\ back \in [States(graph) -> Seq(BackType(graph))] /\ IInv'
  BY CurType, Cleared, RequestStep
<1>3. /\ back'[0] = Append(back[0], InitialBack)
      /\ \A s \in States(graph) \ {0} : back'[s] = back[s]
  BY <1>1, <1>2
<1>4. Exact'
  BY <1>1 DEF Exact, EndsExact
<1>5. Topped'
  BY <1>1, NumbersAssumption DEF Topped
<1>6. Shaped'
  BY <1>1, <1>3 DEF Shaped, SInv
<1>7. Short'
  <2>1. \A i \in DOMAIN back'[0] : back'[0][i] = InitialBack
    BY <1>1, <1>2 DEF IInv, BackLinked
  <2>2. InitialBack.njumps = 0
    BY DEF InitialBack
  <2>3. QED
    BY <1>1, <1>3, <2>1, <2>2 DEF Short, SInv
<1>8. Rested' /\ Worthwhile'
  BY <1>1 DEF Rested, Worthwhile, StartOfBack, Start
<1>9. Explored'
  <2>1. cur'.st = 0 /\ cur'.bi = 1 /\ cur'.ti = 1 /\ cur'.mi = 0
    BY <1>1 DEF Start
  <2>2. \A s \in Nat, i, k \in Nat \ {0}, y \in Nat : ~Passed(cur', s, i, k, y)
    BY <2>1 DEF Passed
  <2>3. ASSUME NEW s \in States(graph'), NEW i \in DOMAIN back'[s],
               NEW k \in DOMAIN graph'.trans[s],
               NEW y \in MatchPositions(graph', prefix', space', partial', back', s, i, k)
        PROVE  ~Passed(cur', s, i, k, y)
    <3>1. s \in Nat
      BY <1>1, CurType
    <3>2. back'[s] \in Seq(BackType(graph))
      BY <1>1, <1>2 DEF IInv, TypeOK
    <3>3. i \in Nat \ {0}
      BY <3>2
    <3>4. k \in Nat \ {0} /\ y \in Nat
      BY <1>1, CurType DEF MatchPositions
    <3>5. QED
      BY <2>2, <3>1, <3>3, <3>4
  <2>4. QED
    BY <2>3 DEF Explored, AllCovered
<1>10. Begun'
  BY <1>2, <1>3 DEF Begun
<1>11. QED
  BY <1>10, <1>4, <1>5, <1>6, <1>7, <1>8, <1>9 DEF SInv


LEMMA SearchStep ==
  ASSUME IInv, Fresh, SInv, [Next]_vars
  PROVE  SInv'
<1>1. CASE UNCHANGED vars
  <2>1. UNCHANGED << jumpLenThreshold, graph, prefix, space, partial, back, best, bestScore,
           pc, cur, answer >>
    BY <1>1 DEF vars
  <2>2. (Searching' <=> Searching) /\ Begun' /\ Short' /\ Shaped'
    BY <2>1 DEF Searching, SInv, Begun, Short, Shaped
  <2>3. Exact'
    BY <2>1, <2>2 DEF SInv, Exact
  <2>4. Topped' /\ Rested' /\ Worthwhile'
    BY <2>1, <2>2 DEF SInv, Topped, Rested, Worthwhile, StartOfBack, Back, AtState, AtBack
  <2>5. Explored'
    BY <2>1, <2>2 DEF SInv, Explored
  <2>6. QED
    BY <2>2, <2>3, <2>4, <2>5 DEF SInv
<1>2. ASSUME NEW g \in Graphs, createGraph(g) PROVE SInv'
  <2>1. pc' = "idle" /\ back' = [s \in States(graph') |-> << >>]
    BY <1>2 DEF createGraph
  <2>2. Short' /\ Shaped'
    BY <2>1 DEF Short, Shaped
  <2>3. QED
    BY <2>1, <2>2 DEF SInv, Begun, Exact, Topped, Explored, Searching, Rested, Worthwhile, AtState, AtBack
<1>3. ASSUME NEW r \in Requests, getPrefix(r) PROVE SInv'
  BY <1>3, RequestSearch
<1>4. CASE process_jump
  BY <1>4, JumpSearch
<1>5. CASE process_match
  BY <1>5, MatchFound, MatchOnSearch, CompleteSearch
<1>6. CASE NextTransition \/ NextBack \/ NextState
  BY <1>6, MoveSearch
<1>7. CASE Fail
  <2>1. pc' = "idle" /\ back' = back /\ graph' = graph
    BY <1>7 DEF Fail
  <2>2. Short' /\ Shaped'
    BY <2>1 DEF SInv, Short, Shaped
  <2>3. QED
    BY <2>1, <2>2 DEF SInv, Begun, Exact, Topped, Explored, Searching, Rested, Worthwhile, AtState, AtBack
<1>8. CASE Answer
  <2>1. pc' = "idle" /\ back' = [s \in States(graph') |-> << >>]
    BY <1>8 DEF Answer
  <2>2. Short' /\ Shaped'
    BY <2>1 DEF Short, Shaped
  <2>3. QED
    BY <2>1, <2>2 DEF SInv, Begun, Exact, Topped, Explored, Searching, Rested, Worthwhile, AtState, AtBack
<1>9. QED
  BY <1>1, <1>2, <1>3, <1>4, <1>5, <1>6, <1>7, <1>8 DEF Next, Step

-------------------------------------------------------------------------
(* The comparison.  No way is worth more than the best completion found:   *)
(* what a way does at each step is covered.                                *)

AW == Promise!AllWays(graph, prefix, space, partial)

LEMMA RequestOf ==
  ASSUME IInv, pc = "search"
  PROVE  \E r \in Requests : /\ r.tokens = prefix /\ r.space = space
                             /\ AW = WaysOf(graph, r, partial)
<1>1. PICK r \in Requests : r.tokens = prefix /\ r.space = space
  BY DEF IInv, TypeOK
<1>2. AW = WaysOf(graph, r, partial)
  BY <1>1 DEF AW, WaysOf
<1>3. QED
  BY <1>1, <1>2

LEMMA NothingBetter ==
  ASSUME IInv, SInv, Searching, jumpLenThreshold >= graph.n, cur.st = graph.n
  PROVE  \A s \in States(graph) : \A i \in DOMAIN back[s] :
           \A w \in AW[<< s, back[s][i].matched, back[s][i].jump >>] :
             Worth(back[s][i].score, back[s][i].error) + Worth(w.score, w.error) <= bestScore
<1> DEFINE Bound(s) ==
             \A i \in DOMAIN back[s] :
               \A w \in AW[<< s, back[s][i].matched, back[s][i].jump >>] :
                 Worth(back[s][i].score, back[s][i].error) + Worth(w.score, w.error) <= bestScore
           S == { n \in Nat : \A s \in States(graph) : graph.n - s = n => Bound(s) }
<1>1. /\ graph \in Graphs /\ graph.n \in Nat /\ bestScore \in Int /\ partial \in SUBSET Words
      /\ \A s \in States(graph) : s \in Int /\ graph.n - s \in Nat /\ s < graph.n
  BY CurType DEF States, IInv, TypeOK
<1>2. PICK r \in Requests : r.tokens = prefix /\ r.space = space /\ AW = WaysOf(graph, r, partial)
  BY RequestOf DEF Searching
<1>3. ASSUME NEW s \in States(graph), NEW i \in DOMAIN back[s]
      PROVE  /\ back[s][i].score \in Int /\ back[s][i].error \in Nat /\ back[s][i].jump \in 0 .. 2
             /\ back[s][i].matched \in 0 .. Len(prefix) - 1 /\ i \in Nat \ {0}
  <2>1. back[s][i] \in BackType(graph) /\ i \in Nat \ {0}
    BY CurType
  <2>2. back[s][i].matched < Len(prefix) /\ Len(prefix) \in Nat
    BY DEF IInv, Open, TypeOK
  <2>3. back[s][i].matched \in Nat
    BY <2>1 DEF BackType
  <2>4. QED
    BY <2>1, <2>2, <2>3 DEF BackType
<1>4. ASSUME NEW n \in Nat, \A x \in 0 .. n - 1 : x \in S PROVE n \in S
  <2> SUFFICES ASSUME NEW s \in States(graph), graph.n - s = n, NEW i \in DOMAIN back[s],
                      NEW w \in AW[<< s, back[s][i].matched, back[s][i].jump >>]
               PROVE  Worth(back[s][i].score, back[s][i].error) + Worth(w.score, w.error) <= bestScore
    OBVIOUS
  <2> DEFINE b == back[s][i]
             W == Worth(b.score, b.error) + Worth(w.score, w.error)
  <2>1. /\ b.score \in Int /\ b.error \in Nat /\ b.jump \in 0 .. 2
        /\ b.matched \in 0 .. Len(prefix) - 1 /\ i \in Nat \ {0}
    BY <1>3
  <2>2. /\ w \in WayType(graph, r, partial)
        /\ \E k \in DOMAIN graph.trans[s] :
             Kinds(graph, r, partial, AW, s, b.matched, b.jump, k, w)
    <3> HIDE DEF b
    <3> QED
      BY <1>1, <1>2, <2>1, WayKinds, ZenonT(30) DEF b
  <2>3. w.score \in Int /\ w.error \in Nat /\ w.score <= graph.fscore[s]
    <3>1. w.score <= graph.fscore[s]
      <4> HIDE DEF b
      <4> QED
        BY <1>1, <1>2, <2>1, WaysBounded DEF b
    <3>2. QED
      BY <2>2, <3>1, WayFields
  <2>4. Worth(b.score, b.error) \in Int /\ Worth(w.score, w.error) \in Int
    <3> DEFINE x1 == b.score
               x2 == b.error
               x3 == w.score
               x4 == w.error
    <3>1. x1 \in Int /\ x2 \in Int /\ x3 \in Int /\ x4 \in Int
      BY <2>1, <2>3
    <3> HIDE DEF x1, x2, x3, x4
    <3>2. Worth(x1, x2) \in Int /\ Worth(x3, x4) \in Int
      BY <3>1, WorthAdds
    <3>3. QED
      BY <3>2 DEF x1, x2, x3, x4
  <2>5. PICK k \in DOMAIN graph.trans[s] : Kinds(graph, r, partial, AW, s, b.matched, b.jump, k, w)
    BY <2>2
  <2> DEFINE t == graph.trans[s][k]
             E == EditMatches(prefix, b.matched, t.output, partial, space)
  <2>6. /\ t.to \in States(graph) /\ t.to > s /\ t.score \in Int
        /\ graph.fscore[t.to] \in Int /\ graph.fscore[s] \in Int
    BY <1>1, TransFacts
  <2>7. Bound(t.to)
    <3>1. graph.n - t.to \in 0 .. n - 1
      <4> DEFINE to == t.to
      <4>1. to \in Int /\ s \in Int /\ to > s /\ graph.n - to \in Nat /\ graph.n - s = n
        BY <1>1, <2>6
      <4> HIDE DEF to
      <4>2. graph.n - to \in 0 .. n - 1
        BY <1>1, <1>4, <4>1
      <4>3. QED
        BY <4>2 DEF to
    <3>2. graph.n - t.to \in S
      BY <1>4, <3>1
    <3> HIDE DEF Bound, t
    <3>3. QED
      BY <2>6, <3>2
  <2>8. ASSUME NEW y \in MatchPositions(graph, prefix, space, partial, back, s, i, k)
        PROVE  Covered(graph, prefix, space, partial, back, bestScore, s, i, k, y)
    <3>1. Passed(cur, s, i, k, y)
      BY <1>1 DEF Passed
    <3>2. QED
      BY <2>8, <3>1 DEF SInv, Explored, AllCovered
  (* Hopeless. *)
  <2>9. ASSUME graph.fscore[s] + Worth(b.score, b.error) < bestScore
        PROVE  W <= bestScore
    <3>1. Worth(w.score, w.error) <= graph.fscore[s]
      <4> DEFINE x3 == w.score
                 x4 == w.error
                 f == graph.fscore[s]
      <4>1. x3 \in Int /\ x4 \in Nat /\ x3 <= f /\ f \in Int
        BY <2>3, <2>6
      <4> HIDE DEF x3, x4, f
      <4>2. Worth(x3, x4) <= f
        BY <4>1, ErrorsCost
      <4>3. QED
        BY <4>2 DEF x3, x4, f
    <3> HIDE DEF b
    <3>2. QED
      BY <1>1, <2>4, <2>6, <2>9, <3>1 DEF b
  (* Something as good was recorded, and a way on from that is worth no      *)
  (* more than the best.                                                     *)
  <2>10. ASSUME NEW m \in 0 .. Len(prefix) - 1, NEW j \in 0 .. 2, NEW error \in Nat,
                NEW v \in AW[<< t.to, m, j >>],
                w.score = v.score + t.score, w.error = v.error + error,
                Has(back[t.to], m, j, Worth(b.score + t.score, b.error + error))
         PROVE  W <= bestScore
    <3>1. PICK x \in DOMAIN back[t.to] :
            /\ back[t.to][x].matched = m /\ back[t.to][x].jump = j
            /\ Worth(back[t.to][x].score, back[t.to][x].error)
                 >= Worth(b.score + t.score, b.error + error)
      BY <2>10, Zenon DEF Has
    <3> DEFINE q == back[t.to][x]
    <3>2. q.score \in Int /\ q.error \in Int
      <4> DEFINE u == t.to
      <4>1. u \in States(graph) /\ x \in DOMAIN back[u]
        BY <2>6, <3>1
      <4> HIDE DEF u
      <4>2. back[u][x].score \in Int /\ back[u][x].error \in Int
        BY <1>3, <4>1
      <4>3. QED
        BY <4>2 DEF u
    <3>3. Worth(q.score, q.error) + Worth(v.score, v.error) <= bestScore
      <4>1. v \in AW[<< t.to, q.matched, q.jump >>]
        BY <2>10, <3>1
      <4> HIDE DEF t, q
      <4>2. QED
        BY <2>7, <3>1, <4>1 DEF q
    <3>4. v.score \in Int /\ v.error \in Nat
      <4> HIDE DEF t
      <4>1. v \in WayType(graph, r, partial)
        BY <1>1, <1>2, <2>6, <2>10, WayKinds
      <4>2. QED
        BY <4>1, WayFields
    <3> DEFINE x1 == b.score
               x2 == b.error
               v1 == v.score
               v2 == v.error
               t1 == t.score
               q1 == q.score
               q2 == q.error
    <3>5. /\ x1 \in Int /\ x2 \in Int /\ v1 \in Int /\ v2 \in Int /\ t1 \in Int /\ error \in Int
          /\ q1 \in Int /\ q2 \in Int
      <4>1. x1 \in Int /\ x2 \in Int
        BY <2>1
      <4>2. t1 \in Int
        BY <2>6
      <4>3. v1 \in Int /\ v2 \in Int
        BY <3>4
      <4>4. q1 \in Int /\ q2 \in Int
        BY <3>2
      <4>5. error \in Int
        OBVIOUS
      <4> HIDE DEF x1, x2, t1, v1, v2, q1, q2
      <4>6. QED
        BY <4>1, <4>2, <4>3, <4>4, <4>5
    <3>6. W = Worth(x1, x2) + Worth(v1 + t1, v2 + error)
      BY <2>10
    <3>7. Worth(q1, q2) >= Worth(x1 + t1, x2 + error)
          /\ Worth(q1, q2) + Worth(v1, v2) <= bestScore
      BY <3>1, <3>3
    <3> HIDE DEF x1, x2, v1, v2, t1, q1, q2, W
    <3>8. Worth(x1, x2) + Worth(v1 + t1, v2 + error) <= bestScore
      BY <1>1, <3>5, <3>7, WorthShift, Zenon
    <3>9. QED
      BY <3>6, <3>8
  <2>11. \/ b.jump # 2 /\ \E v \in AW[<< t.to, b.matched, 1 >>] :
                            w = Promise!Jumped(v, t, IF b.jump = 0 THEN 1 ELSE 0)
         \/ \E y \in DOMAIN E :
              \/ E[y].pm = Len(prefix) /\ w = Promise!Completion(graph, t, E[y])
              \/ /\ E[y].pm # Len(prefix)
                 /\ \E v \in AW[<< t.to, E[y].pm, IF b.jump = 0 THEN 0 ELSE 2 >>] :
                      w = Promise!Matched(v, t, E[y].error)
    BY <1>2, <2>5, Zenon DEF Kinds
  <2>12. ASSUME b.jump # 2,
                NEW v \in AW[<< t.to, b.matched, 1 >>],
                w = Promise!Jumped(v, t, IF b.jump = 0 THEN 1 ELSE 0)
         PROVE  W <= bestScore
    <3> DEFINE error == IF b.jump = 0 THEN 1 ELSE 0
    <3>1. 0 \in MatchPositions(graph, prefix, space, partial, back, s, i, k)
      <4> DEFINE F == EditMatches(prefix, back[s][i].matched, graph.trans[s][k].output, partial, space)
      <4>1. F \in Seq(MatchType(prefix, back[s][i].matched, graph.trans[s][k].output))
        BY <1>1, <1>2, <2>1, MatchesAssumption
      <4>2. Len(F) \in Nat
        <5> DEFINE M == MatchType(prefix, back[s][i].matched, graph.trans[s][k].output)
        <5> HIDE DEF F, M
        <5> QED
          BY <4>1 DEF M
      <4>3. QED
        BY <4>2 DEF MatchPositions
    <3>2. Covered(graph, prefix, space, partial, back, bestScore, s, i, k, 0)
      BY <2>8, <3>1
    <3>3. \/ graph.fscore[s] + Worth(b.score, b.error) < bestScore
          \/ Has(back[t.to], b.matched, 1, Worth(b.score + t.score, b.error + error))
      BY <2>12, <3>2 DEF Covered
    <3>4. w.score = v.score + t.score /\ w.error = v.error + error
      BY <2>12 DEF Promise!Jumped
    <3>5. error \in Nat /\ 1 \in 0 .. 2
      OBVIOUS
    <3> HIDE DEF error, t, b, W
    <3>6. QED
      BY <1>3, <2>1, <2>9, <2>10, <2>12, <3>3, <3>4, <3>5
  <2>13. ASSUME NEW y \in DOMAIN E
         PROVE  /\ E[y].error \in Nat /\ E[y].pm \in b.matched + 1 .. Len(prefix)
                /\ y # 0 /\ y \in MatchPositions(graph, prefix, space, partial, back, s, i, k)
    <3>1. E[y].error \in Nat /\ E[y].pm \in b.matched + 1 .. Len(prefix)
      BY <1>1, <1>2, <2>1, <2>13, MatchFacts
    <3>2. y # 0 /\ y \in 0 .. Len(E)
      <4>1. E \in Seq(MatchType(prefix, b.matched, t.output))
        BY <1>1, <1>2, <2>1, MatchesAssumption
      <4> DEFINE M == MatchType(prefix, b.matched, t.output)
      <4> HIDE DEF E, M
      <4>2. QED
        BY <2>13, <4>1 DEF M
    <3>3. QED
      BY <3>1, <3>2 DEF MatchPositions
  <2>14. ASSUME NEW y \in DOMAIN E, E[y].pm = Len(prefix), w = Promise!Completion(graph, t, E[y])
         PROVE  W <= bestScore
    <3>1. Covered(graph, prefix, space, partial, back, bestScore, s, i, k, y) /\ y # 0
      BY <2>8, <2>13, <2>14
    <3>2. \/ graph.fscore[s] + Worth(b.score, b.error) < bestScore
          \/ Worth(b.score + t.score + graph.fscore[t.to], b.error + E[y].error) <= bestScore
      <4>1. ~(E[y].pm < Len(prefix))
        <5>1. Len(prefix) \in Nat
          BY DEF IInv, TypeOK
        <5> HIDE DEF E
        <5>2. QED
          BY <2>14, <5>1
      <4>2. QED
        BY <3>1, <4>1 DEF Covered
    <3>3. w.score = t.score + graph.fscore[t.to] /\ w.error = E[y].error
      BY <2>14, Zenon DEF Promise!Completion
    <3>4. CASE Worth(b.score + t.score + graph.fscore[t.to], b.error + E[y].error) <= bestScore
      <4> DEFINE x1 == b.score
                 x2 == b.error
                 t1 == t.score
                 f == graph.fscore[t.to]
                 e == E[y].error
      <4>1. x1 \in Int /\ x2 \in Int /\ t1 \in Int /\ f \in Int /\ e \in Int
        <5>1. x1 \in Int /\ x2 \in Int
          BY <2>1
        <5>2. t1 \in Int /\ f \in Int
          BY <2>6
        <5>3. e \in Int
          BY <2>13
        <5> HIDE DEF x1, x2, t1, f, e
        <5>4. QED
          BY <5>1, <5>2, <5>3
      <4>2. Worth(x1 + t1 + f, x2 + e) <= bestScore
        BY <3>4
      <4>3. W = Worth(x1, x2) + Worth(t1 + f, e)
        BY <3>3
      <4> HIDE DEF x1, x2, t1, f, e, W
      <4>4. x1 + t1 + f = x1 + (t1 + f) /\ t1 + f \in Int
        BY <4>1
      <4>5. Worth(x1, x2) + Worth(t1 + f, e) = Worth(x1 + (t1 + f), x2 + e)
        BY <4>1, <4>4, WorthAdds
      <4>6. QED
        BY <4>2, <4>3, <4>4, <4>5
    <3>5. QED
      BY <2>9, <3>2, <3>4
  <2>15. ASSUME NEW y \in DOMAIN E, E[y].pm # Len(prefix),
                NEW v \in AW[<< t.to, E[y].pm, IF b.jump = 0 THEN 0 ELSE 2 >>],
                w = Promise!Matched(v, t, E[y].error)
         PROVE  W <= bestScore
    <3> DEFINE j == IF b.jump = 0 THEN 0 ELSE 2
               error == E[y].error
               m == E[y].pm
    <3>1. Covered(graph, prefix, space, partial, back, bestScore, s, i, k, y) /\ y # 0
      BY <2>8, <2>13, <2>15
    <3>2. \/ graph.fscore[s] + Worth(b.score, b.error) < bestScore
          \/ Has(back[t.to], m, j, Worth(b.score + t.score, b.error + error))
      BY <2>15, <3>1 DEF Covered
    <3>3. w.score = v.score + t.score /\ w.error = v.error + error
      BY <2>15 DEF Promise!Matched
    <3>4. error \in Nat /\ j \in 0 .. 2 /\ m \in 0 .. Len(prefix) - 1
      <4>1. m \in b.matched + 1 .. Len(prefix) /\ error \in Nat
        BY <2>13, <2>15
      <4>2. Len(prefix) \in Nat /\ m # Len(prefix) /\ b.matched \in Nat
        BY <2>1, <2>15 DEF IInv, TypeOK
      <4> HIDE DEF m, error
      <4>3. QED
        BY <4>1, <4>2
    <3>5. v \in AW[<< t.to, m, j >>]
      BY <2>15
    <3> HIDE DEF error, t, b, W, j, m
    <3>6. QED
      BY <2>9, <2>10, <3>2, <3>3, <3>4, <3>5
  <2>16. QED
    <3> HIDE DEF E, t, b, W
    <3>1. W <= bestScore
      BY <2>11, <2>12, <2>14, <2>15
    <3>2. QED
      BY <3>1 DEF W, b
<1>5. \A n \in Nat : n \in S
  <2> HIDE DEF S
  <2> QED
    BY <1>4, StrongInduction
<1>6. \A s \in States(graph) : Bound(s)
  <2> HIDE DEF Bound
  <2> QED
    BY <1>1, <1>5
<1>7. QED
  BY <1>6

-------------------------------------------------------------------------
(* The jumped words along a recorded path. *)

(* A situation with a path. *)
LEMMA SituationPath ==
  ASSUME IInv, NEW c \in Situations
  PROVE  /\ c = << c[1], c[2], c[3] >> /\ c[1] \in States(graph) /\ c[1] \in Nat
         /\ c[2] \in 0 .. Len(prefix) - 1 /\ c[3] \in 0 .. 2
         /\ \E i \in DOMAIN back[c[1]] :
              /\ Lookup(c[1], c[2], c[3]) = back[c[1]][i]
              /\ back[c[1]][i].matched = c[2] /\ back[c[1]][i].jump = c[3]
<1>1. /\ c = << c[1], c[2], c[3] >> /\ c[1] \in States(graph)
      /\ c[2] \in 0 .. Len(prefix) - 1 /\ c[3] \in 0 .. 2
      /\ Linked(c[1], c[2], c[3]) # {}
  BY DEF Situations
<1>2. /\ c[1] \in Nat /\ \A i \in DOMAIN back[c[1]] : i \in Nat
  BY <1>1, CurType
<1> DEFINE L == Linked(c[1], c[2], c[3])
<1>3. L \subseteq Nat /\ L # {}
  BY <1>1, <1>2 DEF Linked
<1>4. \E i \in L : \A k \in L : i <= k
  <2> HIDE DEF L
  <2> QED
    BY <1>3, MinIn
<1>5. (CHOOSE i \in L : \A k \in L : i <= k) \in L
  <2> HIDE DEF L
  <2> QED
    BY <1>4
<1>6. QED
  BY <1>1, <1>2, <1>5, Zenon DEF Lookup, Linked

(* It comes from an earlier one. *)
LEMMA SituationBefore ==
  ASSUME IInv, NEW c \in Situations, c[1] # 0
  PROVE  LET b == Lookup(c[1], c[2], c[3])
         IN  /\ Before(b) \in Situations /\ Before(b)[1] < c[1]
             /\ b.tr \in DOMAIN graph.trans[b.bstate] /\ b.bstate \in States(graph)
             /\ graph.trans[b.bstate][b.tr].to = c[1]
             /\ graph.trans[b.bstate][b.tr].output \in Seq(Words)
<1> DEFINE b == Lookup(c[1], c[2], c[3])
<1>1. PICK i \in DOMAIN back[c[1]] : b = back[c[1]][i]
  BY SituationPath
<1>2. c[1] \in States(graph) /\ c[1] \in Nat /\ graph \in Graphs
  BY SituationPath, CurType
<1>3. /\ LinkOK(b.bstate, b.tr, b.bmatched, b.bjump, b.matched)
      /\ graph.trans[b.bstate][b.tr].to = c[1]
  BY <1>1, <1>2 DEF IInv, BackLinked
<1>4. /\ b.bstate \in States(graph) /\ b.tr \in DOMAIN graph.trans[b.bstate]
      /\ Linked(b.bstate, b.bmatched, b.bjump) # {}
  BY <1>3 DEF LinkOK
<1>5. graph.trans[b.bstate][b.tr].to > b.bstate /\ graph.trans[b.bstate][b.tr].output \in Seq(Words)
  <2> HIDE DEF b
  <2> QED
    BY <1>2, <1>4, TransFacts
<1>6. PICK k \in DOMAIN back[b.bstate] :
        back[b.bstate][k].matched = b.bmatched /\ back[b.bstate][k].jump = b.bjump
  BY <1>4 DEF Linked
<1>7. b.bmatched \in 0 .. Len(prefix) - 1 /\ b.bjump \in 0 .. 2
  <2> DEFINE q == back[b.bstate][k]
  <2>1. q \in BackType(graph)
    <3> DEFINE u == b.bstate
    <3>1. u \in States(graph) /\ k \in DOMAIN back[u]
      BY <1>4, <1>6
    <3> HIDE DEF u
    <3>2. back[u][k] \in BackType(graph)
      BY <3>1, CurType
    <3>3. QED
      BY <3>2 DEF u
  <2>2. q.matched < Len(prefix) /\ Len(prefix) \in Nat
    BY <1>4, <1>6 DEF IInv, Open, TypeOK
  <2>3. q.matched \in Nat /\ q.jump \in 0 .. 2
    BY <2>1 DEF BackType
  <2>4. QED
    BY <1>6, <2>2, <2>3
<1>8. Before(b) = << b.bstate, b.bmatched, b.bjump >>
  BY DEF Before
<1> HIDE DEF b
<1>9. Before(b) \in Situations /\ Before(b)[1] = b.bstate
  BY <1>4, <1>7, <1>8 DEF Situations
<1>10. QED
  BY <1>3, <1>4, <1>5, <1>9 DEF b

Grow(f, c) ==
  IF c[1] = 0
    THEN << >>
    ELSE f[Before(Lookup(c[1], c[2], c[3]))]
           \o (IF c[3] = 1 THEN graph.trans[Lookup(c[1], c[2], c[3]).bstate]
                                           [Lookup(c[1], c[2], c[3]).tr].output
                           ELSE << >>)

LEMMA GrowType ==
  ASSUME IInv, NEW c \in Situations, NEW f, \A d \in Situations : d[1] < c[1] => f[d] \in Seq(Words)
  PROVE  Grow(f, c) \in Seq(Words)
<1>1. CASE c[1] = 0
  BY <1>1 DEF Grow
<1>2. CASE c[1] # 0
  <2> DEFINE b == Lookup(c[1], c[2], c[3])
             o == graph.trans[b.bstate][b.tr].output
  <2>1. f[Before(b)] \in Seq(Words) /\ o \in Seq(Words)
    BY <1>2, SituationBefore
  <2>2. Grow(f, c) = f[Before(b)] \o (IF c[3] = 1 THEN o ELSE << >>)
    BY <1>2, Zenon DEF Grow
  <2> HIDE DEF b, o
  <2>3. QED
    BY <2>1, <2>2
<1>3. QED
  BY <1>1, <1>2

LEMMA GrowBelow ==
  ASSUME IInv, NEW c \in Situations, NEW f, NEW h, \A d \in Situations : d[1] < c[1] => f[d] = h[d]
  PROVE  Grow(f, c) = Grow(h, c)
BY SituationBefore DEF Grow

LEMMA JumpedEquation ==
  ASSUME IInv
  PROVE  \A c \in Situations : JumpedWords[c] \in Seq(Words) /\ JumpedWords[c] = Grow(JumpedWords, c)
<1> DEFINE D == Situations
           V == Seq(Words)
           G == [f \in [D -> V] |-> [c \in D |-> Grow(f, c)]]
           rank == [c \in D |-> c[1]]
<1>1. graph.n \in Nat /\ rank \in [D -> 0 .. graph.n] /\ \A c \in D : c[1] \in Nat
  <2>1. graph.n \in Nat /\ \A s \in States(graph) : s \in 0 .. graph.n
    BY CurType DEF States
  <2>2. \A c \in D : c[1] \in 0 .. graph.n
    BY <2>1, SituationPath
  <2> HIDE DEF D
  <2>3. QED
    BY <2>1, <2>2
<1>2. ASSUME NEW f \in [D -> V], NEW c \in D PROVE G[f][c] = Grow(f, c)
  OBVIOUS
<1>3. \A f \in [D -> V], c \in D : Grow(f, c) \in V
  BY GrowType
<1>4. \A f, h : \A c \in D : (\A d \in D : d[1] < c[1] => f[d] = h[d]) => Grow(f, c) = Grow(h, c)
  BY GrowBelow
<1>5. KeepsType(G, D, V)
  <2> HIDE DEF D, V, G
  <2> QED
    BY <1>2, <1>3 DEF KeepsType
<1>6. LooksBelow(G, D, V, rank)
  <2>1. \A d \in D : rank[d] = d[1]
    OBVIOUS
  <2> HIDE DEF D, V, G, rank
  <2>2. QED
    BY <1>2, <1>4, <2>1 DEF LooksBelow
<1>7. V # {}
  BY EmptySequence
<1>8. PICK f \in [D -> V] : Solution(f, G, D)
  <2> HIDE DEF D, V, G, rank
  <2> QED
    BY <1>1, <1>5, <1>6, <1>7, Recursion
<1>9. \A c \in D : f[c] = Grow(f, c)
  <2> HIDE DEF D, V, G
  <2> QED
    BY <1>2, <1>8 DEF Solution
<1> HIDE DEF G, rank
<1> DEFINE E(x) == x = [c \in D |->
              IF c[1] = 0
                THEN << >>
                ELSE LET b == Lookup(c[1], c[2], c[3])
                     IN  x[Before(b)]
                           \o (IF c[3] = 1 THEN graph.trans[b.bstate][b.tr].output
                                           ELSE << >>)]
           X == JumpedWords
<1>10. \A x : E(x) <=> x = [c \in D |-> Grow(x, c)]
  BY DEF Grow
<1>11. X = CHOOSE x : E(x)
  BY DEF JumpedWords
<1>12. E(f)
  <2>1. f = [c \in D |-> Grow(f, c)]
    <3> HIDE DEF D, V
    <3> QED
      BY <1>9
  <2>2. QED
    BY <1>10, <2>1, Zenon
<1>13. X = [c \in D |-> Grow(X, c)]
  <2> HIDE DEF E, X
  <2>1. E(X)
    BY <1>11, <1>12
  <2>2. QED
    BY <1>10, <2>1
<1>14. \A x : x = [c \in D |-> Grow(x, c)] => \A c \in D : x[c] = Grow(x, c)
  OBVIOUS
<1>15. \A c \in D : X[c] = Grow(X, c)
  <2> HIDE DEF D, X
  <2> QED
    BY <1>13, <1>14
<1> DEFINE S == { n \in Nat : \A c \in D : c[1] = n => X[c] \in V }
<1>16. ASSUME NEW n \in Nat, \A k \in 0 .. n - 1 : k \in S PROVE n \in S
  <2>1. ASSUME NEW c \in D, c[1] = n PROVE X[c] \in V
    <3>1. \A d \in D : d[1] < c[1] => X[d] \in V
      <4>1. ASSUME NEW d \in D, d[1] < n PROVE X[d] \in V
        <5>1. d[1] \in 0 .. n - 1
          BY <1>1, <1>16, <4>1
        <5>2. d[1] \in S
          BY <1>16, <5>1
        <5>3. QED
          BY <5>2
      <4>2. QED
        BY <2>1, <4>1
    <3> HIDE DEF X
    <3>2. Grow(X, c) \in V
      BY <3>1, GrowType
    <3>3. QED
      BY <1>15, <3>2
  <2>2. QED
    BY <2>1
<1>17. \A n \in Nat : n \in S
  <2> HIDE DEF S
  <2> QED
    BY <1>16, StrongInduction
<1>18. \A c \in D : X[c] \in V
  BY <1>1, <1>17
<1>19. QED
  BY <1>15, <1>18

LEMMA Joined ==
  ASSUME NEW S, NEW a \in Seq(S), NEW b \in Seq(S), NEW c \in Seq(S)
  PROVE  /\ (a \o b) \o c = a \o (b \o c)
         /\ << >> \o a = a /\ a \o << >> = a
OBVIOUS

(* Path b is held in seq, for this situation. *)
Held(b, seq, m, j) == \E h \in DOMAIN seq : b = seq[h] /\ seq[h].matched = m /\ seq[h].jump = j

(* The path recorded for a situation. *)
LEMMA RecordedPath ==
  ASSUME IInv, NEW u \in States(graph), NEW m, NEW j, Linked(u, m, j) # {}
  PROVE  /\ << u, m, j >> \in Situations
         /\ Lookup(u, m, j) = PathIn(back[u], m, j)
         /\ Held(PathIn(back[u], m, j), back[u], m, j)
<1>1. PICK k \in DOMAIN back[u] : back[u][k].matched = m /\ back[u][k].jump = j
  BY DEF Linked
<1>2. m \in 0 .. Len(prefix) - 1 /\ j \in 0 .. 2
  <2>1. back[u][k] \in BackType(graph)
    BY CurType
  <2>2. m < Len(prefix) /\ Len(prefix) \in Nat
    BY <1>1 DEF IInv, Open, TypeOK
  <2>3. m \in Nat /\ j \in 0 .. 2
    BY <1>1, <2>1 DEF BackType
  <2>4. QED
    BY <2>2, <2>3
<1> DEFINE c == << u, m, j >>
<1>3. c \in Situations /\ c[1] = u /\ c[2] = m /\ c[3] = j
  BY <1>2 DEF Situations
<1>4. Lookup(u, m, j) = PathIn(back[u], m, j)
  BY DEF Lookup, Linked, PathIn
<1>5. \E h \in DOMAIN back[u] : /\ Lookup(u, m, j) = back[u][h]
                                /\ back[u][h].matched = m /\ back[u][h].jump = j
  <2>1. \E h \in DOMAIN back[c[1]] :
              /\ Lookup(c[1], c[2], c[3]) = back[c[1]][h]
              /\ back[c[1]][h].matched = c[2] /\ back[c[1]][h].jump = c[3]
    <3> HIDE DEF c
    <3> QED
      BY <1>3, SituationPath
  <2>2. QED
    BY <1>3, <2>1
<1>6. QED
  BY <1>3, <1>4, <1>5 DEF Held

(* Every recorded path is the one its situation leads to. *)
LEMMA OwnLookup ==
  ASSUME IInv, NEW s \in States(graph) \ {0}, NEW i \in DOMAIN back[s]
  PROVE  /\ << s, back[s][i].matched, back[s][i].jump >> \in Situations
         /\ Lookup(s, back[s][i].matched, back[s][i].jump) = back[s][i]
<1>1. i \in Linked(s, back[s][i].matched, back[s][i].jump)
  BY DEF Linked
<1>2. \A k \in DOMAIN back[s] :
        back[s][i].matched = back[s][k].matched /\ back[s][i].jump = back[s][k].jump => k = i
  BY DEF IInv, NoRivals
<1> DEFINE m == back[s][i].matched
           j == back[s][i].jump
<1>3. /\ << s, m, j >> \in Situations
      /\ Lookup(s, m, j) = PathIn(back[s], m, j)
      /\ Held(PathIn(back[s], m, j), back[s], m, j)
  <2>1. Linked(s, m, j) # {}
    BY <1>1
  <2> HIDE DEF m, j
  <2>2. QED
    BY <2>1, RecordedPath
<1>4. QED
  BY <1>2, <1>3 DEF Held

(* Way v is a path with this score, these errors and these jumped words,   *)
(* continued by w.                                                         *)
Continues(v, score, error, jumped, w) ==
  /\ v.score = score + w.score /\ v.error = error + w.error
  /\ v.last = w.last /\ v.suffix = w.suffix /\ v.jumped = jumped \o w.jumped

(* Every path that may still be worth top is exactly what process_jump or   *)
(* process_match made of the path that is now where it says it came from.  *)
HopefulExact(top) ==
  \A s \in States(graph) \ {0} : \A i \in DOMAIN back[s] :
    Hopeful(graph, s, back[s][i], top) =>
      MadeBy(back[s][i], PathIn(back[back[s][i].bstate], back[s][i].bmatched, back[s][i].bjump),
             graph.trans[back[s][i].bstate][back[s][i].tr],
             EditMatches(prefix, back[s][i].bmatched,
                         graph.trans[back[s][i].bstate][back[s][i].tr].output, partial, space))

(* With a way on from where it has come such a path is a way. *)
LEMMA PathsAreWays ==
  ASSUME IInv, Searching, NEW top \in Int, HopefulExact(top)
  PROVE  \A s \in States(graph) : \A i \in DOMAIN back[s] :
           Hopeful(graph, s, back[s][i], top) =>
           \A w \in AW[<< s, back[s][i].matched, back[s][i].jump >>] :
             \E v \in AW[<< 0, 0, 0 >>] :
               Continues(v, back[s][i].score, back[s][i].error,
                         JumpedWords[<< s, back[s][i].matched, back[s][i].jump >>], w)
<1> DEFINE Good(s) ==
             \A i \in DOMAIN back[s] : Hopeful(graph, s, back[s][i], top) =>
               \A w \in AW[<< s, back[s][i].matched, back[s][i].jump >>] :
                 \E v \in AW[<< 0, 0, 0 >>] :
                   Continues(v, back[s][i].score, back[s][i].error,
                             JumpedWords[<< s, back[s][i].matched, back[s][i].jump >>], w)
           S == { n \in Nat : n \in States(graph) => Good(n) }
<1>1. /\ graph \in Graphs /\ partial \in SUBSET Words /\ \A s \in States(graph) : s \in Nat
      /\ back \in [States(graph) -> Seq(BackType(graph))] /\ 0 \in States(graph)
  BY CurType, Cleared DEF IInv, TypeOK
<1>2. PICK r \in Requests : r.tokens = prefix /\ r.space = space /\ AW = WaysOf(graph, r, partial)
  BY RequestOf DEF Searching
<1>3. ASSUME NEW s \in States(graph), NEW i \in DOMAIN back[s]
      PROVE  /\ back[s][i].score \in Int /\ back[s][i].error \in Nat /\ back[s][i].jump \in 0 .. 2
             /\ back[s][i].matched \in 0 .. Len(prefix) - 1
  <2>1. back[s][i] \in BackType(graph)
    BY CurType
  <2>2. back[s][i].matched < Len(prefix) /\ Len(prefix) \in Nat
    BY DEF IInv, Open, TypeOK
  <2>3. back[s][i].matched \in Nat
    BY <2>1 DEF BackType
  <2>4. QED
    BY <2>1, <2>2, <2>3 DEF BackType
<1>4. ASSUME NEW s \in States(graph), NEW m \in 0 .. Len(prefix) - 1, NEW j \in 0 .. 2, NEW w
      PROVE  /\ w \in AW[<< s, m, j >>]
                  <=> \E k \in DOMAIN graph.trans[s] : Kinds(graph, r, partial, AW, s, m, j, k, w)
             /\ w \in AW[<< s, m, j >>] =>
                  /\ w \in WayType(graph, r, partial)
                  /\ w.score \in Int /\ w.error \in Nat /\ w.jumped \in Seq(Words)
  <2>1. m \in 0 .. Len(r.tokens) - 1
    BY <1>2, <1>4
  <2>2. /\ w \in AW[<< s, m, j >>]
             <=> \E k \in DOMAIN graph.trans[s] : Kinds(graph, r, partial, AW, s, m, j, k, w)
        /\ w \in AW[<< s, m, j >>] => w \in WayType(graph, r, partial)
    BY <1>1, <1>2, <1>4, <2>1, WayKinds
  <2>3. w \in WayType(graph, r, partial) =>
          w.score \in Int /\ w.error \in Nat /\ w.jumped \in Seq(Words)
    BY WayFields
  <2>4. QED
    BY <2>2, <2>3
<1>5. Good(0)
  <2>1. \A i \in DOMAIN back[0] : back[0][i] = InitialBack
    BY <1>1 DEF IInv, BackLinked
  <2>2. ASSUME NEW i \in DOMAIN back[0], NEW w \in AW[<< 0, 0, 0 >>]
        PROVE  Continues(w, 0, 0, JumpedWords[<< 0, 0, 0 >>], w)
    <3>1. w.score \in Int /\ w.error \in Nat /\ w.jumped \in Seq(Words)
      <4>1. 0 \in 0 .. Len(prefix) - 1 /\ 0 \in 0 .. 2
        BY <1>2, Tokens
      <4>2. QED
        BY <1>1, <1>4, <4>1
    <3>2. << 0, 0, 0 >> \in Situations
      <4>1. Linked(0, 0, 0) # {}
        BY <2>1, <2>2 DEF Linked, InitialBack
      <4>2. QED
        BY <1>1, <4>1, RecordedPath
    <3>3. JumpedWords[<< 0, 0, 0 >>] = << >>
      BY <3>2, JumpedEquation DEF Grow
    <3>4. w.jumped = << >> \o w.jumped /\ w.score = 0 + w.score /\ w.error = 0 + w.error
      <4> DEFINE a == w.jumped
                 b == w.score
                 c == w.error
      <4>1. a \in Seq(Words) /\ b \in Int /\ c \in Nat
        BY <3>1
      <4> HIDE DEF a, b, c
      <4>2. a = << >> \o a /\ b = 0 + b /\ c = 0 + c
        BY <4>1, Joined
      <4>3. QED
        BY <4>2 DEF a, b, c
    <3>5. QED
      BY <3>3, <3>4 DEF Continues
  <2>3. \A i \in DOMAIN back[0] : /\ back[0][i].score = 0 /\ back[0][i].error = 0
                                 /\ back[0][i].matched = 0 /\ back[0][i].jump = 0
    BY <2>1 DEF InitialBack
  <2>4. ASSUME NEW i \in DOMAIN back[0],
               NEW w \in AW[<< 0, back[0][i].matched, back[0][i].jump >>]
        PROVE  \E v \in AW[<< 0, 0, 0 >>] :
                 Continues(v, back[0][i].score, back[0][i].error,
                           JumpedWords[<< 0, back[0][i].matched, back[0][i].jump >>], w)
    <3> DEFINE sc == back[0][i].score
               er == back[0][i].error
               m == back[0][i].matched
               j == back[0][i].jump
    <3>1. sc = 0 /\ er = 0 /\ m = 0 /\ j = 0 /\ w \in AW[<< 0, m, j >>]
      BY <2>3, <2>4
    <3>2. i \in DOMAIN back[0]
      BY <2>4
    <3> HIDE DEF sc, er, m, j
    <3>3. \E v \in AW[<< 0, 0, 0 >>] : Continues(v, sc, er, JumpedWords[<< 0, m, j >>], w)
      BY <2>2, <3>1, <3>2
    <3>4. QED
      BY <3>3 DEF sc, er, m, j
  <2>5. QED
    BY <2>4
<1>6. ASSUME NEW n \in Nat, \A k \in 0 .. n - 1 : k \in S PROVE n \in S
  <2> SUFFICES ASSUME n \in States(graph), n # 0, NEW i \in DOMAIN back[n],
                      Hopeful(graph, n, back[n][i], top),
                      NEW w \in AW[<< n, back[n][i].matched, back[n][i].jump >>]
               PROVE  \E v \in AW[<< 0, 0, 0 >>] :
                        Continues(v, back[n][i].score, back[n][i].error,
                                  JumpedWords[<< n, back[n][i].matched, back[n][i].jump >>], w)
    BY <1>5
  <2> DEFINE b == back[n][i]
             u == b.bstate
             q == PathIn(back[u], b.bmatched, b.bjump)
             t == graph.trans[u][b.tr]
             E == EditMatches(prefix, b.bmatched, t.output, partial, space)
             c == << n, b.matched, b.jump >>
             d == << u, b.bmatched, b.bjump >>
  <2>1. c \in Situations /\ Lookup(n, b.matched, b.jump) = b
    BY OwnLookup
  <2>2. /\ u \in States(graph) /\ b.tr \in DOMAIN graph.trans[u] /\ t.to = n /\ u < n
        /\ Linked(u, b.bmatched, b.bjump) # {} /\ t.output \in Seq(Words) /\ t.score \in Int
    <3>1. LinkOK(u, b.tr, b.bmatched, b.bjump, b.matched) /\ t.to = n
      BY DEF IInv, BackLinked
    <3>2. u \in States(graph) /\ b.tr \in DOMAIN graph.trans[u] /\ Linked(u, b.bmatched, b.bjump) # {}
      BY <3>1 DEF LinkOK
    <3>3. graph.trans[u][b.tr].to > u /\ graph.trans[u][b.tr].output \in Seq(Words)
          /\ graph.trans[u][b.tr].score \in Int
      <4> HIDE DEF u, b
      <4> QED
        BY <1>1, <3>2, TransFacts
    <3>4. u \in Nat
      BY <1>1, <3>2
    <3>5. QED
      BY <3>1, <3>2, <3>3, <3>4
  <2>3. PICK h \in DOMAIN back[u] : q = back[u][h] /\ q.matched = b.bmatched /\ q.jump = b.bjump
    <3>1. Held(q, back[u], b.bmatched, b.bjump)
      <4> DEFINE m == b.bmatched
                 j == b.bjump
      <4>1. u \in States(graph) /\ Linked(u, m, j) # {}
        BY <2>2
      <4> HIDE DEF u, m, j
      <4>2. Held(PathIn(back[u], m, j), back[u], m, j)
        BY <4>1, RecordedPath
      <4>3. QED
        BY <4>2 DEF m, j
    <3> HIDE DEF q, u, b
    <3>2. QED
      BY <3>1 DEF Held
  <2>4. /\ q.score \in Int /\ q.error \in Nat /\ b.bjump \in 0 .. 2
        /\ b.bmatched \in 0 .. Len(prefix) - 1
        /\ b.score \in Int /\ b.error \in Nat /\ b.jump \in 0 .. 2
        /\ b.matched \in 0 .. Len(prefix) - 1
    <3>1. /\ back[u][h].score \in Int /\ back[u][h].error \in Nat /\ back[u][h].jump \in 0 .. 2
          /\ back[u][h].matched \in 0 .. Len(prefix) - 1
      <4> HIDE DEF u
      <4> QED
        BY <1>3, <2>2, <2>3
    <3>2. /\ b.score \in Int /\ b.error \in Nat /\ b.jump \in 0 .. 2
          /\ b.matched \in 0 .. Len(prefix) - 1
      BY <1>3
    <3>3. QED
      BY <2>3, <3>1, <3>2
  <2>5. MadeBy(b, q, t, E)
    BY DEF HopefulExact
  <2>6. /\ JumpedWords[c] = JumpedWords[d] \o (IF b.jump = 1 THEN t.output ELSE << >>)
        /\ JumpedWords[d] \in Seq(Words)
    <3>1. c[1] = n /\ c[2] = b.matched /\ c[3] = b.jump
      OBVIOUS
    <3>2. Before(b) = d
      BY DEF Before
    <3>3. d \in Situations
      <4> HIDE DEF u, b
      <4>1. << u, b.bmatched, b.bjump >> \in Situations
        BY <2>2, RecordedPath
      <4>2. QED
        BY <4>1
    <3> HIDE DEF c, b, d
    <3>4. JumpedWords[c] = Grow(JumpedWords, c) /\ JumpedWords[d] \in Seq(Words)
      BY <2>1, <3>3, JumpedEquation
    <3>5. Lookup(c[1], c[2], c[3]) = b
      BY <2>1, <3>1
    <3>6. QED
      BY <3>1, <3>2, <3>4, <3>5, Zenon DEF Grow
  <2>7. Good(u)
    <3>1. u \in 0 .. n - 1
      <4> HIDE DEF u
      <4>1. u \in Nat
        BY <1>1, <2>2
      <4>2. QED
        BY <2>2, <4>1
    <3>2. u \in S
      BY <1>6, <3>1
    <3> HIDE DEF Good, u
    <3>3. QED
      BY <2>2, <3>2
  <2>8. Hopeful(graph, u, q, top)
    <3>1. \E e \in Nat : b.score = q.score + t.score /\ b.error = q.error + e
      <4>1. \A y \in DOMAIN E : E[y].error \in Nat
        <5> HIDE DEF u, b
        <5> QED
          BY <1>1, <1>2, <2>2, <2>4, MatchFacts
      <4>2. (IF b.bjump = 0 THEN 1 ELSE 0) \in Nat
        OBVIOUS
      <4> HIDE DEF q, t, E, b
      <4>3. QED
        BY <2>5, <4>1, <4>2 DEF MadeBy
    <3>2. graph.fscore[t.to] + Worth(b.score, b.error) >= top
      BY <2>2 DEF Hopeful
    <3> DEFINE k == b.tr
               qs == q.score
               qe == q.error
               bs == b.score
               be == b.error
    <3>3. u \in States(graph) /\ k \in DOMAIN graph.trans[u] /\ qs \in Int /\ qe \in Int
          /\ graph.fscore[graph.trans[u][k].to] + Worth(bs, be) >= top
      <4>1. qs \in Int /\ qe \in Int
        BY <2>4
      <4>2. u \in States(graph) /\ k \in DOMAIN graph.trans[u]
        BY <2>2
      <4>3. graph.fscore[graph.trans[u][k].to] + Worth(bs, be) >= top
        BY <3>2, Zenon
      <4>4. QED
        BY <4>1, <4>2, <4>3, Zenon
    <3>4. PICK e \in Nat : bs = qs + graph.trans[u][k].score /\ be = qe + e
      BY <3>1
    <3> HIDE DEF k, qs, qe, u, bs, be
    <3>5. graph.fscore[u] + Worth(qs, qe) >= top
      BY <1>1, <3>3, <3>4, HopefulBefore
    <3>6. QED
      BY <3>5 DEF Hopeful, qs, qe
  (* A way on from where the path was before leads back to the beginning.   *)
  <2>9. ASSUME NEW x \in AW[d]
        PROVE  \E v \in AW[<< 0, 0, 0 >>] : Continues(v, q.score, q.error, JumpedWords[d], x)
    <3>1. x \in AW[<< u, back[u][h].matched, back[u][h].jump >>]
      BY <2>3, <2>9
    <3>2. \E v \in AW[<< 0, 0, 0 >>] :
            Continues(v, back[u][h].score, back[u][h].error,
                      JumpedWords[<< u, back[u][h].matched, back[u][h].jump >>], x)
      <4>1. Hopeful(graph, u, back[u][h], top)
        BY <2>3, <2>8
      <4> HIDE DEF u, b
      <4>2. QED
        BY <2>3, <2>7, <3>1, <4>1
    <3>3. /\ back[u][h].score = q.score /\ back[u][h].error = q.error
          /\ << u, back[u][h].matched, back[u][h].jump >> = d
      BY <2>3
    <3> HIDE DEF d, q
    <3>4. QED
      BY <3>2, <3>3
  <2>10. w.score \in Int /\ w.error \in Nat /\ w.jumped \in Seq(Words) /\ w \in WayType(graph, r, partial)
    <3>1. w \in AW[<< n, b.matched, b.jump >>] /\ n \in States(graph)
      OBVIOUS
    <3> HIDE DEF b
    <3> QED
      BY <1>4, <2>4, <3>1, Zenon
  (* Over a phrase that was jumped over. *)
  <2>11. ASSUME b.jump = 1, b.bjump # 2, b.matched = b.bmatched,
                b.error = q.error + (IF b.bjump = 0 THEN 1 ELSE 0)
         PROVE  \E v \in AW[<< 0, 0, 0 >>] :
                  Continues(v, b.score, b.error, JumpedWords[c], w)
    <3> DEFINE e == IF b.bjump = 0 THEN 1 ELSE 0
               x == Promise!Jumped(w, t, e)
    <3>1. x \in AW[d]
      <4>1. w \in AW[<< t.to, b.bmatched, 1 >>]
        BY <2>2, <2>11
      <4>2. Kinds(graph, r, partial, AW, u, b.bmatched, b.bjump, b.tr, x)
        BY <2>11, <4>1, Zenon DEF Kinds
      <4> HIDE DEF u, b, x
      <4>3. x \in AW[<< u, b.bmatched, b.bjump >>]
        BY <1>4, <2>2, <2>4, <4>2, Zenon
      <4>4. QED
        BY <4>3
    <3>2. PICK v \in AW[<< 0, 0, 0 >>] : Continues(v, q.score, q.error, JumpedWords[d], x)
      <4> HIDE DEF x, d, q
      <4> QED
        BY <2>9, <3>1
    <3>3. /\ x.score = w.score + t.score /\ x.error = w.error + e /\ x.last = w.last
          /\ x.suffix = w.suffix /\ x.jumped = t.output \o w.jumped
      BY Zenon DEF Promise!Jumped
    <3>4. b.score = q.score + t.score /\ b.error = q.error + e
      BY <2>5, <2>11 DEF MadeBy
    <3>5. JumpedWords[c] = JumpedWords[d] \o t.output
      BY <2>6, <2>11, Zenon
    <3> DEFINE qs == q.score
               qe == q.error
               ws == w.score
               we == w.error
               ts == t.score
               jd == JumpedWords[d]
               o  == t.output
               wj == w.jumped
    <3>6. /\ qs \in Int /\ qe \in Nat /\ ws \in Int /\ we \in Nat /\ ts \in Int /\ e \in Nat
          /\ jd \in Seq(Words) /\ o \in Seq(Words) /\ wj \in Seq(Words)
      BY <2>2, <2>4, <2>6, <2>10, Zenon
    <3>7. /\ v.score = qs + (ws + ts) /\ v.error = qe + (we + e) /\ v.jumped = jd \o (o \o wj)
          /\ v.last = w.last /\ v.suffix = w.suffix
      BY <3>2, <3>3, Zenon DEF Continues
    <3>8. b.score = qs + ts /\ b.error = qe + e /\ JumpedWords[c] = jd \o o
      BY <3>4, <3>5, Zenon
    <3>9. v.score = b.score + ws /\ v.error = b.error + we /\ v.jumped = JumpedWords[c] \o wj
      <4> HIDE DEF qs, qe, ws, we, ts, jd, o, wj, b, c, e
      <4>1. (jd \o o) \o wj = jd \o (o \o wj)
        BY <3>6, Joined, SMTT(30)
      <4>2. qs + (ws + ts) = (qs + ts) + ws /\ qe + (we + e) = (qe + e) + we
        BY <3>6
      <4>3. QED
        BY <3>7, <3>8, <4>1, <4>2
    <3>10. QED
      BY <3>7, <3>9, Zenon DEF Continues
  (* Over a phrase that matched. *)
  <2>12. ASSUME NEW y \in DOMAIN E, b.matched = E[y].pm, b.error = q.error + E[y].error,
                b.jump = IF b.bjump = 0 THEN 0 ELSE 2
         PROVE  \E v \in AW[<< 0, 0, 0 >>] :
                  Continues(v, b.score, b.error, JumpedWords[c], w)
    <3> DEFINE e == E[y].error
               x == Promise!Matched(w, t, e)
    <3>1. x \in AW[d]
      <4>1. E[y].pm # Len(prefix)
        <5>1. b.matched # Len(prefix)
          <6> DEFINE m == b.matched
          <6>1. m \in 0 .. Len(prefix) - 1 /\ Len(prefix) \in Nat
            BY <2>4 DEF IInv, TypeOK
          <6> HIDE DEF m
          <6>2. m # Len(prefix)
            BY <6>1
          <6>3. QED
            BY <6>2 DEF m
        <5>2. QED
          BY <2>12, <5>1, Zenon
      <4>2. w \in AW[<< t.to, E[y].pm, IF b.bjump = 0 THEN 0 ELSE 2 >>]
        <5>1. w \in AW[<< n, b.matched, b.jump >>] /\ t.to = n
          BY <2>2
        <5> HIDE DEF t, E, b
        <5>2. QED
          BY <2>12, <5>1
      <4>3. Kinds(graph, r, partial, AW, u, b.bmatched, b.bjump, b.tr, x)
        BY <1>2, <4>1, <4>2, Zenon DEF Kinds
      <4> HIDE DEF u, b, x
      <4>4. x \in AW[<< u, b.bmatched, b.bjump >>]
        BY <1>4, <2>2, <2>4, <4>3
      <4>5. QED
        BY <4>4
    <3>2. PICK v \in AW[<< 0, 0, 0 >>] : Continues(v, q.score, q.error, JumpedWords[d], x)
      <4> HIDE DEF x, d, q
      <4> QED
        BY <2>9, <3>1
    <3>3. /\ x.score = w.score + t.score /\ x.error = w.error + e /\ x.last = w.last
          /\ x.suffix = w.suffix /\ x.jumped = w.jumped
      BY DEF Promise!Matched
    <3>4. b.score = q.score + t.score /\ b.error = q.error + e
      BY <2>5, <2>12, Zenon DEF MadeBy
    <3>5. JumpedWords[c] = JumpedWords[d]
      <4>1. b.jump # 1
        <5> HIDE DEF b, E, q
        <5> QED
          BY <2>12
      <4>2. JumpedWords[c] = JumpedWords[d] \o << >>
        BY <2>6, <4>1, Zenon
      <4> HIDE DEF c, d
      <4>3. QED
        BY <2>6, <4>2, Joined, Zenon
    <3> DEFINE qs == q.score
               qe == q.error
               ws == w.score
               we == w.error
               ts == t.score
               jd == JumpedWords[d]
               wj == w.jumped
    <3>6. /\ qs \in Int /\ qe \in Nat /\ ws \in Int /\ we \in Nat /\ ts \in Int /\ e \in Nat
      <4>1. e \in Nat
        <5>1. E = EditMatches(r.tokens, b.bmatched, graph.trans[u][b.tr].output, partial, r.space)
          BY <1>2
        <5>2. b.bmatched \in 0 .. Len(r.tokens) - 1
          BY <1>2, <2>4
        <5> HIDE DEF u, b
        <5>3. \A z \in DOMAIN EditMatches(r.tokens, b.bmatched, graph.trans[u][b.tr].output, partial, r.space) :
                EditMatches(r.tokens, b.bmatched, graph.trans[u][b.tr].output, partial, r.space)[z].error \in Nat
          BY <1>1, <2>2, <5>2, MatchFacts, Zenon
        <5> HIDE DEF E
        <5>4. QED
          BY <2>12, <5>1, <5>3
      <4>2. QED
        BY <2>2, <2>4, <2>10, <4>1, Zenon
    <3>7. /\ v.score = qs + (ws + ts) /\ v.error = qe + (we + e) /\ v.jumped = jd \o wj
          /\ v.last = w.last /\ v.suffix = w.suffix
      BY <3>2, <3>3, Zenon DEF Continues
    <3>8. b.score = qs + ts /\ b.error = qe + e /\ JumpedWords[c] = jd
      BY <3>4, <3>5
    <3>9. v.score = b.score + ws /\ v.error = b.error + we /\ v.jumped = JumpedWords[c] \o wj
      <4> HIDE DEF qs, qe, ws, we, ts, jd, wj, b, c, e
      <4>1. qs + (ws + ts) = (qs + ts) + ws /\ qe + (we + e) = (qe + e) + we
        BY <3>6
      <4>2. QED
        BY <3>7, <3>8, <4>1
    <3>10. QED
      BY <3>7, <3>9, Zenon DEF Continues
  <2>13. QED
    <3>1. \/ /\ b.jump = 1 /\ b.bjump # 2 /\ b.matched = b.bmatched
             /\ b.error = q.error + (IF b.bjump = 0 THEN 1 ELSE 0)
          \/ \E y \in DOMAIN E :
               /\ b.matched = E[y].pm /\ b.error = q.error + E[y].error
               /\ b.jump = IF b.bjump = 0 THEN 0 ELSE 2
      BY <2>5, Zenon DEF MadeBy
    <3> HIDE DEF E, q, b, c
    <3>2. \E v \in AW[<< 0, 0, 0 >>] : Continues(v, b.score, b.error, JumpedWords[c], w)
      BY <2>11, <2>12, <3>1
    <3>3. QED
      BY <3>2 DEF b, c
<1>7. \A n \in Nat : n \in S
  <2> HIDE DEF S
  <2> QED
    BY <1>6, StrongInduction
<1>8. \A s \in States(graph) : Good(s)
  <2> HIDE DEF Good
  <2> QED
    BY <1>1, <1>7
<1>9. QED
  BY <1>8

(* The words at and after the end of the prefix, for a completion. *)
EndOf(c) ==
  LET t == graph.trans[c.from][c.tr]
  IN  [last |-> t.output[c.tm],
       suffix |-> SubSeq(t.output, c.tm + 1, Len(t.output)) \o Promise!ForwardWords(graph)[t.to]]

(* So every completion that is worth top is a way. *)
LEMMA EndsAreWays ==
  ASSUME IInv, Exact, Searching, NEW top \in Int, HopefulExact(top), NEW e \in DOMAIN best,
         Worth(best[e].score, e) >= top \/ top = MinScore
  PROVE  \E v \in AW[<< 0, 0, 0 >>] :
           /\ v.score = best[e].score /\ v.error = e
           /\ v.last = EndOf(best[e]).last /\ v.suffix = EndOf(best[e]).suffix
           /\ v.jumped = JumpedWords[<< best[e].from, best[e].bmatched, best[e].bjump >>]
<1> DEFINE c == best[e]
           u == c.from
           m == c.bmatched
           j == c.bjump
           q == PathIn(back[u], m, j)
           t == graph.trans[u][c.tr]
           E == EditMatches(prefix, m, t.output, partial, space)
<1>1. /\ graph \in Graphs /\ partial \in SUBSET Words
      /\ back \in [States(graph) -> Seq(BackType(graph))]
  BY CurType DEF IInv, TypeOK
<1>2. PICK r \in Requests : r.tokens = prefix /\ r.space = space /\ AW = WaysOf(graph, r, partial)
  BY RequestOf DEF Searching
<1>3. u \in States(graph) /\ c.tr \in DOMAIN graph.trans[u] /\ Linked(u, m, j) # {}
  <2>1. LinkOK(u, c.tr, m, j, Len(prefix))
    BY DEF IInv, BackLinked
  <2>2. QED
    BY <2>1 DEF LinkOK
<1>4. << u, m, j >> \in Situations /\ Held(q, back[u], m, j)
  <2> HIDE DEF u, m, j
  <2> QED
    BY <1>3, RecordedPath
<1>5. PICK h \in DOMAIN back[u] : q = back[u][h] /\ q.matched = m /\ q.jump = j
  <2> HIDE DEF q, u, m, j
  <2> QED
    BY <1>4 DEF Held
<1>6. JumpedWords[<< u, m, j >>] \in Seq(Words)
  <2> HIDE DEF u, m, j
  <2> QED
    BY <1>4, JumpedEquation
<1>7. m \in 0 .. Len(prefix) - 1 /\ j \in 0 .. 2 /\ q.score \in Int /\ q.error \in Nat
  <2>1. m \in 0 .. Len(prefix) - 1 /\ j \in 0 .. 2
    <3> HIDE DEF u, m, j
    <3> QED
      BY <1>4 DEF Situations
  <2>2. q \in BackType(graph)
    <3> HIDE DEF u, q
    <3> QED
      BY <1>1, <1>3, <1>5
  <2>3. QED
    BY <2>1, <2>2 DEF BackType
<1>8. CompletedBy(e, c, q, t, E, graph, prefix)
  BY DEF Exact, EndsExact
<1>9. PICK y \in DOMAIN E : E[y].pm = Len(prefix) /\ E[y].tm = c.tm /\ e = q.error + E[y].error
  BY <1>8, Zenon DEF CompletedBy
<1>10. c.score = q.score + t.score + graph.fscore[t.to]
  BY <1>8 DEF CompletedBy
<1>11. Hopeful(graph, u, q, top)
  <2>1. CASE top = MinScore
    BY <2>1 DEF Exact, EndsExact
  <2>2. CASE Worth(c.score, e) >= top
    <3> DEFINE k == c.tr
               qs == q.score
               qe == q.error
               cs == c.score
               d == E[y].error
               T == graph.trans[u][k]
    <3>1. d \in Nat
      <4>1. m \in 0 .. Len(r.tokens) - 1
        BY <1>2, <1>7
      <4> HIDE DEF u, m, c
      <4>2. QED
        BY <1>1, <1>2, <1>3, <1>9, <4>1, MatchFacts, Zenon
    <3>2. cs = qs + T.score + graph.fscore[T.to] /\ Worth(cs, qe + d) >= top
          /\ u \in States(graph) /\ k \in DOMAIN graph.trans[u] /\ qs \in Int /\ qe \in Int
      <4>1. Worth(cs, e) >= top /\ e = qe + d
        BY <1>9, <2>2
      <4>2. cs = qs + T.score + graph.fscore[T.to]
        BY <1>10
      <4>3. u \in States(graph) /\ k \in DOMAIN graph.trans[u]
        BY <1>3
      <4>4. qs \in Int /\ qe \in Int
        BY <1>7
      <4> HIDE DEF k, qs, qe, cs, d, u, T
      <4>5. QED
        BY <4>1, <4>2, <4>3, <4>4
    <3> HIDE DEF k, qs, qe, cs, d, u
    <3> DEFINE a == qs + T.score
               f == graph.fscore[T.to]
               x == qe + d
    <3>3. T.score \in Int /\ f \in Int
      BY <1>1, <3>2, TransFacts
    <3>4. a \in Int /\ x \in Int
      <4> HIDE DEF T
      <4> QED
        BY <3>1, <3>2, <3>3
    <3>5. cs = a + f /\ Worth(cs, x) >= top
      BY <3>2
    <3>6. f + Worth(a, x) >= top
      <4> HIDE DEF a, f, x
      <4>1. ErrorWeight * x \in Int
        BY <3>4, NumbersAssumption
      <4>2. f + Worth(a, x) = Worth(cs, x)
        BY <3>3, <3>4, <3>5, <4>1 DEF Worth
      <4>3. QED
        BY <3>5, <4>2
    <3>7. graph.fscore[T.to] + Worth(qs + T.score, qe + d) >= top
      BY <3>6
    <3>8. graph.fscore[u] + Worth(qs, qe) >= top
      BY <1>1, <3>1, <3>2, <3>7, HopefulBefore
    <3>9. QED
      BY <3>8 DEF Hopeful, qs, qe
  <2>3. QED
    BY <2>1, <2>2
<1> DEFINE w == Promise!Completion(graph, t, E[y])
<1>12. w \in AW[<< u, m, j >>] /\ w \in WayType(graph, r, partial)
  <2>1. Kinds(graph, r, partial, AW, u, m, j, c.tr, w)
    BY <1>2, <1>9, Zenon DEF Kinds
  <2>2. m \in 0 .. Len(r.tokens) - 1
    BY <1>2, <1>7
  <2> HIDE DEF u, m, j, c, w
  <2>3. QED
    BY <1>1, <1>2, <1>3, <1>7, <2>1, <2>2, WayKinds
<1>13. PICK v \in AW[<< 0, 0, 0 >>] :
         Continues(v, q.score, q.error, JumpedWords[<< u, m, j >>], w)
  <2>1. w \in AW[<< u, back[u][h].matched, back[u][h].jump >>]
    BY <1>5, <1>12
  <2>2. \E v \in AW[<< 0, 0, 0 >>] :
          Continues(v, back[u][h].score, back[u][h].error,
                    JumpedWords[<< u, back[u][h].matched, back[u][h].jump >>], w)
    <3>1. Hopeful(graph, u, back[u][h], top)
      BY <1>5, <1>11
    <3> HIDE DEF u, w
    <3>2. QED
      BY <1>3, <1>5, <2>1, <3>1, PathsAreWays
  <2>3. /\ back[u][h].score = q.score /\ back[u][h].error = q.error
        /\ << u, back[u][h].matched, back[u][h].jump >> = << u, m, j >>
    BY <1>5
  <2> HIDE DEF w, q, u, m, j
  <2>4. QED
    BY <2>2, <2>3
<1>14. /\ w.score = t.score + graph.fscore[t.to] /\ w.error = E[y].error /\ w.jumped = << >>
       /\ w.last = EndOf(c).last /\ w.suffix = EndOf(c).suffix
  BY <1>9, Zenon DEF Promise!Completion, EndOf
<1>15. v.score = c.score
  <2> DEFINE qs == q.score
             ts == t.score
             f  == graph.fscore[t.to]
             cs == c.score
  <2>1. qs \in Int /\ ts \in Int /\ f \in Int
    <3>1. ts \in Int /\ f \in Int
      <4> HIDE DEF u, c
      <4> QED
        BY <1>1, <1>3, TransFacts
    <3>2. QED
      BY <1>7, <3>1
  <2>2. v.score = qs + (ts + f) /\ cs = qs + ts + f
    BY <1>10, <1>13, <1>14 DEF Continues
  <2> HIDE DEF qs, ts, f, cs
  <2>3. v.score = cs
    BY <2>1, <2>2
  <2>4. QED
    BY <2>3 DEF cs
<1>16. v.error = e
  BY <1>9, <1>13, <1>14 DEF Continues
<1>17. v.jumped = JumpedWords[<< u, m, j >>]
  <2>1. v.jumped = JumpedWords[<< u, m, j >>] \o << >>
    BY <1>13, <1>14 DEF Continues
  <2> HIDE DEF u, m, j
  <2>2. QED
    BY <1>6, <2>1, Joined
<1>18. v.last = EndOf(c).last /\ v.suffix = EndOf(c).suffix
  BY <1>13, <1>14 DEF Continues
<1>19. QED
  BY <1>15, <1>16, <1>17, <1>18

-------------------------------------------------------------------------
(* The end of the search. *)

LEMMA SameForward == Promise!ForwardWords(graph) = ForwardWords(graph)
BY DEF Promise!ForwardWords, ForwardWords, Promise!BestForward, BestForward,
       Promise!States, States

(* No way through the graph is worth more than what the search found.      *)
LEMMA BestIsTop ==
  ASSUME IInv, SInv, Searching, jumpLenThreshold >= graph.n, cur.st = graph.n,
         NEW w \in AW[<< 0, 0, 0 >>]
  PROVE  /\ w.score \in Int /\ w.error \in Nat
         /\ MinScore < Worth(w.score, w.error) /\ Worth(w.score, w.error) <= bestScore
<1>1. /\ graph \in Graphs /\ partial \in SUBSET Words /\ 0 \in States(graph)
      /\ back \in [States(graph) -> Seq(BackType(graph))]
  BY CurType, Cleared DEF IInv, TypeOK
<1>2. PICK r \in Requests : r.tokens = prefix /\ r.space = space /\ AW = WaysOf(graph, r, partial)
  BY RequestOf DEF Searching
<1>3. w.score \in Int /\ w.error \in Nat
  <2>1. 0 \in 0 .. Len(r.tokens) - 1 /\ 0 \in 0 .. 2
    BY Tokens
  <2>2. w \in WayType(graph, r, partial)
    BY <1>1, <1>2, <2>1, WayKinds
  <2>3. QED
    BY <2>2, WayFields
<1>4. 1 \in DOMAIN back[0] /\ back[0][1] = InitialBack
  <2>1. back[0] \in Seq(BackType(graph)) /\ back[0] # << >>
    BY <1>1 DEF SInv, Begun
  <2>2. 1 \in DOMAIN back[0]
    BY <2>1
  <2>3. QED
    BY <1>1, <2>2 DEF IInv, BackLinked
<1>5. /\ back[0][1].score = 0 /\ back[0][1].error = 0
      /\ back[0][1].matched = 0 /\ back[0][1].jump = 0
  BY <1>4 DEF InitialBack
<1>6. Worth(0, 0) + Worth(w.score, w.error) <= bestScore
  <2> DEFINE b == back[0][1]
  <2>1. \A v \in AW[<< 0, b.matched, b.jump >>] :
          Worth(b.score, b.error) + Worth(v.score, v.error) <= bestScore
    BY <1>1, <1>4, NothingBetter
  <2> HIDE DEF b
  <2>2. b.score = 0 /\ b.error = 0 /\ b.matched = 0 /\ b.jump = 0
    BY <1>5 DEF b
  <2>3. QED
    BY <2>1, <2>2
<1>7. Worth(0, 0) = 0 /\ Worth(w.score, w.error) \in Int
  <2>1. Worth(0, 0) = 0
    BY NumbersAssumption DEF Worth
  <2> DEFINE x == w.score
             y == w.error
  <2>2. x \in Int /\ y \in Int
    BY <1>3
  <2> HIDE DEF x, y
  <2>3. Worth(x, y) \in Int
    BY <2>2, WorthAdds
  <2>4. QED
    BY <2>1, <2>3 DEF x, y
<1>8. Promise!Worth(w) > MinScore
  <2>1. AW[<< 0, 0, 0 >>] = Promise!Ways(graph, r.tokens, r.space, partial)
    BY <1>2 DEF Promise!Ways, WaysOf
  <2>2. QED
    BY <1>1, <2>1, MinScoreAssumption
<1>9. Promise!Worth(w) = Worth(w.score, w.error) /\ bestScore \in Int /\ MinScore \in Int
  BY NumbersAssumption DEF Promise!Worth, Worth, IInv, TypeOK
<1>10. QED
  <2> DEFINE W == Worth(w.score, w.error)
  <2>1. W \in Int /\ 0 + W <= bestScore /\ W > MinScore
    BY <1>6, <1>7, <1>8, <1>9
  <2> HIDE DEF W
  <2>2. W <= bestScore /\ MinScore < W
    BY <1>9, <2>1
  <2>3. QED
    BY <1>3, <2>2 DEF W

(* A search that finds no completion had none to find. *)
LEMMA NoneFound ==
  ASSUME IInv, SInv, Searching, jumpLenThreshold >= graph.n, cur.st = graph.n, best = << >>
  PROVE  AW[<< 0, 0, 0 >>] = {}
<1>1. DOMAIN best = {}
  BY NoCompletions
<1>2. bestScore = MinScore /\ MinScore \in Int
  BY <1>1, NumbersAssumption DEF SInv, Topped
<1>3. ASSUME NEW w \in AW[<< 0, 0, 0 >>] PROVE FALSE
  <2> DEFINE W == Worth(w.score, w.error)
  <2>1. MinScore < W /\ W <= bestScore /\ W \in Int
    <3>1. MinScore < W /\ W <= bestScore /\ w.score \in Int /\ w.error \in Nat
      BY BestIsTop
    <3>2. W \in Int
      <4> DEFINE x == w.score
                 y == w.error
      <4>1. x \in Int /\ y \in Int
        BY <3>1
      <4> HIDE DEF x, y
      <4>2. Worth(x, y) \in Int
        BY <4>1, WorthAdds
      <4>3. QED
        BY <4>2 DEF x, y
    <3>3. QED
      BY <3>1, <3>2
  <2> HIDE DEF W
  <2>2. QED
    BY <1>2, <2>1
<1>4. QED
  BY <1>3

(* The completion that getPrefix settles for is worth most. *)
LEMMA BestChosen ==
  ASSUME IInv, SInv, Searching, jumpLenThreshold >= graph.n, cur.st = graph.n, best # << >>,
         HopefulExact(bestScore)
  PROVE  /\ BestError \in DOMAIN best
         /\ Worth(best[BestError].score, BestError) = bestScore
<1>1. DOMAIN best \subseteq Nat /\ best \in [DOMAIN best -> BestType(graph)] /\ bestScore \in Int
  BY DEF IInv, TypeOK
<1>2. \A e \in DOMAIN best : Worth(best[e].score, e) \in Int
  <2>1. \A e \in DOMAIN best : best[e].score \in Int /\ e \in Int
    BY <1>1 DEF BestType
  <2>2. QED
    BY <2>1, WorthAdds
<1>3. PICK f \in DOMAIN best : TRUE
  <2>1. DOMAIN best # {}
    <3>1. best = [x \in DOMAIN best |-> best[x]]
      BY <1>1
    <3>2. ASSUME DOMAIN best = {} PROVE best = << >>
      BY <3>1, <3>2
    <3>3. QED
      BY <3>2
  <2>2. QED
    BY <2>1
<1>4. bestScore # MinScore
  <2> SUFFICES ASSUME bestScore = MinScore PROVE FALSE
    OBVIOUS
  <2>1. PICK v \in AW[<< 0, 0, 0 >>] : v.score = best[f].score /\ v.error = f
    BY <1>1, EndsAreWays DEF SInv
  <2>2. MinScore < Worth(v.score, v.error) /\ Worth(v.score, v.error) <= bestScore
    BY BestIsTop
  <2>3. Worth(v.score, v.error) = Worth(best[f].score, f)
    BY <2>1
  <2>4. Worth(v.score, v.error) \in Int
    BY <1>2, <2>3
  <2> DEFINE W == Worth(v.score, v.error)
  <2> HIDE DEF W
  <2>5. W \in Int /\ MinScore < W /\ W <= bestScore /\ MinScore \in Int
    BY <2>2, <2>4, NumbersAssumption DEF W
  <2>6. QED
    BY <1>1, <2>5
<1>5. PICK e \in DOMAIN best : bestScore = Worth(best[e].score, e)
  BY <1>4 DEF SInv, Topped
<1>6. \A g \in DOMAIN best : Worth(best[g].score, g) <= bestScore
  BY DEF SInv, Topped
<1>7. e \in BestErrors
  BY <1>5, <1>6 DEF BestErrors
<1>8. BestError \in BestErrors
  <2>1. BestErrors \subseteq Nat /\ BestErrors # {}
    BY <1>1, <1>7 DEF BestErrors
  <2>2. \E x \in BestErrors : \A y \in BestErrors : x <= y
    BY <2>1, MinIn
  <2>3. QED
    BY <2>2 DEF BestError
<1>9. BestError \in DOMAIN best /\ Worth(best[e].score, e) <= Worth(best[BestError].score, BestError)
  BY <1>8 DEF BestErrors
<1>10. QED
  <2> DEFINE W == Worth(best[BestError].score, BestError)
  <2>1. W \in Int /\ W <= bestScore /\ bestScore <= W
    BY <1>2, <1>5, <1>6, <1>9
  <2> HIDE DEF W
  <2>2. W = bestScore
    BY <1>1, <2>1
  <2>3. QED
    BY <1>9, <2>2 DEF W

(* Its suggestion is one for a best way. *)
LEMMA BestSuggested ==
  ASSUME IInv, SInv, Searching, jumpLenThreshold >= graph.n, cur.st = graph.n, best # << >>,
         HopefulExact(bestScore)
  PROVE  /\ AW[<< 0, 0, 0 >>] # {}
         /\ \E v \in Promise!BestWays(AW[<< 0, 0, 0 >>]) :
              Suggestions(best[BestError], BestError) = Promise!Suggestions(v, space, partial)
<1> DEFINE e == BestError
           c == best[e]
<1>1. e \in DOMAIN best /\ Worth(c.score, e) = bestScore
  BY BestChosen
<1>2. PICK v \in AW[<< 0, 0, 0 >>] :
           /\ v.score = c.score /\ v.error = e
           /\ v.last = EndOf(c).last /\ v.suffix = EndOf(c).suffix
           /\ v.jumped = JumpedWords[<< c.from, c.bmatched, c.bjump >>]
  <2>1. bestScore \in Int
    BY DEF IInv, TypeOK
  <2>2. Worth(c.score, e) >= bestScore
    <3> HIDE DEF c
    <3> QED
      BY <1>1, <2>1
  <2> HIDE DEF e
  <2>3. QED
    BY <1>1, <2>1, <2>2, EndsAreWays DEF SInv
<1>3. \A w \in AW[<< 0, 0, 0 >>] : Promise!Worth(w) <= Promise!Worth(v)
  <2>1. \A w : Promise!Worth(w) = Worth(w.score, w.error)
    BY DEF Promise!Worth, Worth
  <2>2. Promise!Worth(v) = bestScore
    BY <1>1, <1>2, <2>1
  <2>3. QED
    BY <2>1, <2>2, BestIsTop
<1>4. v \in Promise!BestWays(AW[<< 0, 0, 0 >>])
  BY <1>3 DEF Promise!BestWays
<1>5. Suggestions(c, e) = Promise!Suggestions(v, space, partial)
  <2> DEFINE t      == graph.trans[c.from][c.tr]
             suffix == SubSeq(t.output, c.tm + 1, Len(t.output)) \o ForwardWords(graph)[t.to]
             jumped == JumpedWords[<< c.from, c.bmatched, c.bjump >>]
             last   == t.output[c.tm]
             score  == c.score
  <2>1. v.suffix = suffix /\ v.jumped = jumped /\ v.last = last /\ v.score = score /\ v.error = e
    BY <1>2, SameForward, Zenon DEF EndOf
  <2>2. Suggestions(c, e) =
          { [found |-> TRUE, score |-> score, error |-> e,
             completes |-> IF ~space /\ last \in partial THEN {last} ELSE {},
             words |-> w] : w \in { suffix \o jumped, jumped \o suffix } }
    BY DEF Suggestions
  <2>3. Promise!Suggestions(v, space, partial) =
          { [found |-> TRUE, score |-> v.score, error |-> v.error,
             completes |-> IF ~space /\ v.last \in partial THEN {v.last} ELSE {},
             words |-> w] : w \in { v.suffix \o v.jumped, v.jumped \o v.suffix } }
    BY DEF Promise!Suggestions
  <2> HIDE DEF suffix, jumped, last, score, e, c
  <2>4. QED
    BY <2>1, <2>2, <2>3
<1>6. QED
  BY <1>4, <1>5

-------------------------------------------------------------------------
(* What a failed search has left.  A search that comes after it goes over  *)
(* the paths again, and replaces those worth the same that were made of a   *)
(* phrase that matched; those made by jumping stay, also when what they     *)
(* were made of is replaced.  That they are exact nevertheless when the     *)
(* loop reaches them has a reason that spans two searches: whatever is     *)
(* recorded for a situation was the last offer of its worth, and the new    *)
(* search makes the same offers in the same order, so that in the end the   *)
(* old path is back.                                                       *)

(* What a request asks. *)
Asked == [tokens |-> prefix, space |-> space, part |-> partial]

IsAsked(a) ==
  \E r \in Requests : \E part \in SUBSET Words :
    a.tokens = r.tokens /\ a.space = r.space /\ a.part = part

Finds(g, a, s, b, k) ==
  EditMatches(a.tokens, b.matched, g.trans[s][k].output, a.part, a.space)

Made(g, s, b, k, error, matched, jump) ==
  [score |-> b.score + g.trans[s][k].score, error |-> b.error + error,
   matched |-> matched, bstate |-> s, bmatched |-> b.matched,
   tr |-> k, jump |-> jump, bjump |-> b.jump, njumps |-> b.njumps + 1]

(* The loop makes new of path b to state s when it comes to match y of      *)
(* transition k (0: the jump).                                             *)
Offers(g, a, s, b, k, y, new) ==
  \/ /\ y = 0 /\ b.jump # 2
     /\ new = Made(g, s, b, k, IF b.jump = 0 THEN 1 ELSE 0, b.matched, 1)
  \/ /\ y # 0 /\ y \in DOMAIN Finds(g, a, s, b, k)
     /\ Finds(g, a, s, b, k)[y].pm < Len(a.tokens)
     /\ new = Made(g, s, b, k, Finds(g, a, s, b, k)[y].error, Finds(g, a, s, b, k)[y].pm,
                   IF b.jump = 0 THEN 0 ELSE 2)

Val(b) == Worth(b.score, b.error)

LEMMA OfferFacts ==
  ASSUME NEW g \in Graphs, NEW a, IsAsked(a), NEW s \in States(g), NEW b \in BackType(g),
         b.matched < Len(a.tokens), NEW k \in DOMAIN g.trans[s], NEW y, NEW new,
         Offers(g, a, s, b, k, y, new)
  PROVE  /\ new.bstate = s /\ new.tr = k /\ new.bmatched = b.matched /\ new.bjump = b.jump
         /\ new.matched \in b.matched .. Len(a.tokens) - 1
         /\ Shape(new) /\ Val(new) \in Int /\ y \in Nat
         /\ \A top \in Int : Hopeful(g, g.trans[s][k].to, new, top) => Hopeful(g, s, b, top)
<1>1. PICK r \in Requests, part \in SUBSET Words :
        a.tokens = r.tokens /\ a.space = r.space /\ a.part = part
  BY DEF IsAsked
<1>2. b.score \in Int /\ b.error \in Nat /\ b.matched \in Nat /\ Len(a.tokens) \in Nat
  BY <1>1, Tokens DEF BackType
<1> DEFINE E == Finds(g, a, s, b, k)
<1>3. b.matched \in 0 .. Len(a.tokens) - 1
  BY <1>2
<1>4. \A z \in DOMAIN E : E[z].error \in Nat /\ E[z].pm \in b.matched + 1 .. Len(a.tokens)
  BY <1>1, <1>3, MatchFacts DEF Finds
<1>5. \A z \in DOMAIN E : z \in Nat
  <2>1. E \in Seq(MatchType(a.tokens, b.matched, g.trans[s][k].output))
    BY <1>1, <1>3, MatchesAssumption DEF Finds
  <2> DEFINE M == MatchType(a.tokens, b.matched, g.trans[s][k].output)
  <2> HIDE DEF E, M
  <2>2. QED
    BY <2>1 DEF M
<1>6. PICK e \in Nat, m \in b.matched .. Len(a.tokens) - 1, j \in 0 .. 2 :
        /\ new = Made(g, s, b, k, e, m, j) /\ y \in Nat
        /\ (j = 1 => m = b.matched) /\ (j # 1 => b.matched < m)
  <2>1. CASE y = 0 /\ b.jump # 2 /\ new = Made(g, s, b, k, IF b.jump = 0 THEN 1 ELSE 0, b.matched, 1)
    <3>1. (IF b.jump = 0 THEN 1 ELSE 0) \in Nat /\ b.matched \in b.matched .. Len(a.tokens) - 1
      BY <1>2
    <3>2. QED
      BY <2>1, <3>1
  <2>2. CASE /\ y # 0 /\ y \in DOMAIN E /\ E[y].pm < Len(a.tokens)
             /\ new = Made(g, s, b, k, E[y].error, E[y].pm, IF b.jump = 0 THEN 0 ELSE 2)
    <3> DEFINE m == E[y].pm
               j == IF b.jump = 0 THEN 0 ELSE 2
    <3>1. E[y].error \in Nat /\ m \in b.matched + 1 .. Len(a.tokens) /\ m < Len(a.tokens) /\ y \in Nat
      BY <1>4, <1>5, <2>2
    <3>2. j \in 0 .. 2 /\ j # 1
      OBVIOUS
    <3>3. new = Made(g, s, b, k, E[y].error, m, j)
      BY <2>2
    <3> HIDE DEF m, j
    <3>4. m \in b.matched .. Len(a.tokens) - 1 /\ b.matched < m
      BY <1>2, <3>1
    <3>5. QED
      BY <3>1, <3>2, <3>3, <3>4
  <2>3. QED
    BY <2>1, <2>2 DEF Offers
<1>7. /\ new.bstate = s /\ new.tr = k /\ new.bmatched = b.matched /\ new.bjump = b.jump
      /\ new.matched = m /\ new.jump = j
      /\ new.score = b.score + g.trans[s][k].score /\ new.error = b.error + e
  BY <1>6 DEF Made
<1>8. Shape(new)
  BY <1>6, <1>7 DEF Shape
<1> DEFINE x == b.score
           z == b.error
           t == g.trans[s][k].score
<1>9. x \in Int /\ z \in Int /\ t \in Int
  BY <1>2, TransFacts
<1>10. Val(new) = Worth(x + t, z + e)
  BY <1>7 DEF Val
<1>11. Val(new) \in Int
  <2> DEFINE u == x + t
             v == z + e
  <2> HIDE DEF x, z, t
  <2>1. u \in Int /\ v \in Int
    BY <1>6, <1>9
  <2> HIDE DEF u, v
  <2>2. Worth(u, v) \in Int
    BY <2>1, WorthAdds
  <2>3. QED
    BY <1>10, <2>2 DEF u, v
<1>12. ASSUME NEW top \in Int, Hopeful(g, g.trans[s][k].to, new, top)
       PROVE  Hopeful(g, s, b, top)
  <2>1. g.fscore[g.trans[s][k].to] + Worth(x + g.trans[s][k].score, z + e) >= top
    BY <1>10, <1>12 DEF Hopeful, Val
  <2> HIDE DEF x, z
  <2>2. g.fscore[s] + Worth(x, z) >= top
    BY <1>6, <1>9, <2>1, HopefulBefore
  <2>3. QED
    BY <2>2 DEF Hopeful, x, z
<1>13. QED
  BY <1>6, <1>7, <1>8, <1>11, <1>12

(* Of two paths for the same situation that are worth the same, the same    *)
(* is made, but for how score and errors share in its worth.               *)
LEMMA OfferSame ==
  ASSUME NEW g \in Graphs, NEW a, IsAsked(a), NEW s \in States(g),
         NEW b \in BackType(g), NEW c \in BackType(g), SameKey(b, c), Val(b) = Val(c),
         b.matched < Len(a.tokens), NEW k \in DOMAIN g.trans[s], NEW y, NEW new,
         Offers(g, a, s, b, k, y, new)
  PROVE  \E other : /\ Offers(g, a, s, c, k, y, other)
                    /\ SameKey(other, new) /\ Val(other) = Val(new)
<1>1. PICK r \in Requests, part \in SUBSET Words :
        a.tokens = r.tokens /\ a.space = r.space /\ a.part = part
  BY DEF IsAsked
<1>2. /\ b.score \in Int /\ b.error \in Int /\ b.matched \in Nat /\ Len(a.tokens) \in Nat
      /\ c.score \in Int /\ c.error \in Int /\ g.trans[s][k].score \in Int
  BY <1>1, Tokens, TransFacts DEF BackType
<1>3. b.matched \in 0 .. Len(a.tokens) - 1
  BY <1>2
<1>4. Finds(g, a, s, b, k) = Finds(g, a, s, c, k) /\ b.matched = c.matched /\ b.jump = c.jump
  BY DEF Finds, SameKey
<1> DEFINE E == Finds(g, a, s, b, k)
<1>5. \A z \in DOMAIN E : E[z].error \in Nat
  BY <1>1, <1>3, MatchFacts DEF Finds
<1>6. ASSUME NEW e \in Nat, NEW m, NEW j
      PROVE  /\ SameKey(Made(g, s, c, k, e, m, j), Made(g, s, b, k, e, m, j))
             /\ Val(Made(g, s, c, k, e, m, j)) = Val(Made(g, s, b, k, e, m, j))
  <2>1. SameKey(Made(g, s, c, k, e, m, j), Made(g, s, b, k, e, m, j))
    BY DEF SameKey, Made
  <2> DEFINE x == b.score
             z == b.error
             u == c.score
             v == c.error
             t == g.trans[s][k].score
  <2>2. x \in Int /\ z \in Int /\ u \in Int /\ v \in Int /\ t \in Int /\ e \in Int
    BY <1>2
  <2>3. Worth(x, z) = Worth(u, v)
    BY DEF Val
  <2>4. Val(Made(g, s, c, k, e, m, j)) = Worth(u + t, v + e)
        /\ Val(Made(g, s, b, k, e, m, j)) = Worth(x + t, z + e)
    BY DEF Val, Made
  <2> HIDE DEF x, z, u, v, t
  <2>5. Worth(u + t, v + e) = Worth(u, v) + Worth(t, e)
    BY <2>2, WorthAdds
  <2>6. Worth(x + t, z + e) = Worth(x, z) + Worth(t, e)
    BY <2>2, WorthAdds
  <2>7. QED
    BY <2>1, <2>3, <2>4, <2>5, <2>6
<1>7. CASE y = 0 /\ b.jump # 2 /\ new = Made(g, s, b, k, IF b.jump = 0 THEN 1 ELSE 0, b.matched, 1)
  <2> DEFINE e == IF b.jump = 0 THEN 1 ELSE 0
             other == Made(g, s, c, k, e, b.matched, 1)
  <2>1. SameKey(other, new) /\ Val(other) = Val(new)
    <3>1. e \in Nat /\ new = Made(g, s, b, k, e, b.matched, 1)
      BY <1>7
    <3> HIDE DEF e
    <3>2. QED
      BY <1>6, <3>1
  <2>2. Offers(g, a, s, c, k, y, other)
    BY <1>4, <1>7 DEF Offers
  <2> HIDE DEF other
  <2>3. QED
    BY <2>1, <2>2
<1>8. CASE /\ y # 0 /\ y \in DOMAIN E /\ E[y].pm < Len(a.tokens)
           /\ new = Made(g, s, b, k, E[y].error, E[y].pm, IF b.jump = 0 THEN 0 ELSE 2)
  <2> DEFINE e == E[y].error
             m == E[y].pm
             j == IF b.jump = 0 THEN 0 ELSE 2
             other == Made(g, s, c, k, e, m, j)
  <2>1. SameKey(other, new) /\ Val(other) = Val(new)
    <3>1. e \in Nat /\ new = Made(g, s, b, k, e, m, j)
      BY <1>5, <1>8
    <3> HIDE DEF e, m, j
    <3>2. QED
      BY <1>6, <3>1
  <2>2. Offers(g, a, s, c, k, y, other)
    BY <1>4, <1>8 DEF Offers
  <2> HIDE DEF other
  <2>3. QED
    BY <2>1, <2>2
<1>9. QED
  BY <1>7, <1>8 DEF Offers

(* One transition makes at most one path for a situation. *)
LEMMA OfferUnique ==
  ASSUME NEW g \in Graphs, NEW a, IsAsked(a), NEW s \in States(g), NEW b \in BackType(g),
         b.matched < Len(a.tokens), NEW k \in DOMAIN g.trans[s],
         NEW y, NEW z, NEW new, NEW other, SameKey(new, other),
         Offers(g, a, s, b, k, y, new), Offers(g, a, s, b, k, z, other)
  PROVE  new = other
<1>1. PICK r \in Requests, part \in SUBSET Words :
        a.tokens = r.tokens /\ a.space = r.space /\ a.part = part
  BY DEF IsAsked
<1>2. b.matched \in 0 .. Len(a.tokens) - 1
  BY <1>1, Tokens DEF BackType
<1> DEFINE E == Finds(g, a, s, b, k)
<1>3. \A v, w \in DOMAIN E : E[v].pm = E[w].pm /\ E[v].pm < Len(a.tokens) => v = w
  BY <1>1, <1>2, MatchesDifferAssumption DEF Finds
<1>4. \A e, m, j : Made(g, s, b, k, e, m, j).matched = m /\ Made(g, s, b, k, e, m, j).jump = j
  BY DEF Made
<1>5. CASE y = 0
  <2>1. new.jump = 1
    BY <1>4, <1>5 DEF Offers
  <2>2. z = 0
    <3>1. other.jump = 1
      BY <2>1 DEF SameKey
    <3>2. QED
      BY <1>4, <3>1 DEF Offers
  <2>3. QED
    BY <1>5, <2>2 DEF Offers
<1>6. CASE y # 0
  <2>1. /\ y \in DOMAIN E /\ E[y].pm < Len(a.tokens)
        /\ new.matched = E[y].pm /\ new.jump # 1
    BY <1>4, <1>6 DEF Offers
  <2>2. z # 0
    <3>1. other.jump # 1
      BY <2>1 DEF SameKey
    <3>2. QED
      BY <1>4, <3>1 DEF Offers
  <2>3. z \in DOMAIN E /\ other.matched = E[z].pm
    BY <1>4, <2>2 DEF Offers
  <2>4. y = z
    BY <1>3, <2>1, <2>3 DEF SameKey
  <2>5. QED
    BY <1>6, <2>4 DEF Offers
<1>7. QED
  BY <1>5, <1>6

(* What there is to match before the last token, as assumed. *)
WholeStands(q, r, done, out, part) ==
  WholeMatches(r.tokens, done, out, part, r.space, Len(q.tokens))
    = WholeMatches(q.tokens, done, out, {}, q.space, Len(q.tokens))

LEMMA WholeFacts ==
  \A g \in Graphs, q, r \in Requests : GoesOn(q.tokens, r.tokens) =>
    \A s \in States(g) : \A k \in DOMAIN g.trans[s] : \A done \in 0 .. Len(q.tokens) - 1 :
      \A part \in SUBSET Words : WholeStands(q, r, done, g.trans[s][k].output, part)
BY WholeMatchesAssumption, Zenon DEF WholeStands

(* A request that goes on where another has stopped makes the same of a     *)
(* path, as far as whole tokens go.                                        *)
LEMMA OfferStands ==
  ASSUME NEW g \in Graphs, NEW a, IsAsked(a), NEW d, IsAsked(d), GoesOn(a.tokens, d.tokens),
         NEW s \in States(g), NEW b \in BackType(g), b.matched < Len(a.tokens),
         NEW k \in DOMAIN g.trans[s], NEW new, new.matched < Len(a.tokens)
  PROVE  (\E y : Offers(g, a, s, b, k, y, new)) <=> (\E y : Offers(g, d, s, b, k, y, new))
<1>1. PICK q \in Requests, part \in SUBSET Words :
        a.tokens = q.tokens /\ a.space = q.space /\ a.part = part
  BY DEF IsAsked
<1>2. PICK r \in Requests, rest \in SUBSET Words :
        d.tokens = r.tokens /\ d.space = r.space /\ d.part = rest
  BY DEF IsAsked
<1> DEFINE n == Len(a.tokens)
           out == g.trans[s][k].output
           E == Finds(g, a, s, b, k)
           F == Finds(g, d, s, b, k)
           Whole(X) == { [pm |-> X[y].pm, error |-> X[y].error] : y \in { z \in DOMAIN X : X[z].pm < n } }
<1>3. b.matched \in 0 .. n - 1 /\ n \in Nat
  BY <1>1, Tokens DEF BackType
<1>4. n <= Len(d.tokens) /\ Len(d.tokens) \in Nat
  BY <1>2, Tokens DEF GoesOn
<1>5. Whole(E) = Whole(F)
  <2>1. GoesOn(q.tokens, r.tokens) /\ GoesOn(q.tokens, q.tokens)
    <3>1. GoesOn(q.tokens, r.tokens)
      BY <1>1, <1>2
    <3>2. Len(q.tokens) \in Nat
      BY Tokens
    <3>3. GoesOn(q.tokens, q.tokens)
      BY <3>2 DEF GoesOn
    <3>4. QED
      BY <3>1, <3>3
  <2> DEFINE done == b.matched
             whole == WholeMatches(q.tokens, done, out, {}, q.space, Len(q.tokens))
  <2>2. done \in 0 .. Len(q.tokens) - 1 /\ n = Len(q.tokens)
    BY <1>1, <1>3
  <2>3. /\ WholeMatches(r.tokens, done, out, rest, r.space, Len(q.tokens)) = whole
        /\ WholeMatches(q.tokens, done, out, part, q.space, Len(q.tokens)) = whole
    <3> HIDE DEF done, n
    <3>1. WholeStands(q, r, done, out, rest) /\ WholeStands(q, q, done, out, part)
      BY <2>1, <2>2, WholeFacts
    <3>2. QED
      BY <3>1 DEF WholeStands
  <2>4. Whole(E) = WholeMatches(q.tokens, b.matched, out, part, q.space, n)
    BY <1>1 DEF WholeMatches, Finds
  <2>5. Whole(F) = WholeMatches(r.tokens, b.matched, out, rest, r.space, n)
    BY <1>2 DEF WholeMatches, Finds
  <2>6. QED
    BY <2>2, <2>3, <2>4, <2>5, Zenon
<1>6. ASSUME NEW X, NEW Y, Whole(X) = Whole(Y), NEW y \in DOMAIN X, X[y].pm < n
      PROVE  \E z \in DOMAIN Y : Y[z].pm = X[y].pm /\ Y[z].error = X[y].error
  <2>1. [pm |-> X[y].pm, error |-> X[y].error] \in Whole(Y)
    BY <1>6
  <2>2. PICK z \in DOMAIN Y :
          [pm |-> X[y].pm, error |-> X[y].error] = [pm |-> Y[z].pm, error |-> Y[z].error]
    BY <2>1
  <2>3. X[y].pm = Y[z].pm /\ X[y].error = Y[z].error
    BY <2>2
  <2>4. QED
    BY <2>3
<1>7. 0 \notin DOMAIN E /\ 0 \notin DOMAIN F
  <2>1. E \in Seq(MatchType(a.tokens, b.matched, out))
    BY <1>1, <1>3, MatchesAssumption DEF Finds
  <2>2. F \in Seq(MatchType(d.tokens, b.matched, out))
    <3>1. b.matched \in 0 .. Len(d.tokens) - 1
      BY <1>3, <1>4
    <3>2. QED
      BY <1>2, <3>1, MatchesAssumption DEF Finds
  <2> DEFINE M == MatchType(a.tokens, b.matched, out)
             N == MatchType(d.tokens, b.matched, out)
  <2> HIDE DEF E, F, M, N
  <2>3. QED
    BY <2>1, <2>2 DEF M, N
<1>8. \A e, m, j : Made(g, s, b, k, e, m, j).matched = m
  BY DEF Made
<1> HIDE DEF Whole
<1>9. ASSUME NEW y, Offers(g, a, s, b, k, y, new) PROVE \E z : Offers(g, d, s, b, k, z, new)
  <2>1. CASE y = 0
    BY <1>9, <2>1 DEF Offers
  <2>2. CASE y # 0
    <3>1. y \in DOMAIN E /\ E[y].pm < n
          /\ new = Made(g, s, b, k, E[y].error, E[y].pm, IF b.jump = 0 THEN 0 ELSE 2)
      BY <1>9, <2>2 DEF Offers
    <3>2. PICK z \in DOMAIN F : F[z].pm = E[y].pm /\ F[z].error = E[y].error
      <4> HIDE DEF E, F
      <4> QED
        BY <1>5, <1>6, <3>1
    <3>3. F[z].pm < Len(d.tokens)
      <4>1. new.matched = F[z].pm
        BY <1>8, <3>1, <3>2
      <4>2. F[z].pm \in Int
        <5>1. b.matched \in 0 .. Len(d.tokens) - 1
          BY <1>3, <1>4
        <5>2. F[z].pm \in b.matched + 1 .. Len(d.tokens)
          BY <1>2, <3>2, <5>1, MatchFacts DEF Finds
        <5> HIDE DEF F
        <5>3. QED
          BY <5>2
      <4> HIDE DEF F
      <4>3. QED
        BY <1>3, <1>4, <4>1, <4>2
    <3>4. z # 0
      BY <1>7
    <3>5. Offers(g, d, s, b, k, z, new)
      BY <3>1, <3>2, <3>3, <3>4 DEF Offers
    <3>6. QED
      BY <3>5
  <2>3. QED
    BY <2>1, <2>2
<1>10. ASSUME NEW y, Offers(g, d, s, b, k, y, new) PROVE \E z : Offers(g, a, s, b, k, z, new)
  <2>1. CASE y = 0
    BY <1>10, <2>1 DEF Offers
  <2>2. CASE y # 0
    <3>1. y \in DOMAIN F
          /\ new = Made(g, s, b, k, F[y].error, F[y].pm, IF b.jump = 0 THEN 0 ELSE 2)
      BY <1>10, <2>2 DEF Offers
    <3>2. F[y].pm < n
      BY <1>8, <3>1
    <3>3. PICK z \in DOMAIN E : E[z].pm = F[y].pm /\ E[z].error = F[y].error
      <4> HIDE DEF E, F
      <4> QED
        BY <1>5, <1>6, <3>1, <3>2
    <3>4. z # 0 /\ E[z].pm < Len(a.tokens)
      BY <1>7, <3>2, <3>3
    <3>5. Offers(g, a, s, b, k, z, new)
      BY <3>1, <3>3, <3>4 DEF Offers
    <3>6. QED
      BY <3>5
  <2>3. QED
    BY <2>1, <2>2
<1>11. QED
  BY <1>9, <1>10

-------------------------------------------------------------------------
(* What is known of the paths a failed search has left, and of those of the *)
(* search after it.                                                        *)

(* Path b comes from path h of its earlier state. *)
IsSource(bk, b, h) ==
  /\ h \in DOMAIN bk[b.bstate]
  /\ bk[b.bstate][h].matched = b.bmatched /\ bk[b.bstate][h].jump = b.bjump

WellLinked(g, bk) ==
  /\ bk \in [States(g) -> Seq(BackType(g))]
  /\ \A i \in DOMAIN bk[0] : bk[0][i] = InitialBack
  /\ \A s \in States(g) \ {0} :
       /\ Distinct(bk[s])
       /\ \A i \in DOMAIN bk[s] :
            /\ Shape(bk[s][i])
            /\ bk[s][i].bstate \in States(g)
            /\ bk[s][i].tr \in DOMAIN g.trans[bk[s][i].bstate]
            /\ g.trans[bk[s][i].bstate][bk[s][i].tr].to = s
            /\ \E h : IsSource(bk, bk[s][i], h)

OpenTo(g, bk, n) == \A s \in States(g) : \A i \in DOMAIN bk[s] : bk[s][i].matched < n

(* The loop makes b of what it says it comes from. *)
OfferedBy(g, a, bk, b) ==
  \A h : IsSource(bk, b, h) => \E y : Offers(g, a, b.bstate, bk[b.bstate][h], b.tr, y, b)

(* The loop comes to transition k of path i to state s no later than to     *)
(* where path b was made.  (All paths to state 0 are the same.)             *)
NotAfter(bk, s, i, k, b) ==
  \/ s < b.bstate
  \/ s = b.bstate /\ s = 0 /\ k <= b.tr
  \/ s = b.bstate /\ s # 0 /\ \E h : IsSource(bk, b, h) /\ (i < h \/ (i = h /\ k <= b.tr))

(* A path recorded for the situation of new, and worth as much, was not     *)
(* made before it.                                                         *)
Last(g, bk, top, s, i, k, new) ==
  new.jump # 1 =>
    \A h \in DOMAIN bk[g.trans[s][k].to] :
      /\ SameKey(bk[g.trans[s][k].to][h], new) /\ Val(bk[g.trans[s][k].to][h]) = Val(new)
      /\ Hopeful(g, g.trans[s][k].to, bk[g.trans[s][k].to][h], top)
      => NotAfter(bk, s, i, k, bk[g.trans[s][k].to][h])

(* What a failed search leaves, for a request that goes on where that one   *)
(* has stopped, with n tokens: every path is one the loop makes, or worth   *)
(* nothing; whatever the loop makes is recorded, or something as good; and  *)
(* what is recorded was the last of its worth.                             *)
AllOffered(g, a, bk) ==
  \A s \in States(g) \ {0} : \A i \in DOMAIN bk[s] :
    Hopeful(g, s, bk[s][i], MinScore) => OfferedBy(g, a, bk, bk[s][i])

AllKept(g, a, bk, n) ==
  \A s \in States(g) : \A i \in DOMAIN bk[s] : \A k \in DOMAIN g.trans[s] : \A y, new :
    Hopeful(g, s, bk[s][i], MinScore) /\ Offers(g, a, s, bk[s][i], k, y, new) /\ new.matched < n
      => Has(bk[g.trans[s][k].to], new.matched, new.jump, Val(new))

AllLast(g, a, bk) ==
  \A s \in States(g) : \A i \in DOMAIN bk[s] : \A k \in DOMAIN g.trans[s] : \A y, new :
    Offers(g, a, s, bk[s][i], k, y, new) => Last(g, bk, MinScore, s, i, k, new)

Fixed(g, a, bk, n) ==
  /\ IsAsked(a) /\ WellLinked(g, bk)
  /\ n \in 0 .. Len(a.tokens) /\ (n > 0 => bk[0] # << >>) /\ OpenTo(g, bk, n)
  /\ AllOffered(g, a, bk) /\ AllKept(g, a, bk, n) /\ AllLast(g, a, bk)

(* What the search after it makes of that: the old paths stay where they    *)
(* are, at most replaced by others worth the same, made by now; and what    *)
(* is recorded is the last of its worth among what the loop has passed.     *)
Inherited(g, old, n, bk) ==
  \A s \in States(g) \ {0} :
    /\ \A i \in DOMAIN old[s] :
         /\ i \in DOMAIN bk[s] /\ SameKey(old[s][i], bk[s][i]) /\ Val(old[s][i]) = Val(bk[s][i])
         /\ old[s][i].jump = 1 => old[s][i] = bk[s][i]
    /\ \A i \in DOMAIN bk[s] \ DOMAIN old[s] : bk[s][i].matched >= n

Renewed(g, a, old, bk, st) ==
  \A s \in States(g) \ {0} : \A i \in DOMAIN bk[s] :
    \/ i \in DOMAIN old[s] /\ bk[s][i] = old[s][i]
    \/ bk[s][i].bstate <= st /\ OfferedBy(g, a, bk, bk[s][i])

LastSoFar(g, a, bk, c, top) ==
  \A s \in States(g) : \A i \in DOMAIN bk[s] : \A k \in DOMAIN g.trans[s] : \A y, new :
    /\ Passed(c, s, i, k, y) /\ (s = 0 => i = Len(bk[0]))
    /\ Offers(g, a, s, bk[s][i], k, y, new)
    => Last(g, bk, top, s, i, k, new)

Grown(g, a, old, n, bk, c, top) ==
  /\ Fixed(g, a, old, n) /\ Inherited(g, old, n, bk)
  /\ Renewed(g, a, old, bk, c.st) /\ LastSoFar(g, a, bk, c, top)

LEMMA Linkedness ==
  ASSUME IInv, Shaped
  PROVE  WellLinked(graph, back) /\ OpenTo(graph, back, Len(prefix))
<1>1. 0 \in States(graph) /\ back \in [States(graph) -> Seq(BackType(graph))]
  BY CurType, Cleared
<1>2. \A i \in DOMAIN back[0] : back[0][i] = InitialBack
  BY <1>1 DEF IInv, BackLinked
<1>3. ASSUME NEW s \in States(graph) \ {0}
      PROVE  Distinct(back[s])
  BY DEF IInv, NoRivals, Distinct, SameKey
<1>4. ASSUME NEW s \in States(graph) \ {0}, NEW i \in DOMAIN back[s]
      PROVE  /\ Shape(back[s][i])
             /\ back[s][i].bstate \in States(graph)
             /\ back[s][i].tr \in DOMAIN graph.trans[back[s][i].bstate]
             /\ graph.trans[back[s][i].bstate][back[s][i].tr].to = s
             /\ \E h : IsSource(back, back[s][i], h)
  <2> DEFINE b == back[s][i]
  <2>1. /\ LinkOK(b.bstate, b.tr, b.bmatched, b.bjump, b.matched)
        /\ graph.trans[b.bstate][b.tr].to = s
    BY DEF IInv, BackLinked
  <2>2. \E h : IsSource(back, b, h)
    BY <2>1 DEF LinkOK, Linked, IsSource
  <2>3. QED
    BY <2>1, <2>2 DEF LinkOK, Shaped
<1>5. OpenTo(graph, back, Len(prefix))
  BY DEF IInv, Open, OpenTo
<1>6. QED
  BY <1>1, <1>2, <1>3, <1>4, <1>5 DEF WellLinked

(* What a path and its sources are. *)
PathFacts(g, bk, s, b) ==
  /\ b \in BackType(g) /\ Val(b) \in Int /\ Shape(b)
  /\ b.matched \in Nat /\ b.bmatched \in Nat /\ b.bmatched <= b.matched
  /\ b.bstate \in States(g) /\ b.bstate < s /\ b.bstate \in Nat /\ s \in Nat
  /\ b.tr \in DOMAIN g.trans[b.bstate] /\ g.trans[b.bstate][b.tr].to = s /\ b.tr \in Nat
  /\ \E h : IsSource(bk, b, h) /\ (b.bstate = 0 => h = Len(bk[0]))
  /\ \A h : IsSource(bk, b, h) =>
       /\ h \in Nat /\ bk[b.bstate][h] \in BackType(g)
       /\ bk[b.bstate][h].matched = b.bmatched
       /\ b.bstate = 0 => bk[0][h] = InitialBack
  /\ b.bstate # 0 => \A h, l : IsSource(bk, b, h) /\ IsSource(bk, b, l) => h = l

LEMMA SourceFacts ==
  ASSUME NEW g \in Graphs, NEW bk, WellLinked(g, bk),
         NEW s \in States(g) \ {0}, NEW i \in DOMAIN bk[s], NEW b, b = bk[s][i]
  PROVE  PathFacts(g, bk, s, b)
<1>1. /\ b \in BackType(g) /\ Shape(b)
      /\ b.bstate \in States(g) /\ b.tr \in DOMAIN g.trans[b.bstate]
      /\ g.trans[b.bstate][b.tr].to = s /\ \E h : IsSource(bk, b, h)
      /\ bk[b.bstate] \in Seq(BackType(g))
  BY DEF WellLinked
<1>2. b.score \in Int /\ b.error \in Int /\ b.matched \in Nat /\ b.bmatched \in Nat /\ b.tr \in Nat
  BY <1>1 DEF BackType
<1>3. Val(b) \in Int
  BY <1>2, WorthAdds DEF Val
<1>4. b.bmatched <= b.matched
  BY <1>1, <1>2 DEF Shape
<1>5. b.bstate < s /\ b.bstate \in Nat /\ s \in Nat
  BY <1>1, TransFacts DEF States
<1>6. ASSUME NEW h, IsSource(bk, b, h)
      PROVE  /\ h \in Nat /\ bk[b.bstate][h] \in BackType(g) /\ bk[b.bstate][h].matched = b.bmatched
             /\ b.bstate = 0 => bk[0][h] = InitialBack
  <2>1. h \in DOMAIN bk[b.bstate] /\ bk[b.bstate][h].matched = b.bmatched
    BY <1>6 DEF IsSource
  <2>2. h \in Nat /\ bk[b.bstate][h] \in BackType(g)
    BY <1>1, <2>1
  <2>3. b.bstate = 0 => bk[0][h] = InitialBack
    BY <2>1 DEF WellLinked
  <2>4. QED
    BY <2>1, <2>2, <2>3
<1>7. \E h : IsSource(bk, b, h) /\ (b.bstate = 0 => h = Len(bk[0]))
  <2>1. PICK h : IsSource(bk, b, h)
    BY <1>1
  <2>2. CASE b.bstate = 0
    <3>1. /\ bk[0] \in Seq(BackType(g)) /\ h \in DOMAIN bk[0] /\ bk[0][h] = InitialBack
          /\ \A l \in DOMAIN bk[0] : bk[0][l] = InitialBack
      BY <1>1, <2>1, <2>2 DEF IsSource, WellLinked
    <3>2. Len(bk[0]) \in DOMAIN bk[0]
      BY <3>1
    <3>3. IsSource(bk, b, Len(bk[0]))
      BY <2>1, <2>2, <3>1, <3>2 DEF IsSource
    <3>4. QED
      BY <3>3
  <2>3. QED
    BY <2>1, <2>2
<1>8. ASSUME b.bstate # 0, NEW h, NEW l, IsSource(bk, b, h), IsSource(bk, b, l)
      PROVE  h = l
  <2>1. h \in DOMAIN bk[b.bstate] /\ l \in DOMAIN bk[b.bstate]
        /\ SameKey(bk[b.bstate][h], bk[b.bstate][l])
    BY <1>8 DEF IsSource, SameKey
  <2>2. Distinct(bk[b.bstate])
    BY <1>1, <1>8 DEF WellLinked
  <2>3. QED
    BY <2>1, <2>2 DEF Distinct
<1>9. QED
  BY <1>1, <1>2, <1>3, <1>4, <1>5, <1>6, <1>7, <1>8 DEF PathFacts

(* The old paths to the states the loop has come to are back, as far as     *)
(* they may still be worth something.                                      *)
LEMMA SettledPaths ==
  ASSUME NEW g \in Graphs, NEW a, NEW old, NEW n, NEW bk, NEW c, c.st \in Int,
         NEW top \in Int, MinScore <= top, WellLinked(g, bk), OpenTo(g, bk, Len(a.tokens)),
         bk[0] # << >>, Grown(g, a, old, n, bk, c, top)
  PROVE  \A s \in States(g) \ {0} : s <= c.st => \A i \in DOMAIN old[s] :
           Hopeful(g, s, bk[s][i], top) => bk[s][i] = old[s][i]
<1> DEFINE Good(s) == s <= c.st => \A i \in DOMAIN old[s] :
                        Hopeful(g, s, bk[s][i], top) => bk[s][i] = old[s][i]
           S == { s \in Nat : s \in States(g) \ {0} => Good(s) }
<1>1. /\ IsAsked(a) /\ WellLinked(g, old) /\ OpenTo(g, old, n)
      /\ n \in 0 .. Len(a.tokens) /\ (n > 0 => old[0] # << >>)
      /\ AllOffered(g, a, old) /\ AllLast(g, a, old)
      /\ Inherited(g, old, n, bk) /\ Renewed(g, a, old, bk, c.st) /\ LastSoFar(g, a, bk, c, top)
  BY DEF Grown, Fixed
<1>2. n \in Nat /\ Len(a.tokens) \in Nat /\ n <= Len(a.tokens)
  BY <1>1, Tokens DEF IsAsked
<1>3. /\ \A s \in States(g) : s \in Nat
      /\ MinScore \in Int /\ 0 \in States(g) /\ g.n \in Nat
  BY GraphsAssumption, NumbersAssumption DEF GraphType, States
<1>4. /\ bk \in [States(g) -> Seq(BackType(g))] /\ old \in [States(g) -> Seq(BackType(g))]
      /\ \A i \in DOMAIN bk[0] : bk[0][i] = InitialBack
      /\ \A i \in DOMAIN old[0] : old[0][i] = InitialBack
  BY <1>1 DEF WellLinked
<1>5. /\ Len(bk[0]) \in DOMAIN bk[0]
      /\ n > 0 => Len(old[0]) \in DOMAIN old[0]
  BY <1>1, <1>3, <1>4
<1>6. ASSUME NEW s \in States(g) \ {0}, s <= c.st, NEW i \in DOMAIN old[s],
             Hopeful(g, s, bk[s][i], top), \A u \in States(g) \ {0} : u < s => Good(u)
      PROVE  bk[s][i] = old[s][i]
  <2> DEFINE B == bk[s][i]
             O == old[s][i]
  <2>1. PICK b, o : b = B /\ o = O
    OBVIOUS
  <2>2. SUFFICES ASSUME b # o PROVE FALSE
    BY <2>1
  <2>3. /\ i \in DOMAIN bk[s] /\ SameKey(o, b) /\ Val(o) = Val(b)
        /\ o.jump # 1 /\ b.jump # 1
    BY <1>1, <2>1, <2>2 DEF Inherited, SameKey
  <2>4. OfferedBy(g, a, bk, b)
    BY <1>1, <2>1, <2>2, <2>3 DEF Renewed
  <2>5. Hopeful(g, s, b, top) /\ Hopeful(g, s, o, top)
    BY <1>6, <2>1, <2>3 DEF Hopeful, Val
  <2>6. Hopeful(g, s, o, MinScore)
    <3>1. g.fscore[s] \in Int /\ Val(o) \in Int
      <4>1. PathFacts(g, old, s, o)
        BY <1>1, <2>1, SourceFacts
      <4>2. QED
        BY <4>1, GraphsAssumption DEF GraphType, PathFacts
    <3> DEFINE W == g.fscore[s] + Val(o)
    <3>2. W \in Int /\ W >= top
      BY <2>5, <3>1 DEF Hopeful, Val
    <3> HIDE DEF W
    <3>3. W >= MinScore
      BY <1>3, <3>2
    <3>4. QED
      BY <3>3 DEF Hopeful, Val, W
  <2>7. OfferedBy(g, a, old, o)
    BY <1>1, <2>1, <2>6 DEF AllOffered
  <2>8. PathFacts(g, bk, s, b)
    <3>1. WellLinked(g, bk) /\ i \in DOMAIN bk[s] /\ b = bk[s][i]
      BY <2>1, <2>3
    <3>2. QED
      BY <3>1, SourceFacts
  <2>9. PathFacts(g, old, s, o)
    <3>1. WellLinked(g, old) /\ i \in DOMAIN old[s] /\ o = old[s][i]
      BY <1>1, <2>1
    <3>2. QED
      BY <3>1, SourceFacts
  <2>10. o.matched < n /\ b.matched < n /\ b.bmatched < n /\ o.bmatched < n /\ n > 0
    <3>1. o.matched < n
      BY <1>1, <2>1 DEF OpenTo
    <3>2. b.matched = o.matched
      BY <2>3 DEF SameKey
    <3>3. QED
      BY <1>2, <2>8, <2>9, <3>1, <3>2 DEF PathFacts
  <2>11. PICK h : IsSource(bk, b, h) /\ (b.bstate = 0 => h = Len(bk[0]))
    BY <2>8 DEF PathFacts
  <2>12. PICK l : IsSource(old, o, l) /\ (o.bstate = 0 => l = Len(old[0]))
    BY <2>9 DEF PathFacts
  <2>13. PICK y : Offers(g, a, b.bstate, bk[b.bstate][h], b.tr, y, b)
    BY <2>4, <2>11 DEF OfferedBy
  <2>14. PICK z : Offers(g, a, o.bstate, old[o.bstate][l], o.tr, z, o)
    BY <2>7, <2>12 DEF OfferedBy
  <2> DEFINE q == bk[b.bstate][h]
             p == old[o.bstate][l]
  <2>15. /\ q \in BackType(g) /\ q.matched = b.bmatched /\ h \in Nat
         /\ p \in BackType(g) /\ p.matched = o.bmatched /\ l \in Nat
         /\ q.matched < Len(a.tokens) /\ p.matched < Len(a.tokens)
    <3>1. q \in BackType(g) /\ q.matched = b.bmatched /\ h \in Nat
      BY <2>8, <2>11 DEF PathFacts
    <3>2. p \in BackType(g) /\ p.matched = o.bmatched /\ l \in Nat
      BY <2>9, <2>12 DEF PathFacts
    <3>3. b.bmatched \in Nat /\ o.bmatched \in Nat
      BY <2>8, <2>9 DEF PathFacts
    <3> HIDE DEF p, q
    <3>4. q.matched < Len(a.tokens) /\ p.matched < Len(a.tokens)
      BY <1>2, <2>10, <3>1, <3>2, <3>3
    <3>5. QED
      BY <3>1, <3>2, <3>4
  <2>16. Hopeful(g, b.bstate, q, top) /\ y \in Nat
    BY <1>1, <2>5, <2>8, <2>13, <2>15, OfferFacts DEF PathFacts
  <2>17. Hopeful(g, o.bstate, p, top) /\ z \in Nat
    BY <1>1, <2>5, <2>9, <2>14, <2>15, OfferFacts DEF PathFacts
  <2>18. PICK hh \in DOMAIN old[b.bstate] : old[b.bstate][hh] = q /\ (b.bstate # 0 => hh = h)
    <3>1. CASE b.bstate = 0
      <4>1. q = InitialBack /\ Len(old[0]) \in DOMAIN old[0] /\ old[0][Len(old[0])] = InitialBack
        BY <1>4, <1>5, <2>8, <2>10, <2>11, <3>1 DEF PathFacts
      <4>2. QED
        BY <3>1, <4>1
    <3>2. CASE b.bstate # 0
      <4>1. h \in DOMAIN old[b.bstate]
        <5>1. h \in DOMAIN bk[b.bstate] /\ ~(q.matched >= n)
          BY <1>2, <2>8, <2>10, <2>11, <2>15 DEF IsSource, PathFacts
        <5>2. QED
          BY <1>1, <2>8, <3>2, <5>1 DEF Inherited, PathFacts
      <4>2. old[b.bstate][h] = q
        <5>1. b.bstate <= c.st
          BY <1>6, <2>8 DEF PathFacts
        <5>2. QED
          BY <1>6, <2>8, <2>16, <3>2, <4>1, <5>1 DEF PathFacts
      <4>3. QED
        BY <4>1, <4>2
    <3>3. QED
      BY <3>1, <3>2
  <2>19. PICK ll \in DOMAIN bk[o.bstate] :
            /\ bk[o.bstate][ll] = p /\ (o.bstate # 0 => ll = l) /\ (o.bstate = 0 => ll = Len(bk[0]))
    <3>1. CASE o.bstate = 0
      <4>1. p = InitialBack /\ bk[0][Len(bk[0])] = InitialBack
        BY <1>4, <1>5, <2>9, <2>12, <3>1 DEF PathFacts
      <4>2. QED
        BY <1>5, <3>1, <4>1
    <3>2. CASE o.bstate # 0
      <4>1. l \in DOMAIN old[o.bstate]
        BY <2>12 DEF IsSource
      <4>2. l \in DOMAIN bk[o.bstate] /\ Val(bk[o.bstate][l]) = Val(p)
        BY <1>1, <2>9, <3>2, <4>1 DEF Inherited, PathFacts
      <4>3. Hopeful(g, o.bstate, bk[o.bstate][l], top)
        BY <2>17, <4>2 DEF Hopeful, Val
      <4>4. bk[o.bstate][l] = p
        <5>1. o.bstate <= c.st
          BY <1>6, <2>8, <2>9 DEF PathFacts
        <5>2. QED
          BY <1>6, <2>9, <3>2, <4>1, <4>3, <5>1 DEF PathFacts
      <4>5. QED
        BY <3>2, <4>2, <4>4
    <3>3. QED
      BY <3>1, <3>2
  <2>20. NotAfter(old, b.bstate, hh, b.tr, o)
    <3>1. Last(g, old, MinScore, b.bstate, hh, b.tr, b)
      BY <1>1, <2>8, <2>13, <2>18 DEF AllLast, PathFacts
    <3>2. SameKey(o, b) /\ Val(o) = Val(b) /\ Hopeful(g, s, o, MinScore)
      BY <2>3, <2>6
    <3>3. QED
      BY <2>1, <2>3, <2>8, <3>1, <3>2 DEF Last, PathFacts
  <2>21. NotAfter(bk, o.bstate, ll, o.tr, b)
    <3>1. Passed(c, o.bstate, ll, o.tr, z)
      <4>1. o.bstate < c.st
        BY <1>6, <2>8, <2>9 DEF PathFacts
      <4>2. QED
        BY <4>1 DEF Passed
    <3>2. Offers(g, a, o.bstate, bk[o.bstate][ll], o.tr, z, o)
      BY <2>14, <2>19
    <3>3. Last(g, bk, top, o.bstate, ll, o.tr, o)
      BY <1>1, <2>9, <2>19, <3>1, <3>2 DEF LastSoFar, PathFacts
    <3>4. SameKey(b, o) /\ Val(b) = Val(o)
      BY <2>3 DEF SameKey
    <3>5. QED
      BY <2>1, <2>3, <2>5, <2>9, <3>3, <3>4 DEF Last, PathFacts
  <2>22. b.bstate = o.bstate /\ b.tr = o.tr /\ p = q
    <3>1. b.bstate = o.bstate
      BY <2>8, <2>9, <2>20, <2>21 DEF NotAfter, PathFacts
    <3>2. CASE b.bstate = 0
      <4>1. b.tr = o.tr
        BY <2>8, <2>9, <2>20, <2>21, <3>1, <3>2 DEF NotAfter, PathFacts
      <4>2. q = InitialBack /\ p = InitialBack
        BY <2>8, <2>9, <2>11, <2>12, <3>1, <3>2 DEF PathFacts
      <4>3. QED
        BY <3>1, <4>1, <4>2
    <3>3. CASE b.bstate # 0
      <4>1. hh = h /\ ll = l
        BY <2>18, <2>19, <3>1, <3>3
      <4>2. h < l \/ (h = l /\ b.tr <= o.tr)
        <5>1. PICK x : IsSource(old, o, x) /\ (hh < x \/ (hh = x /\ b.tr <= o.tr))
          BY <2>8, <2>9, <2>20, <3>1, <3>3 DEF NotAfter, PathFacts
        <5>2. x = l
          BY <2>9, <2>12, <3>1, <3>3, <5>1 DEF PathFacts
        <5>3. QED
          BY <4>1, <5>1, <5>2
      <4>3. l < h \/ (l = h /\ o.tr <= b.tr)
        <5>1. PICK x : IsSource(bk, b, x) /\ (ll < x \/ (ll = x /\ o.tr <= b.tr))
          BY <2>8, <2>9, <2>21, <3>1, <3>3 DEF NotAfter, PathFacts
        <5>2. x = h
          BY <2>8, <2>11, <3>1, <3>3, <5>1 DEF PathFacts
        <5>3. QED
          BY <4>1, <5>1, <5>2
      <4>4. h = l /\ b.tr = o.tr
        BY <2>8, <2>9, <2>15, <4>2, <4>3 DEF PathFacts
      <4>5. QED
        BY <2>18, <2>19, <3>1, <3>3, <4>1, <4>4
    <3>4. QED
      BY <3>2, <3>3
  <2>23. SameKey(b, o)
    BY <2>3 DEF SameKey
  <2> HIDE DEF p, q
  <2>24. b = o
    <3>1. Offers(g, a, b.bstate, q, b.tr, y, b)
      BY <2>13 DEF q
    <3>2. Offers(g, a, b.bstate, q, b.tr, z, o)
      BY <2>14, <2>22 DEF p
    <3>3. QED
      BY <1>1, <2>8, <2>15, <2>23, <3>1, <3>2, OfferUnique DEF PathFacts
  <2>25. QED
    BY <2>2, <2>24
<1>7. ASSUME NEW s \in Nat, \A u \in 0 .. s - 1 : u \in S PROVE s \in S
  <2> SUFFICES ASSUME s \in States(g) \ {0}, s <= c.st, NEW i \in DOMAIN old[s],
                      Hopeful(g, s, bk[s][i], top)
               PROVE  bk[s][i] = old[s][i]
    OBVIOUS
  <2>1. ASSUME NEW u \in States(g) \ {0}, u < s PROVE Good(u)
    <3>1. u \in 0 .. s - 1
      BY <1>3, <2>1
    <3>2. u \in S
      BY <1>7, <3>1
    <3>3. QED
      BY <3>2
  <2> HIDE DEF Good
  <2>2. QED
    BY <1>6, <2>1
<1>8. \A s \in Nat : s \in S
  <2> HIDE DEF S
  <2> QED
    BY <1>7, StrongInduction
<1>9. \A s \in States(g) \ {0} : Good(s)
  <2> HIDE DEF Good
  <2> QED
    BY <1>3, <1>8
<1>10. QED
  BY <1>9

(* So the paths to these states are what the loop makes of the others,     *)
(* those that a failed search has left among them.                         *)
LEMMA SettledOffered ==
  ASSUME NEW g \in Graphs, NEW a, NEW old, NEW n, NEW bk, NEW c, c.st \in Int,
         NEW top \in Int, MinScore <= top, WellLinked(g, bk), OpenTo(g, bk, Len(a.tokens)),
         bk[0] # << >>, Grown(g, a, old, n, bk, c, top),
         NEW s \in States(g) \ {0}, s <= c.st, NEW i \in DOMAIN bk[s], Hopeful(g, s, bk[s][i], top)
  PROVE  OfferedBy(g, a, bk, bk[s][i])
<1>1. /\ IsAsked(a) /\ WellLinked(g, old) /\ OpenTo(g, old, n)
      /\ n \in 0 .. Len(a.tokens) /\ AllOffered(g, a, old)
      /\ Inherited(g, old, n, bk) /\ Renewed(g, a, old, bk, c.st)
  BY DEF Grown, Fixed
<1>2. n \in Nat /\ Len(a.tokens) \in Nat /\ n <= Len(a.tokens) /\ MinScore \in Int
  BY <1>1, Tokens, NumbersAssumption DEF IsAsked
<1>3. SUFFICES ASSUME i \in DOMAIN old[s], bk[s][i] = old[s][i],
                      NEW h, IsSource(bk, bk[s][i], h)
               PROVE  \E y : Offers(g, a, bk[s][i].bstate, bk[bk[s][i].bstate][h], bk[s][i].tr,
                                    y, bk[s][i])
  BY <1>1 DEF Renewed, OfferedBy
<1>4. PICK b : b = bk[s][i]
  OBVIOUS
<1>5. PathFacts(g, bk, s, b) /\ PathFacts(g, old, s, b)
  BY <1>1, <1>3, <1>4, SourceFacts
<1>6. OfferedBy(g, a, old, b)
  <2> DEFINE W == g.fscore[s] + Val(b)
  <2>1. W \in Int /\ W >= top
    <3>1. g.fscore[s] \in Int
      BY GraphsAssumption DEF GraphType
    <3>2. Val(b) \in Int
      BY <1>5 DEF PathFacts
    <3>3. g.fscore[s] + Val(b) >= top
      BY <1>4 DEF Hopeful, Val
    <3>4. QED
      BY <3>1, <3>2, <3>3
  <2> HIDE DEF W
  <2>2. W >= MinScore
    BY <1>2, <2>1
  <2>3. Hopeful(g, s, b, MinScore)
    BY <2>2 DEF W, Hopeful, Val
  <2>4. QED
    BY <1>1, <1>3, <1>4, <2>3 DEF AllOffered
<1>7. CASE b.bstate = 0
  <2>1. PICK l : IsSource(old, b, l)
    BY <1>5 DEF PathFacts
  <2>2. PICK y : Offers(g, a, b.bstate, old[b.bstate][l], b.tr, y, b)
    BY <1>6, <2>1 DEF OfferedBy
  <2>3. old[0][l] = InitialBack /\ bk[0][h] = InitialBack
    BY <1>3, <1>4, <1>5, <1>7, <2>1 DEF PathFacts
  <2>4. QED
    BY <1>4, <1>7, <2>2, <2>3
<1>8. CASE b.bstate # 0
  <2> DEFINE u == b.bstate
             q == bk[u][h]
             p == old[u][h]
  <2>1. /\ u \in States(g) \ {0} /\ u <= c.st /\ h \in DOMAIN bk[u]
        /\ q.matched = b.bmatched /\ q.jump = b.bjump /\ q.matched < n
    <3>1. b.matched < n
      BY <1>1, <1>3, <1>4 DEF OpenTo
    <3>2. b.bmatched < n /\ u <= c.st
      BY <1>2, <1>5, <3>1 DEF PathFacts
    <3>3. QED
      BY <1>3, <1>4, <1>5, <1>8, <3>2, Zenon DEF PathFacts, IsSource
  <2>2. h \in DOMAIN old[u] /\ SameKey(p, q) /\ Val(p) = Val(q)
    <3>1. ~(q.matched >= n)
      BY <1>2, <1>5, <2>1 DEF PathFacts
    <3>2. QED
      BY <1>1, <2>1, <3>1 DEF Inherited
  <2>3. IsSource(old, b, h)
    BY <2>1, <2>2 DEF IsSource, SameKey
  <2>4. PICK y : Offers(g, a, u, p, b.tr, y, b)
    BY <1>6, <2>3 DEF OfferedBy
  <2>5. Hopeful(g, u, p, top)
    <3>1. p \in BackType(g) /\ p.matched < Len(a.tokens)
      BY <1>2, <1>5, <2>1, <2>3 DEF PathFacts
    <3>2. b.tr \in DOMAIN g.trans[u] /\ g.trans[u][b.tr].to = s /\ Hopeful(g, s, b, top)
      BY <1>4, <1>5 DEF PathFacts
    <3> HIDE DEF p, u
    <3>3. u \in States(g)
      BY <2>1
    <3>4. QED
      BY <1>1, <2>4, <3>1, <3>2, <3>3, OfferFacts
  <2>6. q = p
    <3>1. Hopeful(g, u, q, top)
      BY <2>2, <2>5 DEF Hopeful, Val
    <3>2. \A v \in States(g) \ {0} : v <= c.st => \A j \in DOMAIN old[v] :
            Hopeful(g, v, bk[v][j], top) => bk[v][j] = old[v][j]
      BY SettledPaths
    <3>3. QED
      BY <2>1, <2>2, <3>1, <3>2
  <2>7. QED
    BY <1>4, <2>4, <2>6
<1>9. QED
  BY <1>7, <1>8

(* In the terms of the comparison. *)
LEMMA OfferedExact ==
  ASSUME IInv, NEW s \in States(graph) \ {0}, NEW i \in DOMAIN back[s],
         OfferedBy(graph, Asked, back, back[s][i])
  PROVE  MadeBy(back[s][i], PathIn(back[back[s][i].bstate], back[s][i].bmatched, back[s][i].bjump),
                graph.trans[back[s][i].bstate][back[s][i].tr],
                EditMatches(prefix, back[s][i].bmatched,
                            graph.trans[back[s][i].bstate][back[s][i].tr].output, partial, space))
<1> DEFINE B == back[s][i]
           Q == PathIn(back[B.bstate], B.bmatched, B.bjump)
<1>1. PICK b, q : b = B /\ q = Q
  OBVIOUS
<1>2. LinkOK(b.bstate, b.tr, b.bmatched, b.bjump, b.matched)
  BY <1>1 DEF IInv, BackLinked
<1>3. Held(q, back[b.bstate], b.bmatched, b.bjump)
  BY <1>1, <1>2, RecordedPath DEF LinkOK
<1>4. PICK h : IsSource(back, b, h) /\ q = back[b.bstate][h]
  BY <1>3 DEF Held, IsSource
<1>5. PICK y : Offers(graph, Asked, b.bstate, q, b.tr, y, b)
  BY <1>1, <1>4 DEF OfferedBy
<1>6. q.matched = b.bmatched /\ q.jump = b.bjump
  BY <1>4 DEF IsSource
<1> DEFINE E == EditMatches(prefix, b.bmatched, graph.trans[b.bstate][b.tr].output, partial, space)
<1>7. Finds(graph, Asked, b.bstate, q, b.tr) = E
  BY <1>6 DEF Finds, Asked
<1>8. MadeBy(b, q, graph.trans[b.bstate][b.tr], E)
  <2> DEFINE t == graph.trans[b.bstate][b.tr]
  <2>1. ASSUME NEW e, NEW m, NEW j, b = Made(graph, b.bstate, q, b.tr, e, m, j)
        PROVE  b.score = q.score + t.score /\ b.error = q.error + e /\ b.matched = m /\ b.jump = j
    <3>1. PICK u, k : u = b.bstate /\ k = b.tr
      OBVIOUS
    <3>2. b = Made(graph, u, q, k, e, m, j)
      BY <2>1, <3>1
    <3>3. /\ b.score = q.score + graph.trans[u][k].score /\ b.error = q.error + e
          /\ b.matched = m /\ b.jump = j
      BY <3>2 DEF Made
    <3>4. QED
      BY <3>1, <3>3
  <2> HIDE DEF E, t
  <2>2. CASE /\ y = 0 /\ q.jump # 2
             /\ b = Made(graph, b.bstate, q, b.tr, IF q.jump = 0 THEN 1 ELSE 0, q.matched, 1)
    <3>1. /\ b.score = q.score + t.score /\ b.error = q.error + (IF q.jump = 0 THEN 1 ELSE 0)
          /\ b.matched = q.matched /\ b.jump = 1
      BY <2>1, <2>2
    <3>2. QED
      BY <1>6, <2>2, <3>1 DEF MadeBy, t
  <2>3. CASE /\ y \in DOMAIN E
             /\ b = Made(graph, b.bstate, q, b.tr, E[y].error, E[y].pm,
                         IF q.jump = 0 THEN 0 ELSE 2)
    <3>1. /\ b.score = q.score + t.score /\ b.error = q.error + E[y].error
          /\ b.matched = E[y].pm /\ b.jump = IF q.jump = 0 THEN 0 ELSE 2
      BY <2>1, <2>3
    <3>2. QED
      BY <1>6, <2>3, <3>1 DEF MadeBy, t
  <2>4. QED
    BY <1>5, <1>7, <2>2, <2>3 DEF Offers
<1>9. QED
  BY <1>1, <1>8

-------------------------------------------------------------------------
(* What a step does to this. *)

(* Recording replaces the rival of the new path exactly if it is worth less *)
(* or, being worth the same, has matched less before.                       *)
LEMMA RecordRival ==
  ASSUME NEW B, NEW seq \in Seq(B), NEW new, Distinct(seq), NEW i \in DOMAIN seq,
         SameKey(seq[i], new)
  PROVE  Record(seq, new)[i] = IF Better(seq[i], new.score, new.error, new.matched)
                                 THEN new ELSE seq[i]
<1> DEFINE same == { x \in DOMAIN seq : seq[x].matched = new.matched
                                        /\ seq[x].jump = new.jump }
           first == CHOOSE x \in same : \A y \in same : x <= y
<1>1. same = {i} /\ i \in Nat
  BY DEF Distinct, SameKey
<1>2. first = i
  BY <1>1
<1>3. Record(seq, new) = IF Better(seq[i], new.score, new.error, new.matched)
                           THEN [seq EXCEPT ![i] = new] ELSE seq
  BY <1>1, <1>2 DEF Record
<1>4. QED
  BY <1>3

LEMMA HopefulLess ==
  ASSUME NEW g \in Graphs, NEW s \in States(g), NEW b \in BackType(g),
         NEW top \in Int, NEW less \in Int, less <= top, Hopeful(g, s, b, top)
  PROVE  Hopeful(g, s, b, less)
<1> DEFINE x == b.score
           y == b.error
           W == g.fscore[s] + Worth(x, y)
<1>1. x \in Int /\ y \in Int
  BY DEF BackType
<1> HIDE DEF x, y
<1>2. W \in Int
  <2>1. Worth(x, y) \in Int
    BY <1>1, WorthAdds
  <2>2. g.fscore[s] \in Int
    BY GraphsAssumption DEF GraphType
  <2>3. QED
    BY <2>1, <2>2
<1>3. W >= top
  BY DEF Hopeful, x, y
<1> HIDE DEF W
<1>4. W >= less
  BY <1>2, <1>3
<1>5. QED
  BY <1>4 DEF Hopeful, W, x, y

LEMMA LastStays ==
  ASSUME NEW g \in Graphs, NEW bk, WellLinked(g, bk), NEW top \in Int, NEW more \in Int,
         top <= more, NEW s \in States(g), NEW i, NEW k \in DOMAIN g.trans[s], NEW new,
         Last(g, bk, top, s, i, k, new)
  PROVE  Last(g, bk, more, s, i, k, new)
<1> DEFINE to == g.trans[s][k].to
<1>1. to \in States(g) /\ bk[to] \in Seq(BackType(g))
  BY TransFacts DEF WellLinked
<1>2. \A h \in DOMAIN bk[to] : Hopeful(g, to, bk[to][h], more) => Hopeful(g, to, bk[to][h], top)
  <2> SUFFICES ASSUME NEW h \in DOMAIN bk[to], Hopeful(g, to, bk[to][h], more)
               PROVE  Hopeful(g, to, bk[to][h], top)
    OBVIOUS
  <2>1. bk[to][h] \in BackType(g)
    <3> HIDE DEF to
    <3> QED
      BY <1>1
  <2> HIDE DEF to
  <2>2. QED
    BY <1>1, <2>1, HopefulLess
<1>3. QED
  BY <1>2 DEF Last

(* A step that records nothing, if what it passes is the last of its worth. *)
LEMMA GrownMoves ==
  ASSUME NEW g \in Graphs, NEW a, NEW old, NEW n, NEW bk, WellLinked(g, bk),
         NEW c, NEW d, c.st \in Int, d.st \in Int, c.st <= d.st,
         NEW top \in Int, NEW more \in Int, top <= more, Grown(g, a, old, n, bk, c, top),
         \A s \in States(g) : \A i \in DOMAIN bk[s] : \A k \in DOMAIN g.trans[s] : \A y, new :
           /\ Passed(d, s, i, k, y) /\ (s = 0 => i = Len(bk[0]))
           /\ Offers(g, a, s, bk[s][i], k, y, new)
           => Passed(c, s, i, k, y) \/ Last(g, bk, more, s, i, k, new)
  PROVE  Grown(g, a, old, n, bk, d, more)
<1>1. Fixed(g, a, old, n) /\ Inherited(g, old, n, bk)
  BY DEF Grown
<1>2. Renewed(g, a, old, bk, d.st)
  <2> SUFFICES ASSUME NEW s \in States(g) \ {0}, NEW i \in DOMAIN bk[s],
                      bk[s][i].bstate <= c.st
               PROVE  bk[s][i].bstate <= d.st
    BY DEF Grown, Renewed
  <2>1. bk[s][i].bstate \in Int
    BY GraphsAssumption DEF WellLinked, States, GraphType
  <2>2. QED
    BY <2>1
<1>3. LastSoFar(g, a, bk, d, more)
  <2> SUFFICES ASSUME NEW s \in States(g), NEW i \in DOMAIN bk[s], NEW k \in DOMAIN g.trans[s],
                      NEW y, NEW new, Passed(c, s, i, k, y), s = 0 => i = Len(bk[0]),
                      Offers(g, a, s, bk[s][i], k, y, new)
               PROVE  Last(g, bk, more, s, i, k, new)
    BY DEF LastSoFar
  <2>1. Last(g, bk, top, s, i, k, new)
    BY DEF Grown, LastSoFar
  <2>2. QED
    BY <2>1, LastStays
<1>4. QED
  BY <1>1, <1>2, <1>3 DEF Grown

(* A step that records what the loop makes of its path. *)
LEMMA GrownRecorded ==
  ASSUME IInv, SInv, Searching, AtTransition,
         NEW old, NEW n, Grown(graph, Asked, old, n, back, cur, bestScore),
         NEW new, IsExtension(new), Hopeful(graph, cur.st, Back, MinScore),
         Offers(graph, Asked, cur.st, Back, cur.ti, cur.mi, new),
         back' = [back EXCEPT ![Trans.to] = Record(@, new)], cur' = [cur EXCEPT !.mi = @ + 1],
         UNCHANGED << graph, prefix, space, partial, best, bestScore >>
  PROVE  Grown(graph, Asked, old, n, back', cur', bestScore)
<1> DEFINE to == Trans.to
           a == Asked
<1>1. /\ cur.st \in States(graph) /\ cur.st \in Nat /\ cur.bi \in DOMAIN back[cur.st]
      /\ Back = back[cur.st][cur.bi] /\ Back \in BackType(graph) /\ Back.matched < Len(prefix)
      /\ cur.ti \in DOMAIN graph.trans[cur.st] /\ graph.trans[cur.st][cur.ti].to = to
      /\ to \in States(graph) \ {0} /\ to > cur.st
      /\ cur.bi \in Nat /\ cur.ti \in Nat /\ cur.mi \in Nat
  <2>1. cur.bi \in Nat /\ cur.ti \in Nat /\ cur.mi \in Nat
    BY CurType
  <2>2. Back.matched < Len(prefix)
    BY Positions DEF BackType
  <2>3. /\ cur.st \in States(graph) /\ cur.st \in Nat /\ cur.bi \in DOMAIN back[cur.st]
        /\ Back \in BackType(graph) /\ cur.ti \in DOMAIN graph.trans[cur.st]
        /\ Trans.to \in cur.st + 1 .. graph.n - 1 /\ graph.n \in Nat
    BY Positions
  <2>4. Trans.to \in States(graph) \ {0} /\ Trans.to > cur.st
    BY <2>3 DEF States
  <2>5. Back = back[cur.st][cur.bi] /\ graph.trans[cur.st][cur.ti].to = Trans.to
    BY DEF Back, Trans
  <2>6. QED
    BY <2>1, <2>2, <2>3, <2>4, <2>5
<1>2. /\ graph \in Graphs /\ WellLinked(graph, back)
      /\ back \in [States(graph) -> Seq(BackType(graph))]
      /\ \A s \in States(graph) : s \in Nat
      /\ \A s \in States(graph) : \A k \in DOMAIN graph.trans[s] : k \in Nat
  BY CurType, Linkedness DEF SInv
<1>3. /\ IsAsked(a) /\ WellLinked(graph, old) /\ OpenTo(graph, old, n)
      /\ n \in 0 .. Len(prefix) /\ (n > 0 => old[0] # << >>) /\ AllKept(graph, a, old, n)
      /\ Inherited(graph, old, n, back) /\ Renewed(graph, a, old, back, cur.st)
      /\ LastSoFar(graph, a, back, cur, bestScore)
  BY DEF Grown, Fixed, Asked
<1>4. a.tokens = prefix
  BY DEF Asked
<1>5. /\ new.bstate = cur.st /\ new.tr = cur.ti /\ new.bmatched = Back.matched
      /\ new.bjump = Back.jump /\ new.matched \in Nat /\ Back.matched <= new.matched
      /\ Back.matched \in Nat /\ n \in Nat /\ Val(new) \in Int /\ Shape(new)
  <2>1. Val(new) \in Int /\ Shape(new) /\ new.matched \in Back.matched .. Len(prefix) - 1
    <3>1. /\ IsAsked(a) /\ graph \in Graphs /\ cur.st \in States(graph) /\ Back \in BackType(graph)
          /\ Back.matched < Len(a.tokens) /\ cur.ti \in DOMAIN graph.trans[cur.st]
      BY <1>1, <1>2, <1>3, <1>4
    <3>2. Offers(graph, a, cur.st, Back, cur.ti, cur.mi, new)
      BY DEF a
    <3> HIDE DEF a
    <3>3. Val(new) \in Int /\ Shape(new) /\ new.matched \in Back.matched .. Len(a.tokens) - 1
      BY ONLY <3>1, <3>2, OfferFacts
    <3>4. QED
      BY <1>4, <3>3
  <2>2. Back.matched \in Nat
    BY <1>1 DEF BackType
  <2>3. QED
    BY <1>3, <2>1, <2>2 DEF IsExtension
<1>6. /\ \A s \in States(graph) : s <= cur.st => back'[s] = back[s]
      /\ \A s \in States(graph) : s # to => back'[s] = back[s]
      /\ \A i \in DOMAIN back[to] :
           /\ i \in DOMAIN back'[to] /\ SameKey(back'[to][i], back[to][i])
           /\ \/ back'[to][i] = back[to][i]
              \/ /\ back'[to][i] = new /\ SameKey(back[to][i], new)
                 /\ Better(back[to][i], new.score, new.error, new.matched)
           /\ /\ SameKey(back[to][i], new)
              /\ Better(back[to][i], new.score, new.error, new.matched)
              => back'[to][i] = new
      /\ \A i \in DOMAIN back'[to] \ DOMAIN back[to] :
           back'[to][i] = new /\ \A h \in DOMAIN back[to] : ~SameKey(back[to][h], new)
      /\ WellLinked(graph, back)
  <2>1. \A s \in States(graph) : s <= cur.st => back'[s] = back[s]
    BY Extend
  <2> DEFINE seq == back[to]
             rec == Record(seq, new)
  <2>2. seq \in Seq(BackType(graph)) /\ new \in BackType(graph) /\ Distinct(seq)
    BY <1>1, <1>2 DEF WellLinked, IsExtension
  <2>3. back'[to] = rec /\ \A s \in States(graph) : s # to => back'[s] = back[s]
    BY <1>1, <1>2
  <2> HIDE DEF seq
  <2>4. ASSUME NEW i \in DOMAIN seq, SameKey(seq[i], new)
        PROVE  rec[i] = IF Better(seq[i], new.score, new.error, new.matched) THEN new ELSE seq[i]
    BY <2>2, <2>4, RecordRival
  <2>5. /\ DOMAIN seq \subseteq DOMAIN rec
        /\ \A i \in DOMAIN seq : rec[i] = seq[i] \/ (rec[i] = new /\ SameKey(seq[i], new))
        /\ \A i \in DOMAIN rec \ DOMAIN seq :
             rec[i] = new /\ \A h \in DOMAIN seq : ~SameKey(seq[h], new)
    BY <2>2, RecordShape
  <2> HIDE DEF rec
  <2>6. ASSUME NEW i \in DOMAIN seq
        PROVE  /\ i \in DOMAIN rec /\ SameKey(rec[i], seq[i])
               /\ \/ rec[i] = seq[i]
                  \/ /\ rec[i] = new /\ SameKey(seq[i], new)
                     /\ Better(seq[i], new.score, new.error, new.matched)
               /\ /\ SameKey(seq[i], new)
                  /\ Better(seq[i], new.score, new.error, new.matched)
                  => rec[i] = new
    BY <2>4, <2>5 DEF SameKey
  <2>7. QED
    BY <1>2, <2>1, <2>3, <2>5, <2>6 DEF seq
<1>7. ASSUME new.matched < n
      PROVE  \E h \in DOMAIN old[to] : SameKey(old[to][h], new) /\ Val(old[to][h]) >= Val(new)
  <2>1. PICK h \in DOMAIN old[cur.st] :
          SameKey(old[cur.st][h], Back) /\ Val(old[cur.st][h]) = Val(Back)
    <3>1. CASE cur.st = 0
      <4>1. old[0] \in Seq(BackType(graph)) /\ old[0] # << >>
        BY <1>1, <1>3, <1>5, <1>7, <3>1 DEF WellLinked
      <4>2. 1 \in DOMAIN old[0]
        BY <4>1
      <4>3. old[0][1] = InitialBack /\ Back = InitialBack
        BY <1>1, <1>2, <1>3, <3>1, <4>2 DEF WellLinked
      <4>4. QED
        BY <3>1, <4>2, <4>3 DEF SameKey
    <3>2. CASE cur.st # 0
      <4>1. ~(Back.matched >= n)
        BY <1>5, <1>7
      <4>2. cur.bi \in DOMAIN old[cur.st]
        BY <1>1, <1>3, <3>2, <4>1 DEF Inherited
      <4>3. QED
        BY <1>1, <1>3, <3>2, <4>2 DEF Inherited, SameKey
    <3>3. QED
      BY <3>1, <3>2
  <2> DEFINE o == old[cur.st][h]
  <2>2. o \in BackType(graph) /\ SameKey(Back, o) /\ Val(Back) = Val(o) /\ o.matched < Len(prefix)
    <3>1. old[cur.st] \in Seq(BackType(graph))
      BY <1>1, <1>3 DEF WellLinked
    <3>2. QED
      BY <1>1, <2>1, <3>1 DEF SameKey
  <2>3. PICK other : /\ Offers(graph, a, cur.st, o, cur.ti, cur.mi, other)
                     /\ SameKey(other, new) /\ Val(other) = Val(new)
    <3>1. /\ graph \in Graphs /\ IsAsked(a) /\ cur.st \in States(graph)
          /\ cur.ti \in DOMAIN graph.trans[cur.st] /\ Back.matched < Len(a.tokens)
      BY <1>1, <1>2, <1>3, <1>4
    <3>2. Back \in BackType(graph) /\ o \in BackType(graph) /\ SameKey(Back, o) /\ Val(Back) = Val(o)
      BY <1>1, <2>2
    <3> HIDE DEF o
    <3>3. QED
      BY <3>1, <3>2, OfferSame
  <2>4. Hopeful(graph, cur.st, o, MinScore)
    BY <2>2 DEF Hopeful, Val
  <2>5. Has(old[to], other.matched, other.jump, Val(other))
    <3>1. other.matched < n
      BY <1>7, <2>3 DEF SameKey
    <3>2. QED
      BY <1>1, <1>3, <2>1, <2>3, <2>4, <3>1 DEF AllKept
  <2>6. QED
    BY <2>3, <2>5 DEF Has, SameKey, Val
<1>8. Inherited(graph, old, n, back')
  <2>1. \A s \in States(graph) \ {0} : s # to =>
          /\ \A i \in DOMAIN old[s] :
               /\ i \in DOMAIN back'[s] /\ SameKey(old[s][i], back'[s][i])
               /\ Val(old[s][i]) = Val(back'[s][i])
               /\ old[s][i].jump = 1 => old[s][i] = back'[s][i]
          /\ \A i \in DOMAIN back'[s] \ DOMAIN old[s] : back'[s][i].matched >= n
    BY <1>3, <1>6 DEF Inherited
  <2>2. ASSUME NEW i \in DOMAIN old[to]
        PROVE  /\ i \in DOMAIN back'[to] /\ SameKey(old[to][i], back'[to][i])
               /\ Val(old[to][i]) = Val(back'[to][i])
               /\ old[to][i].jump = 1 => old[to][i] = back'[to][i]
    <3>1. /\ i \in DOMAIN back[to] /\ SameKey(old[to][i], back[to][i])
          /\ Val(old[to][i]) = Val(back[to][i])
          /\ old[to][i].jump = 1 => old[to][i] = back[to][i]
      BY <1>1, <1>3 DEF Inherited
    <3>2. i \in DOMAIN back'[to]
      BY <1>6, <3>1
    <3>3. CASE back'[to][i] = back[to][i]
      BY <3>1, <3>2, <3>3
    <3>4. CASE /\ back'[to][i] = new /\ SameKey(back[to][i], new)
               /\ Better(back[to][i], new.score, new.error, new.matched)
      <4>1. new.matched < n
        BY <1>1, <1>3, <3>1, <3>4 DEF OpenTo, SameKey
      <4>2. PICK h \in DOMAIN old[to] : SameKey(old[to][h], new) /\ Val(old[to][h]) >= Val(new)
        BY <1>7, <4>1
      <4>3. h = i
        <5>1. Distinct(old[to])
          BY <1>1, <1>3 DEF WellLinked
        <5>2. SameKey(old[to][h], old[to][i])
          BY <3>1, <3>4, <4>2 DEF SameKey
        <5>3. QED
          BY <4>2, <5>1, <5>2 DEF Distinct
      <4>4. PathFacts(graph, back, to, back[to][i])
        BY <1>1, <1>2, <3>1, SourceFacts
      <4>5. Val(back[to][i]) = Val(new) /\ back[to][i].bmatched < new.matched
        <5> DEFINE v == Val(back[to][i])
                   w == Val(new)
        <5>1. v \in Int /\ w \in Int /\ v >= w
          BY <1>5, <3>1, <4>2, <4>3, <4>4, Zenon DEF PathFacts
        <5>2. v < w \/ (v = w /\ back[to][i].bmatched < new.matched)
          BY <3>4 DEF Better, Val
        <5> HIDE DEF v, w
        <5>3. v = w /\ back[to][i].bmatched < new.matched
          BY <5>1, <5>2
        <5>4. QED
          BY <5>3 DEF v, w
      <4>6. old[to][i].jump # 1
        <5>1. SUFFICES ASSUME old[to][i].jump = 1 PROVE FALSE
          OBVIOUS
        <5>2. back[to][i].bmatched = new.matched
          BY <3>1, <3>4, <4>4, <5>1, Zenon DEF PathFacts, Shape, SameKey
        <5>3. QED
          BY <1>5, <4>5, <5>2
      <4>7. QED
        BY <3>1, <3>2, <3>4, <4>5, <4>6 DEF SameKey
    <3>5. QED
      BY <1>6, <3>1, <3>3, <3>4
  <2>3. ASSUME NEW i \in DOMAIN back'[to] \ DOMAIN old[to]
        PROVE  back'[to][i].matched >= n
    <3>1. CASE i \in DOMAIN back[to]
      <4>1. back[to][i].matched >= n
        BY <1>1, <1>3, <2>3, <3>1 DEF Inherited
      <4>2. QED
        BY <1>6, <3>1, <4>1 DEF SameKey
    <3>2. CASE i \notin DOMAIN back[to]
      <4>1. back'[to][i] = new /\ \A h \in DOMAIN back[to] : ~SameKey(back[to][h], new)
        BY <1>6, <2>3, <3>2
      <4>2. ASSUME new.matched < n PROVE FALSE
        <5>1. PICK h \in DOMAIN old[to] : SameKey(old[to][h], new)
          BY <1>7, <4>2
        <5>2. h \in DOMAIN back[to] /\ SameKey(back[to][h], new)
          BY <1>1, <1>3, <5>1 DEF Inherited, SameKey
        <5>3. QED
          BY <4>1, <5>2
      <4>3. QED
        BY <1>5, <4>1, <4>2
    <3>3. QED
      BY <3>1, <3>2
  <2>4. QED
    BY <2>1, <2>2, <2>3 DEF Inherited
<1>9. \A h : IsSource(back', new, h) => back'[cur.st][h] = Back /\ (cur.st # 0 => h = cur.bi)
  <2> SUFFICES ASSUME NEW h, IsSource(back', new, h)
               PROVE  back'[cur.st][h] = Back /\ (cur.st # 0 => h = cur.bi)
    OBVIOUS
  <2>1. back'[cur.st] = back[cur.st]
    BY <1>1, <1>6
  <2>2. h \in DOMAIN back[cur.st] /\ SameKey(back[cur.st][h], Back)
    BY <1>5, <2>1 DEF IsSource, SameKey
  <2>3. CASE cur.st = 0
    BY <1>1, <1>2, <2>1, <2>2, <2>3 DEF WellLinked
  <2>4. CASE cur.st # 0
    BY <1>1, <1>2, <2>1, <2>2, <2>4 DEF WellLinked, Distinct
  <2>5. QED
    BY <2>3, <2>4
<1>10. Renewed(graph, a, old, back', cur'.st)
  <2>1. cur'.st = cur.st
    BY CurType
  <2>2. ASSUME NEW s \in States(graph) \ {0}, NEW i \in DOMAIN back[s], back'[s][i] = back[s][i]
        PROVE  \/ i \in DOMAIN old[s] /\ back'[s][i] = old[s][i]
               \/ back'[s][i].bstate <= cur.st /\ OfferedBy(graph, a, back', back'[s][i])
    <3>1. CASE i \in DOMAIN old[s] /\ back[s][i] = old[s][i]
      BY <2>2, <3>1
    <3>2. CASE back[s][i].bstate <= cur.st /\ OfferedBy(graph, a, back, back[s][i])
      <4>1. back'[back[s][i].bstate] = back[back[s][i].bstate]
        BY <1>2, <1>6, <3>2 DEF WellLinked
      <4>2. OfferedBy(graph, a, back', back[s][i])
        BY <3>2, <4>1 DEF OfferedBy, IsSource
      <4>3. QED
        BY <2>2, <3>2, <4>2
    <3>3. QED
      BY <1>3, <3>1, <3>2 DEF Renewed
  <2>3. new.bstate <= cur.st /\ OfferedBy(graph, a, back', new)
    <3>1. OfferedBy(graph, a, back', new)
      BY <1>5, <1>9 DEF OfferedBy
    <3>2. QED
      BY <1>1, <1>5, <3>1
  <2>4. ASSUME NEW s \in States(graph) \ {0}, NEW i \in DOMAIN back'[s]
        PROVE  (i \in DOMAIN back[s] /\ back'[s][i] = back[s][i]) \/ back'[s][i] = new
    BY <1>6
  <2>5. QED
    BY <2>1, <2>2, <2>3, <2>4 DEF Renewed
<1>11. ASSUME NEW s \in States(graph), NEW i, NEW k \in Nat, NEW y,
              Passed(cur', s, i, k, y), s = 0 => i = Len(back[0])
       PROVE  /\ s <= cur.st /\ NotAfter(back', s, i, k, new)
              /\ y \in Nat => \/ Passed(cur, s, i, k, y)
                              \/ s = cur.st /\ i = cur.bi /\ k = cur.ti /\ y = cur.mi
  <2>1. /\ s <= cur.st
        /\ y \in Nat => \/ Passed(cur, s, i, k, y)
                        \/ s = cur.st /\ i = cur.bi /\ k = cur.ti /\ y = cur.mi
        /\ cur'.st = cur.st /\ cur'.bi = cur.bi /\ cur'.ti = cur.ti
    BY <1>11, PassesMatch
  <2>2. s < cur.st \/ (s = cur.st /\ (i < cur.bi \/ (i = cur.bi /\ (k < cur.ti \/ k = cur.ti))))
    BY <1>11, <2>1 DEF Passed
  <2>3. NotAfter(back', s, i, k, new)
    <3>1. CASE s < cur.st
      BY <1>5, <3>1 DEF NotAfter
    <3>2. CASE s = cur.st /\ s = 0
      <4>1. ~(i < cur.bi)
        <5>1. back[0] \in Seq(BackType(graph)) /\ cur.bi \in DOMAIN back[0] /\ i = Len(back[0])
          BY <1>1, <1>2, <1>11, <3>2
        <5>2. QED
          BY <5>1
      <4>2. k <= cur.ti
        BY <1>1, <1>11, <2>2, <3>2, <4>1
      <4>3. QED
        BY <1>5, <3>2, <4>2 DEF NotAfter
    <3>3. CASE s = cur.st /\ s # 0
      <4>1. IsSource(back', new, cur.bi)
        <5>1. back'[cur.st] = back[cur.st]
          BY <1>1, <1>6
        <5>2. QED
          BY <1>1, <1>5, <5>1 DEF IsSource
      <4>2. i < cur.bi \/ (i = cur.bi /\ k <= cur.ti)
        BY <1>1, <1>11, <2>2, <3>3
      <4>3. QED
        BY <1>5, <3>3, <4>1, <4>2 DEF NotAfter
    <3>4. QED
      BY <2>1, <1>1, <1>2, <3>1, <3>2, <3>3
  <2>4. QED
    BY <2>1, <2>3
<1>12. LastSoFar(graph, a, back', cur', bestScore)
  <2> SUFFICES ASSUME NEW s \in States(graph), NEW i \in DOMAIN back'[s],
                      NEW k \in DOMAIN graph.trans[s], NEW y, NEW other,
                      Passed(cur', s, i, k, y), s = 0 => i = Len(back'[0]),
                      Offers(graph, a, s, back'[s][i], k, y, other)
               PROVE  Last(graph, back', bestScore, s, i, k, other)
    BY Zenon DEF LastSoFar
  <2> DEFINE v == graph.trans[s][k].to
  <2> SUFFICES ASSUME other.jump # 1, NEW h \in DOMAIN back'[v],
                      SameKey(back'[v][h], other), Val(back'[v][h]) = Val(other),
                      Hopeful(graph, v, back'[v][h], bestScore)
               PROVE  NotAfter(back', s, i, k, back'[v][h])
    BY Zenon DEF Last
  <2>1. back'[0] = back[0] /\ k \in Nat /\ v \in States(graph)
    <3>1. 0 \in States(graph)
      BY CurType, Cleared
    <3>2. QED
      BY <1>1, <1>2, <1>6, <3>1, TransFacts, Zenon
  <2>2. /\ s <= cur.st /\ NotAfter(back', s, i, k, new)
        /\ y \in Nat => \/ Passed(cur, s, i, k, y)
                        \/ s = cur.st /\ i = cur.bi /\ k = cur.ti /\ y = cur.mi
    BY <1>11, <2>1, Zenon
  <2>3. back'[s] = back[s]
    BY <1>6, <2>2, Zenon
  <2>4. y \in Nat
    <3>1. back[s][i] \in BackType(graph) /\ back[s][i].matched < Len(prefix)
      <4>1. back[s] \in Seq(BackType(graph)) /\ i \in DOMAIN back[s]
        BY <1>2, <2>3
      <4>2. back[s][i] \in BackType(graph)
        BY ONLY <4>1
      <4>3. back[s][i].matched < Len(prefix)
        <5>1. Open
          BY DEF IInv
        <5>2. QED
          BY ONLY <4>1, <5>1 DEF Open
      <4>4. QED
        BY <4>2, <4>3
    <3>2. QED
      BY <1>2, <1>3, <1>4, <2>3, <3>1, OfferFacts
  <2>5. CASE back'[v][h] = new
    BY <2>2, <2>5, Zenon
  <2>6. CASE h \in DOMAIN back[v] /\ back'[v][h] = back[v][h] /\ back'[v][h] # new
    <3>1. CASE Passed(cur, s, i, k, y)
      <4>1. Last(graph, back, bestScore, s, i, k, other)
        BY <1>3, <2>1, <2>3, <3>1 DEF LastSoFar
      <4>2. NotAfter(back, s, i, k, back[v][h])
        BY <2>6, <4>1, Zenon DEF Last
      <4>3. QED
        BY <2>3, <2>6, <4>2, Zenon DEF NotAfter, IsSource
    <3>2. CASE s = cur.st /\ i = cur.bi /\ k = cur.ti /\ y = cur.mi
      <4>1. v = to /\ other = new
        BY <1>1, <2>3, <3>2, Zenon DEF Offers
      <4>2. SameKey(back[to][h], new) /\ Val(back[to][h]) = Val(new) /\ back[to][h].jump # 1
        BY <2>6, <4>1 DEF SameKey
      <4>3. PathFacts(graph, back, to, back[to][h])
        BY <1>1, <1>2, <2>6, <4>1, SourceFacts, Zenon
      <4>4. Better(back[to][h], new.score, new.error, new.matched)
        BY <4>2, <4>3, Zenon DEF Better, Val, PathFacts, Shape, SameKey
      <4>5. QED
        BY <1>6, <2>6, <4>1, <4>2, <4>4
    <3>3. QED
      BY <2>2, <2>4, <3>1, <3>2, Zenon
  <2>7. QED
    BY <1>6, <2>1, <2>5, <2>6, Zenon
<1>13. QED
  BY <1>8, <1>10, <1>12 DEF Grown

-------------------------------------------------------------------------
(* The search that comes after a failed one, and what it leaves if it fails *)
(* as well.                                                                *)

History == \E old, n : Grown(graph, Asked, old, n, back, cur, bestScore)

HInv == /\ Searching /\ jumpLenThreshold >= graph.n /\ (Growing \/ Len(back[0]) = 1) => History
        /\ pc = "idle" /\ jumpLenThreshold >= graph.n /\ Growing /\ back[0] # << >>
             => Fixed(graph, Asked, back, Len(prefix))

(* When the loop has come past all states. *)
LEMMA HistoryOffers ==
  ASSUME IInv, SInv, Searching, History, cur.st = graph.n,
         NEW s \in States(graph) \ {0}, NEW i \in DOMAIN back[s],
         Hopeful(graph, s, back[s][i], bestScore)
  PROVE  OfferedBy(graph, Asked, back, back[s][i])
<1>1. PICK old, n : Grown(graph, Asked, old, n, back, cur, bestScore)
  BY DEF History
<1>2. /\ graph \in Graphs /\ cur.st \in Int /\ bestScore \in Int /\ MinScore <= bestScore
      /\ s <= cur.st /\ back[0] # << >>
  BY CurType DEF SInv, Topped, Begun, States
<1>3. WellLinked(graph, back) /\ OpenTo(graph, back, Len(Asked.tokens))
  BY Linkedness DEF SInv, Asked
<1>4. QED
  BY <1>1, <1>2, <1>3, SettledOffered

LEMMA HistoryExact ==
  ASSUME IInv, SInv, Searching, History, cur.st = graph.n
  PROVE  HopefulExact(bestScore)
BY HistoryOffers, OfferedExact DEF HopefulExact

(* What the loop may make of the recorded paths. *)
LEMMA OfferRange ==
  ASSUME IInv, Searching, NEW s \in States(graph), NEW i \in DOMAIN back[s],
         NEW k \in DOMAIN graph.trans[s], NEW y, NEW new,
         Offers(graph, Asked, s, back[s][i], k, y, new)
  PROVE  /\ y \in Nat
         /\ \A top \in Int : Hopeful(graph, graph.trans[s][k].to, new, top)
                              => Hopeful(graph, s, back[s][i], top)
<1>1. IsAsked(Asked) /\ graph \in Graphs
  BY DEF Searching, IInv, TypeOK, IsAsked, Asked
<1>2. back[s][i] \in BackType(graph) /\ back[s][i].matched < Len(Asked.tokens)
  BY CurType DEF IInv, Open, Asked
<1>3. QED
  BY <1>1, <1>2, OfferFacts

(* The steps of the loop. *)
LEMMA JumpHistory ==
  ASSUME IInv, SInv, process_jump, jumpLenThreshold >= graph.n, History
  PROVE  History'
<1>1. PICK old, n : Grown(graph, Asked, old, n, back, cur, bestScore)
  BY DEF History
<1>2. /\ AtTransition /\ Searching /\ cur.mi = 0 /\ ~(StartOfBack /\ Hopeless)
      /\ UNCHANGED << jumpLenThreshold, graph, prefix, space, partial, pc, best, bestScore >>
  BY DEF process_jump, searchVars, AtTransition, AtBack, AtState, Searching
<1>3. cur' = [cur EXCEPT !.mi = @ + 1]
  BY <1>2 DEF process_jump
<1>4. Asked' = Asked
  BY <1>2 DEF Asked
<1>5. CASE Back.jump # 2
  <2> DEFINE error == IF Back.jump = 0 THEN 1 ELSE 0
             new == Continue(error, Back.matched, 1)
  <2>1. JumpAllowed
    BY <1>2, <1>5, JumpsAllowed DEF SInv
  <2>2. IsExtension(new)
    <3>1. Back.matched \in Back.matched .. Len(prefix) - 1
      BY <1>2, Positions
    <3>2. QED
      BY <1>2, <3>1, ContinueIsExtension
  <2>3. back' = [back EXCEPT ![Trans.to] = Record(@, new)]
    BY <2>1 DEF process_jump
  <2>4. Hopeful(graph, cur.st, Back, MinScore)
    BY <1>2, GoesOver DEF SInv
  <2>5. Offers(graph, Asked, cur.st, Back, cur.ti, cur.mi, new)
    BY <1>2, <1>5 DEF Offers, Made, Continue, Trans
  <2> HIDE DEF new
  <2>6. Grown(graph, Asked, old, n, back', cur', bestScore)
    BY <1>1, <1>2, <1>3, <2>2, <2>3, <2>4, <2>5, GrownRecorded
  <2>7. QED
    BY <1>2, <1>4, <2>6 DEF History
<1>6. CASE Back.jump = 2
  <2>1. back' = back
    BY <1>6 DEF process_jump, JumpAllowed
  <2>2. /\ graph \in Graphs /\ WellLinked(graph, back)
        /\ cur.st \in Int /\ cur'.st \in Int /\ cur.st <= cur'.st /\ bestScore \in Int
    BY <1>2, <1>3, CurType, Linkedness, PassesMatch DEF SInv
  <2>3. ASSUME NEW s \in States(graph), NEW i \in DOMAIN back[s], NEW k \in DOMAIN graph.trans[s],
               NEW y, NEW new, Passed(cur', s, i, k, y),
               Offers(graph, Asked, s, back[s][i], k, y, new)
        PROVE  Passed(cur, s, i, k, y)
    <3>1. y \in Nat
      BY <1>2, <2>3, OfferRange
    <3>2. CASE s = cur.st /\ i = cur.bi /\ y = 0
      <4>1. back[s][i].jump = 2
        BY <1>6, <3>2 DEF Back
      <4>2. QED
        BY <2>3, <3>2, <4>1 DEF Offers
    <3>3. QED
      BY <1>2, <1>3, <2>3, <3>1, <3>2, PassesMatch
  <2>4. bestScore <= bestScore
    BY <2>2
  <2>5. Grown(graph, Asked, old, n, back, cur', bestScore)
    BY <1>1, <2>2, <2>3, <2>4, GrownMoves
  <2>6. QED
    BY <1>2, <1>4, <2>1, <2>5 DEF History
<1>7. QED
  BY <1>5, <1>6

LEMMA MatchHistory ==
  ASSUME IInv, SInv, process_match, History
  PROVE  History'
<1>1. PICK old, n : Grown(graph, Asked, old, n, back, cur, bestScore)
  BY DEF History
<1> DEFINE x == Matches[cur.mi]
<1>2. /\ AtTransition /\ Searching /\ cur.mi \in DOMAIN Matches /\ cur.mi # 0
      /\ UNCHANGED << jumpLenThreshold, graph, prefix, space, partial, pc >>
      /\ cur' = [cur EXCEPT !.mi = @ + 1]
      /\ x.error \in Nat /\ x.pm \in Back.matched + 1 .. Len(prefix)
      /\ MatchOn(x) \/ Complete(x)
  BY MatchFound DEF process_match, searchVars, AtTransition, AtBack, AtState, Searching
<1>3. Asked' = Asked
  BY <1>2 DEF Asked
<1>4. Finds(graph, Asked, cur.st, Back, cur.ti) = Matches
  BY DEF Finds, Asked, Matches, Trans
<1>5. CASE MatchOn(x)
  <2> DEFINE jump == IF Back.jump = 0 THEN 0 ELSE 2
             new == Continue(x.error, x.pm, jump)
  <2>1. /\ x.pm < Len(prefix) /\ UNCHANGED << best, bestScore >>
        /\ back' = [back EXCEPT ![Trans.to] = Record(@, new)]
    BY <1>5 DEF MatchOn
  <2>2. x.pm \in Back.matched .. Len(prefix) - 1
    <3>1. Back.matched \in Nat /\ Len(prefix) \in Nat
      BY <1>2, Positions DEF BackType
    <3> HIDE DEF x
    <3>2. QED
      BY <1>2, <2>1, <3>1
  <2>3. IsExtension(new)
    <3>1. jump \in 0 .. 2
      OBVIOUS
    <3> HIDE DEF x, jump
    <3>2. QED
      BY <1>2, <2>2, <3>1, ContinueIsExtension
  <2>4. Hopeful(graph, cur.st, Back, MinScore)
    BY <1>2, GoesOver DEF SInv, StartOfBack
  <2>5. Offers(graph, Asked, cur.st, Back, cur.ti, cur.mi, new)
    <3>1. new = Made(graph, cur.st, Back, cur.ti, x.error, x.pm, jump)
      BY DEF Made, Continue, Trans
    <3>2. Asked.tokens = prefix
      BY DEF Asked
    <3> HIDE DEF new
    <3>3. QED
      BY <1>2, <1>4, <2>1, <3>1, <3>2 DEF Offers
  <2> HIDE DEF new
  <2>6. Grown(graph, Asked, old, n, back', cur', bestScore)
    BY <1>1, <1>2, <2>1, <2>3, <2>4, <2>5, GrownRecorded
  <2>7. QED
    BY <1>2, <1>3, <2>1, <2>6 DEF History
<1>6. CASE Complete(x)
  <2>1. x.pm = Len(prefix) /\ back' = back
    BY <1>6 DEF Complete
  <2>2. bestScore' \in Int /\ bestScore \in Int
    BY MatchStep, CurType DEF IInv, TypeOK
  <2>3. bestScore <= bestScore'
    <3> DEFINE w == Worth(Back.score + Trans.score + graph.fscore[Trans.to], Back.error + x.error)
    <3>1. bestScore' = Max({bestScore, w}) \/ bestScore' = bestScore
      BY <1>6 DEF Complete
    <3>2. w \in Int
      <4>1. /\ Back.score \in Int /\ Back.error \in Int
            /\ Trans.score \in Int /\ graph.fscore[Trans.to] \in Int
        BY <1>2, Positions DEF BackType, TransitionType
      <4> DEFINE u == Back.score + Trans.score + graph.fscore[Trans.to]
                 v == Back.error + x.error
      <4>2. u \in Int /\ v \in Int
        BY <1>2, <4>1
      <4> HIDE DEF u, v
      <4>3. Worth(u, v) \in Int
        BY <4>2, WorthAdds
      <4>4. QED
        BY <4>3 DEF u, v
    <3> HIDE DEF w
    <3>3. QED
      BY <2>2, <3>1, <3>2, MaxOfTwo
  <2>4. /\ graph \in Graphs /\ WellLinked(graph, back)
        /\ cur.st \in Int /\ cur'.st \in Int /\ cur.st <= cur'.st
    BY <1>2, CurType, Linkedness, PassesMatch DEF SInv
  <2>5. ASSUME NEW s \in States(graph), NEW i \in DOMAIN back[s], NEW k \in DOMAIN graph.trans[s],
               NEW y, NEW new, Passed(cur', s, i, k, y),
               Offers(graph, Asked, s, back[s][i], k, y, new)
        PROVE  Passed(cur, s, i, k, y)
    <3>1. y \in Nat
      BY <1>2, <2>5, OfferRange
    <3>2. ~(s = cur.st /\ i = cur.bi /\ k = cur.ti /\ y = cur.mi)
      <4>1. SUFFICES ASSUME s = cur.st, i = cur.bi, k = cur.ti, y = cur.mi PROVE FALSE
        OBVIOUS
      <4>2. Finds(graph, Asked, s, back[s][i], k) = Matches
        BY <1>4, <4>1 DEF Back
      <4>3. x.pm < Len(prefix)
        BY <1>2, <2>5, <4>1, <4>2 DEF Offers, Asked
      <4>4. Len(prefix) \in Nat
        BY <1>2, Positions
      <4> HIDE DEF x
      <4>5. QED
        BY <2>1, <4>3, <4>4
    <3>3. QED
      BY <1>2, <2>5, <3>1, <3>2, PassesMatch
  <2>6. Grown(graph, Asked, old, n, back, cur', bestScore')
    BY <1>1, <2>2, <2>3, <2>4, <2>5, GrownMoves
  <2>7. QED
    BY <1>2, <1>3, <2>1, <2>6 DEF History
<1>7. QED
  BY <1>2, <1>5, <1>6

LEMMA MoveHistory ==
  ASSUME IInv, SInv, NextTransition \/ NextBack \/ NextState, History
  PROVE  History'
<1>1. PICK old, n : Grown(graph, Asked, old, n, back, cur, bestScore)
  BY DEF History
<1>2. /\ Searching
      /\ UNCHANGED << jumpLenThreshold, graph, prefix, space, partial, pc, back, best, bestScore >>
  BY DEF NextTransition, NextBack, NextState, searchVars, AtTransition, AtBack, AtState, Searching
<1>3. Asked' = Asked
  BY <1>2 DEF Asked
<1>4. /\ graph \in Graphs /\ WellLinked(graph, back) /\ bestScore \in Int
      /\ cur.st \in Int /\ cur'.st \in Int /\ cur.st <= cur'.st
  BY CurType, Linkedness, MovesOn DEF SInv
<1>5. ASSUME NEW s \in States(graph), NEW i \in DOMAIN back[s], NEW k \in DOMAIN graph.trans[s],
             NEW y, NEW new, Passed(cur', s, i, k, y),
             Offers(graph, Asked, s, back[s][i], k, y, new)
      PROVE  Passed(cur, s, i, k, y) \/ Last(graph, back, bestScore, s, i, k, new)
  <2>1. y \in Nat
    BY <1>2, <1>5, OfferRange
  <2>2. CASE AtTransition /\ s = cur.st /\ i = cur.bi /\ k = cur.ti /\ y > Len(Matches)
    <3>1. Finds(graph, Asked, s, back[s][i], k) = Matches
      BY <2>2 DEF Finds, Asked, Matches, Trans, Back
    <3>2. Matches \in Seq(MatchType(prefix, Back.matched, Trans.output))
      BY <2>2, Positions
    <3>3. y # 0 /\ y \notin DOMAIN Matches
      <4> DEFINE M == MatchType(prefix, Back.matched, Trans.output)
                 E == Matches
      <4>1. E \in Seq(M) /\ y > Len(E)
        BY <2>2, <3>2
      <4> HIDE DEF M, E
      <4>2. y # 0 /\ y \notin DOMAIN E
        BY <2>1, <4>1
      <4>3. QED
        BY <4>2 DEF E
    <3>4. QED
      BY <1>5, <3>1, <3>3 DEF Offers
  <2>3. CASE s = cur.st /\ i = cur.bi /\ Hopeless
    <3> DEFINE to == graph.trans[s][k].to
    <3>1. SUFFICES ASSUME NEW h \in DOMAIN back[to], Val(back[to][h]) = Val(new),
                          Hopeful(graph, to, back[to][h], bestScore)
                   PROVE  FALSE
      BY DEF Last
    <3>2. Hopeful(graph, to, new, bestScore)
      BY <3>1 DEF Hopeful, Val
    <3>3. Hopeful(graph, s, back[s][i], bestScore)
      BY <1>2, <1>4, <1>5, <3>2, OfferRange
    <3>4. graph.fscore[s] + Worth(back[s][i].score, back[s][i].error) < bestScore
      BY <2>3 DEF Hopeless, Back
    <3> DEFINE W == graph.fscore[s] + Worth(back[s][i].score, back[s][i].error)
    <3>5. W \in Int
      <4> DEFINE u == back[s][i].score
                 v == back[s][i].error
      <4>1. back[s][i] \in BackType(graph) /\ graph.fscore[s] \in Int
        BY CurType, GraphsAssumption DEF GraphType
      <4>2. u \in Int /\ v \in Int
        BY <4>1 DEF BackType
      <4> HIDE DEF u, v
      <4>3. Worth(u, v) \in Int
        BY <4>2, WorthAdds
      <4>4. QED
        BY <4>1, <4>3 DEF u, v
    <3>6. W >= bestScore /\ W < bestScore
      BY <3>3, <3>4 DEF Hopeful
    <3> HIDE DEF W
    <3>7. QED
      BY <1>4, <3>5, <3>6
  <2>4. QED
    BY <1>5, <2>1, <2>2, <2>3, PassesMove DEF SInv
<1>6. Grown(graph, Asked, old, n, back, cur', bestScore)
  BY <1>1, <1>4, <1>5, GrownMoves
<1>7. QED
  BY <1>2, <1>3, <1>6 DEF History

-------------------------------------------------------------------------
(* From one search to the next. *)

(* What a failed search has left is as good for a request that goes on.    *)
LEMMA FixedStands ==
  ASSUME NEW g \in Graphs, NEW a, NEW d, IsAsked(d), GoesOn(a.tokens, d.tokens),
         NEW bk, Fixed(g, a, bk, Len(a.tokens))
  PROVE  Fixed(g, d, bk, Len(a.tokens))
<1> DEFINE n == Len(a.tokens)
<1>1. /\ IsAsked(a) /\ WellLinked(g, bk) /\ OpenTo(g, bk, n) /\ (n > 0 => bk[0] # << >>)
      /\ AllOffered(g, a, bk) /\ AllKept(g, a, bk, n) /\ AllLast(g, a, bk)
  BY DEF Fixed
<1>2. n \in Nat /\ Len(d.tokens) \in Nat /\ n <= Len(d.tokens)
  BY <1>1, Tokens DEF IsAsked, GoesOn
<1>3. \A s \in States(g) : \A i \in DOMAIN bk[s] : bk[s][i] \in BackType(g) /\ bk[s][i].matched < n
  BY <1>1 DEF WellLinked, OpenTo
<1>4. ASSUME NEW s \in States(g), NEW i \in DOMAIN bk[s], NEW k \in DOMAIN g.trans[s], NEW new,
             new.matched < n
      PROVE  (\E y : Offers(g, a, s, bk[s][i], k, y, new))
               <=> (\E y : Offers(g, d, s, bk[s][i], k, y, new))
  BY <1>1, <1>3, <1>4, OfferStands
<1>5. AllOffered(g, d, bk)
  <2> SUFFICES ASSUME NEW s \in States(g) \ {0}, NEW i \in DOMAIN bk[s],
                      Hopeful(g, s, bk[s][i], MinScore),
                      NEW h, IsSource(bk, bk[s][i], h)
               PROVE  \E y : Offers(g, d, bk[s][i].bstate, bk[bk[s][i].bstate][h], bk[s][i].tr, y, bk[s][i])
    BY DEF AllOffered, OfferedBy
  <2> DEFINE b == bk[s][i]
  <2>1. /\ b.bstate \in States(g) /\ b.tr \in DOMAIN g.trans[b.bstate] /\ h \in DOMAIN bk[b.bstate]
        /\ b.matched < n
    BY <1>1, <1>3 DEF WellLinked, IsSource
  <2>2. \E y : Offers(g, a, b.bstate, bk[b.bstate][h], b.tr, y, b)
    BY <1>1 DEF AllOffered, OfferedBy
  <2> HIDE DEF b
  <2>3. \E y : Offers(g, d, b.bstate, bk[b.bstate][h], b.tr, y, b)
    BY <1>4, <2>1, <2>2
  <2>4. QED
    BY <2>3 DEF b
<1>6. AllKept(g, d, bk, n)
  <2> SUFFICES ASSUME NEW s \in States(g), NEW i \in DOMAIN bk[s], NEW k \in DOMAIN g.trans[s],
                      NEW y, NEW new, Hopeful(g, s, bk[s][i], MinScore),
                      Offers(g, d, s, bk[s][i], k, y, new), new.matched < n
               PROVE  Has(bk[g.trans[s][k].to], new.matched, new.jump, Val(new))
    BY DEF AllKept
  <2>1. \E z : Offers(g, a, s, bk[s][i], k, z, new)
    BY <1>4
  <2>2. QED
    BY <1>1, <2>1 DEF AllKept
<1>7. AllLast(g, d, bk)
  <2> SUFFICES ASSUME NEW s \in States(g), NEW i \in DOMAIN bk[s], NEW k \in DOMAIN g.trans[s],
                      NEW y, NEW new, Offers(g, d, s, bk[s][i], k, y, new)
               PROVE  Last(g, bk, MinScore, s, i, k, new)
    BY DEF AllLast
  <2>1. CASE new.matched < n
    <3>1. \E z : Offers(g, a, s, bk[s][i], k, z, new)
      BY <1>4, <2>1
    <3>2. QED
      BY <1>1, <3>1 DEF AllLast
  <2>2. CASE ~(new.matched < n)
    <3>1. g.trans[s][k].to \in States(g)
      BY TransFacts
    <3>2. \A h \in DOMAIN bk[g.trans[s][k].to] : ~SameKey(bk[g.trans[s][k].to][h], new)
      BY <1>3, <2>2, <3>1 DEF SameKey
    <3>3. QED
      BY <3>2 DEF Last
  <2>3. QED
    BY <2>1, <2>2
<1>8. n \in 0 .. Len(d.tokens)
  BY <1>2
<1> HIDE DEF n
<1>9. Fixed(g, d, bk, n)
  BY <1>1, <1>5, <1>6, <1>7, <1>8 DEF Fixed
<1>10. QED
  BY <1>9 DEF n

(* A path to begin with is no source of what was there. *)
LEMMA LinkedBegun ==
  ASSUME NEW g \in Graphs, NEW bk, WellLinked(g, bk), NEW new,
         new = [bk EXCEPT ![0] = Append(@, InitialBack)], InitialBack \in BackType(g)
  PROVE  /\ WellLinked(g, new) /\ \A s \in States(g) \ {0} : new[s] = bk[s]
<1>1. 0 \in States(g) /\ bk \in [States(g) -> Seq(BackType(g))]
  BY Cleared DEF WellLinked
<1>2. /\ new \in [States(g) -> Seq(BackType(g))]
      /\ \A s \in States(g) \ {0} : new[s] = bk[s]
      /\ new[0] = Append(bk[0], InitialBack)
  <2>1. Append(bk[0], InitialBack) \in Seq(BackType(g))
    BY <1>1
  <2>2. QED
    BY <1>1, <2>1
<1>3. /\ \A i \in DOMAIN bk[0] : i \in DOMAIN new[0] /\ new[0][i] = bk[0][i]
      /\ \A i \in DOMAIN new[0] : i \in DOMAIN bk[0] \/ new[0][i] = InitialBack
  <2> DEFINE S == bk[0]
             B == BackType(g)
             x == InitialBack
  <2>1. S \in Seq(B) /\ x \in B /\ new[0] = Append(S, x)
    BY <1>1, <1>2
  <2> HIDE DEF S, B, x
  <2>2. /\ \A i \in DOMAIN S : i \in DOMAIN Append(S, x) /\ Append(S, x)[i] = S[i]
        /\ \A i \in DOMAIN Append(S, x) : i \in DOMAIN S \/ Append(S, x)[i] = x
    BY <2>1
  <2>3. QED
    BY <2>1, <2>2 DEF S, x
<1>4. \A i \in DOMAIN new[0] : new[0][i] = InitialBack
  BY <1>3 DEF WellLinked
<1>5. \A b : \A h : b.bstate \in States(g) /\ IsSource(bk, b, h) => IsSource(new, b, h)
  BY <1>2, <1>3 DEF IsSource
<1>6. QED
  BY <1>2, <1>4, <1>5 DEF WellLinked

(* A search that begins. *)
LEMMA GrownBegins ==
  ASSUME NEW g \in Graphs, NEW a, NEW old, NEW n, NEW bk, NEW top, Fixed(g, a, old, n),
         WellLinked(g, bk), OpenTo(g, bk, Len(a.tokens)),
         \A s \in States(g) \ {0} : bk[s] = old[s]
  PROVE  Grown(g, a, old, n, bk, Start, top)
<1>1. Inherited(g, old, n, bk)
  BY DEF Inherited, SameKey
<1>2. Renewed(g, a, old, bk, Start.st)
  BY DEF Renewed
<1>3. LastSoFar(g, a, bk, Start, top)
  <2> SUFFICES ASSUME NEW s \in States(g), NEW i \in DOMAIN bk[s], NEW k \in DOMAIN g.trans[s],
                      NEW y, NEW new, Passed(Start, s, i, k, y), Offers(g, a, s, bk[s][i], k, y, new)
               PROVE  FALSE
    BY DEF LastSoFar
  <2>1. bk[s][i] \in BackType(g) /\ bk[s][i].matched < Len(a.tokens) /\ bk[s] \in Seq(BackType(g))
    BY DEF WellLinked, OpenTo
  <2>2. y \in Nat
    BY <2>1, OfferFacts DEF Fixed
  <2>3. s \in Nat /\ i \in Nat \ {0} /\ k \in Nat \ {0}
    <3>1. i \in Nat \ {0}
      BY <2>1
    <3>2. s \in Nat
      BY TransFacts
    <3>3. k \in Nat \ {0}
      <4>1. g.trans[s] \in Seq(TransitionType)
        BY GraphsAssumption DEF GraphType
      <4>2. QED
        BY <4>1
    <3>4. QED
      BY <3>1, <3>2, <3>3
  <2>4. QED
    BY <2>2, <2>3 DEF Passed, Start
<1>4. QED
  BY <1>1, <1>2, <1>3 DEF Grown

(* A request begins a search with that. *)
LEMMA RequestHistory ==
  ASSUME IInv, Fresh, SInv, HInv, NEW r \in Requests, getPrefix(r),
         jumpLenThreshold >= graph.n, Growing \/ Len(back'[0]) = 1
  PROVE  History'
<1>1. /\ graph \in Graphs /\ 0 \in States(graph) /\ back \in [States(graph) -> Seq(BackType(graph))]
      /\ WellLinked(graph, back) /\ OpenTo(graph, back, Len(prefix)) /\ back[0] \in Seq(BackType(graph))
  BY CurType, Cleared, Linkedness DEF SInv
<1>2. /\ pc = "idle" /\ graph' = graph /\ prefix' = r.tokens /\ Len(r.tokens) \in Nat
      /\ back' = [back EXCEPT ![0] = Append(@, InitialBack)]
      /\ cur' = Start /\ (Growing => Extends(r))
  BY Tokens DEF getPrefix
<1>3. IInv'
  BY RequestStep
<1>4. IsAsked(Asked')
  <2>1. Asked' = [tokens |-> r.tokens, space |-> r.space, part |-> partial'] /\ partial' \in SUBSET Words
    BY <1>3 DEF Asked, getPrefix, IInv, TypeOK
  <2>2. QED
    BY <2>1 DEF IsAsked
<1>5. InitialBack \in BackType(graph)
  <2>1. 0 \in DOMAIN back' /\ back'[0] = Append(back[0], InitialBack) /\ back'[0] \in Seq(BackType(graph))
    BY <1>1, <1>2, <1>3 DEF IInv, TypeOK
  <2> DEFINE S == back[0]
             B == BackType(graph)
             x == InitialBack
  <2>2. S \in Seq(B) /\ Append(S, x) \in Seq(B)
    BY <1>1, <2>1
  <2> HIDE DEF S, B, x
  <2>3. x \in B
    <3>1. Len(Append(S, x)) = Len(S) + 1 /\ Append(S, x)[Len(S) + 1] = x /\ Len(S) + 1 \in DOMAIN Append(S, x)
      BY <2>2
    <3>2. QED
      BY <2>2, <3>1
  <2>4. QED
    BY <2>3 DEF B, x
<1>6. WellLinked(graph, back') /\ \A s \in States(graph) \ {0} : back'[s] = back[s]
  BY <1>1, <1>2, <1>5, LinkedBegun
<1>7. OpenTo(graph, back', Len(Asked'.tokens))
  BY <1>2, <1>3 DEF IInv, Open, OpenTo, Asked
<1>8. \E n : Fixed(graph, Asked', back, n)
  <2>1. CASE back[0] = << >>
    <3>1. \A s \in States(graph) : back[s] = << >> /\ DOMAIN back[s] = {}
      BY <2>1 DEF Fresh
    <3>2. 0 \in 0 .. Len(Asked'.tokens) /\ ~(0 > 0)
      BY <1>2 DEF Asked
    <3>3. OpenTo(graph, back, 0)
      BY <3>1 DEF OpenTo
    <3>4. AllOffered(graph, Asked', back) /\ AllKept(graph, Asked', back, 0) /\ AllLast(graph, Asked', back)
      BY <3>1 DEF AllOffered, AllKept, AllLast
    <3>5. Fixed(graph, Asked', back, 0)
      BY <1>1, <1>4, <3>2, <3>3, <3>4 DEF Fixed
    <3>6. QED
      BY <3>5
  <2>2. CASE back[0] # << >>
    <3>1. Growing
      <4>1. Len(back'[0]) = Len(back[0]) + 1 /\ Len(back[0]) \in Nat /\ Len(back[0]) # 0
        BY <1>1, <1>2, <2>2
      <4> DEFINE x == Len(back'[0])
                 y == Len(back[0])
      <4>2. x = y + 1 /\ y \in Nat /\ y # 0
        BY <4>1
      <4> HIDE DEF x, y
      <4>3. x # 1
        BY <4>2
      <4>4. QED
        BY <4>3 DEF x
    <3>2. Fixed(graph, Asked, back, Len(Asked.tokens))
      BY <1>2, <2>2, <3>1 DEF HInv, Asked
    <3>3. GoesOn(Asked.tokens, Asked'.tokens)
      <4>1. Asked.tokens = prefix /\ Asked'.tokens = r.tokens
        BY <1>2 DEF Asked
      <4>2. Len(prefix) > 0 /\ Len(prefix) \in Nat
        <5>1. 1 \in DOMAIN back[0]
          BY <1>1, <2>2
        <5>2. back[0][1].matched < Len(prefix) /\ back[0][1] = InitialBack
          BY <1>1, <5>1 DEF OpenTo, WellLinked
        <5>3. prefix \in Seq(Words)
          BY DEF IInv, TypeOK
        <5>4. QED
          BY <5>2, <5>3 DEF InitialBack
      <4>3. QED
        BY <1>2, <3>1, <4>1, <4>2 DEF Extends, GoesOn
    <3>4. QED
      BY <1>1, <1>4, <3>2, <3>3, FixedStands
  <2>3. QED
    BY <2>1, <2>2
<1>9. PICK n : Fixed(graph, Asked', back, n)
  BY <1>8
<1>10. Grown(graph, Asked', back, n, back', Start, bestScore')
  BY <1>1, <1>6, <1>7, <1>9, GrownBegins
<1>11. QED
  BY <1>2, <1>10 DEF History

(* What a search that fails leaves in its turn. *)
LEMMA FailHistory ==
  ASSUME IInv, SInv, Searching, History, jumpLenThreshold >= graph.n, cur.st = graph.n, best = << >>
  PROVE  Fixed(graph, Asked, back, Len(prefix))
<1>1. /\ graph \in Graphs /\ cur.st \in Int /\ bestScore = MinScore
      /\ WellLinked(graph, back) /\ OpenTo(graph, back, Len(prefix)) /\ back[0] # << >>
  BY CurType, Linkedness, NoCompletions DEF SInv, Topped, Begun
<1>2. IsAsked(Asked) /\ Len(prefix) \in 0 .. Len(Asked.tokens)
  BY DEF Searching, IInv, TypeOK, IsAsked, Asked
<1>3. AllOffered(graph, Asked, back)
  BY <1>1, HistoryOffers DEF AllOffered
<1>4. AllKept(graph, Asked, back, Len(prefix))
  <2> SUFFICES ASSUME NEW s \in States(graph), NEW i \in DOMAIN back[s], NEW k \in DOMAIN graph.trans[s],
                      NEW y, NEW new, Hopeful(graph, s, back[s][i], MinScore),
                      Offers(graph, Asked, s, back[s][i], k, y, new)
               PROVE  Has(back[graph.trans[s][k].to], new.matched, new.jump, Val(new))
    BY DEF AllKept
  <2> DEFINE b == back[s][i]
             t == graph.trans[s][k]
             E == EditMatches(prefix, b.matched, t.output, partial, space)
  <2>1. Finds(graph, Asked, s, b, k) = E /\ Len(Asked.tokens) = Len(prefix)
    BY DEF Finds, Asked
  <2>2. E \in Seq(MatchType(prefix, b.matched, t.output))
    <3>1. PICK r \in Requests, part \in SUBSET Words :
            prefix = r.tokens /\ space = r.space /\ partial = part
      BY <1>2 DEF IsAsked, Asked
    <3>2. b.matched \in 0 .. Len(r.tokens) - 1
      <4>1. b \in BackType(graph) /\ b.matched < Len(prefix)
        BY <1>1 DEF WellLinked, OpenTo
      <4>2. b.matched \in Nat
        BY <4>1 DEF BackType
      <4>3. QED
        BY <3>1, <4>1, <4>2, Tokens
    <3>3. QED
      BY <1>1, <3>1, <3>2, MatchesAssumption
  <2>3. y \in MatchPositions(graph, prefix, space, partial, back, s, i, k)
    <3> DEFINE M == MatchType(prefix, b.matched, t.output)
    <3>1. y = 0 \/ y \in DOMAIN E
      BY <2>1 DEF Offers
    <3>2. E \in Seq(M)
      BY <2>2
    <3> HIDE DEF E, M
    <3>3. y \in 0 .. Len(E)
      BY <3>1, <3>2
    <3>4. QED
      BY <3>3 DEF MatchPositions, E
  <2>4. Passed(cur, s, i, k, y)
    BY <1>1, TransFacts DEF Passed, States
  <2>5. Covered(graph, prefix, space, partial, back, MinScore, s, i, k, y)
    BY <1>1, <2>3, <2>4 DEF SInv, Explored, AllCovered
  <2>6. ~(graph.fscore[s] + Worth(b.score, b.error) < MinScore)
    <3> DEFINE u == b.score
               v == b.error
               w == Worth(u, v)
    <3>1. graph.fscore[s] \in Int /\ u \in Int /\ v \in Int /\ MinScore \in Int
      <4>1. b \in BackType(graph)
        BY <1>1 DEF WellLinked
      <4> HIDE DEF b
      <4>2. b.score \in Int /\ b.error \in Int
        BY <4>1 DEF BackType
      <4>3. graph.fscore[s] \in Int /\ MinScore \in Int
        BY <1>1, TransFacts, NumbersAssumption
      <4>4. QED
        BY <4>2, <4>3
    <3> HIDE DEF u, v
    <3>2. w \in Int
      BY <3>1, WorthAdds
    <3>3. graph.fscore[s] + w >= MinScore
      BY DEF Hopeful, u, v
    <3> HIDE DEF w
    <3>4. ~(graph.fscore[s] + w < MinScore)
      BY <3>1, <3>2, <3>3
    <3>5. QED
      BY <3>4 DEF u, v, w
  <2>7. CASE y = 0 /\ b.jump # 2
    <3>1. Has(back[t.to], b.matched, 1, Worth(b.score + t.score, b.error + (IF b.jump = 0 THEN 1 ELSE 0)))
      BY <2>5, <2>6, <2>7 DEF Covered
    <3>2. new = Made(graph, s, b, k, IF b.jump = 0 THEN 1 ELSE 0, b.matched, 1)
      BY <2>7 DEF Offers
    <3>3. new.matched = b.matched /\ new.jump = 1
          /\ Val(new) = Worth(b.score + t.score, b.error + (IF b.jump = 0 THEN 1 ELSE 0))
      BY <3>2 DEF Made, Val
    <3>4. QED
      BY <3>1, <3>3
  <2>8. CASE y # 0
    <3> DEFINE x == E[y]
               j == IF b.jump = 0 THEN 0 ELSE 2
    <3>1. x.pm < Len(prefix) /\ new = Made(graph, s, b, k, x.error, x.pm, j)
      BY <2>1, <2>8 DEF Offers
    <3>2. x.pm # Len(prefix)
      <4>1. Len(prefix) \in Int
        BY DEF IInv, TypeOK
      <4> HIDE DEF x
      <4>2. QED
        BY <3>1, <4>1
    <3>3. Has(back[t.to], x.pm, j, Worth(b.score + t.score, b.error + x.error))
      BY <2>5, <2>6, <2>8, <3>2 DEF Covered
    <3>4. new.matched = x.pm /\ new.jump = j /\ Val(new) = Worth(b.score + t.score, b.error + x.error)
      <4> HIDE DEF x, j
      <4> QED
        BY <3>1 DEF Made, Val
    <3>5. QED
      BY <3>3, <3>4, Zenon
  <2>9. QED
    BY <2>7, <2>8 DEF Offers
<1>5. AllLast(graph, Asked, back)
  <2>1. PICK old, n : Grown(graph, Asked, old, n, back, cur, bestScore)
    BY DEF History
  <2>2. LastSoFar(graph, Asked, back, cur, MinScore)
    BY <1>1, <2>1 DEF Grown
  <2> SUFFICES ASSUME NEW s \in States(graph), NEW i \in DOMAIN back[s], NEW k \in DOMAIN graph.trans[s],
                      NEW y, NEW new, Offers(graph, Asked, s, back[s][i], k, y, new)
               PROVE  Last(graph, back, MinScore, s, i, k, new)
    BY DEF AllLast
  <2>3. \A h : Passed(cur, s, h, k, y)
    BY <1>1, TransFacts DEF Passed, States
  <2>4. CASE s # 0
    BY <2>2, <2>3, <2>4, Zenon DEF LastSoFar
  <2>5. CASE s = 0
    <3> DEFINE e == Len(back[0])
    <3>1. back[0] \in Seq(BackType(graph)) /\ \A h \in DOMAIN back[0] : back[0][h] = InitialBack
      BY <1>1, <2>5 DEF WellLinked
    <3>2. e \in DOMAIN back[0]
      BY <1>1, <3>1
    <3>3. back[0][e] = back[s][i]
      BY <2>5, <3>1, <3>2
    <3>4. Last(graph, back, MinScore, 0, e, k, new)
      BY <2>2, <2>3, <2>5, <3>2, <3>3 DEF LastSoFar
    <3>5. QED
      BY <2>5, <3>4, Zenon DEF Last, NotAfter
  <2>6. QED
    BY <2>4, <2>5
<1>6. QED
  BY <1>1, <1>2, <1>3, <1>4, <1>5 DEF Fixed

LEMMA HistoryStep ==
  ASSUME IInv, Fresh, SInv, HInv, [Next]_vars
  PROVE  HInv'
<1>1. 0 \in States(graph) /\ back \in [States(graph) -> Seq(BackType(graph))]
      /\ \A s \in States(graph) : s \in Nat
  BY CurType, Cleared
<1>2. CASE UNCHANGED vars
  <2>1. UNCHANGED << jumpLenThreshold, graph, prefix, space, partial, back, bestScore, pc, cur >>
    BY <1>2 DEF vars
  <2>2. Asked' = Asked
    BY <2>1 DEF Asked
  <2>3. QED
    BY <2>1, <2>2 DEF HInv, Searching, History
<1>3. ASSUME pc' = "idle", back'[0] = << >> PROVE HInv'
  BY <1>3 DEF HInv, Searching
<1>4. CASE \E g \in Graphs : createGraph(g)
  <2>1. PICK g \in Graphs : createGraph(g)
    BY <1>4
  <2>2. back'[0] = << >> /\ pc' = "idle"
    BY <2>1, Cleared DEF createGraph
  <2>3. QED
    BY <1>3, <2>2
<1>5. CASE \E r \in Requests : getPrefix(r)
  <2>1. PICK r \in Requests : getPrefix(r)
    BY <1>5
  <2>2. pc' = "search" /\ UNCHANGED << jumpLenThreshold, graph >>
    BY <2>1 DEF getPrefix
  <2>3. jumpLenThreshold >= graph.n /\ (Growing \/ Len(back'[0]) = 1) => History'
    BY <2>1, RequestHistory
  <2>4. QED
    BY <2>2, <2>3 DEF HInv
<1>6. ASSUME Searching, pc' = pc, UNCHANGED << jumpLenThreshold, graph >>, back'[0] = back[0],
             jumpLenThreshold >= graph.n /\ History => History'
      PROVE  HInv'
  BY <1>6 DEF HInv, Searching
<1>7. CASE process_jump
  <2>1. back'[0] = back[0]
    BY <1>1, <1>7, JumpStep, CurType
  <2>2. Searching /\ UNCHANGED << pc, jumpLenThreshold, graph >>
    BY <1>7 DEF process_jump, searchVars, AtTransition, AtBack, AtState, Searching
  <2>3. QED
    BY <1>6, <1>7, <2>1, <2>2, JumpHistory
<1>8. CASE process_match
  <2>1. back'[0] = back[0]
    BY <1>1, <1>8, MatchStep, CurType
  <2>2. Searching /\ UNCHANGED << pc, jumpLenThreshold, graph >>
    BY <1>8 DEF process_match, searchVars, AtTransition, AtBack, AtState, Searching
  <2>3. QED
    BY <1>6, <1>8, <2>1, <2>2, MatchHistory
<1>9. CASE NextTransition \/ NextBack \/ NextState
  <2>1. Searching /\ UNCHANGED << pc, jumpLenThreshold, graph, back >>
    BY <1>9 DEF NextTransition, NextBack, NextState, searchVars, AtTransition, AtBack, AtState, Searching
  <2>2. QED
    BY <1>6, <1>9, <2>1, MoveHistory
<1>10. CASE Fail
  <2>1. /\ Searching /\ cur.st = graph.n /\ best = << >> /\ pc' = "idle"
        /\ UNCHANGED << jumpLenThreshold, graph, prefix, space, partial, back >>
    BY <1>10 DEF Fail, Searching
  <2>2. Asked' = Asked
    BY <2>1 DEF Asked
  <2>3. jumpLenThreshold >= graph.n /\ Growing => Fixed(graph, Asked, back, Len(prefix))
    BY <2>1, FailHistory DEF HInv
  <2>4. QED
    BY <2>1, <2>2, <2>3 DEF HInv, Searching
<1>11. CASE Answer
  BY <1>1, <1>3, <1>11 DEF Answer
<1>12. QED
  BY <1>2, <1>4, <1>5, <1>7, <1>8, <1>9, <1>10, <1>11 DEF Next, Step

-------------------------------------------------------------------------
(* The promise. *)

(* While a request is being searched for nothing has been answered. *)
Unanswered == pc = "search" => answer = None

LEMMA UnansweredStep ==
  ASSUME Unanswered, [Next]_vars
  PROVE  Unanswered'
<1> USE DEF Unanswered, searchVars
<1>1. CASE UNCHANGED vars
  BY <1>1 DEF vars
<1>2. CASE \E g \in Graphs : createGraph(g)
  BY <1>2 DEF createGraph
<1>3. CASE \E r \in Requests : getPrefix(r)
  BY <1>3 DEF getPrefix
<1>4. CASE process_jump
  BY <1>4 DEF process_jump
<1>5. CASE process_match
  BY <1>5 DEF process_match
<1>6. CASE NextTransition \/ NextBack \/ NextState
  BY <1>6 DEF NextTransition, NextBack, NextState
<1>7. CASE Fail \/ Answer
  BY <1>7 DEF Fail, Answer
<1>8. QED
  BY <1>1, <1>2, <1>3, <1>4, <1>5, <1>6, <1>7 DEF Next, Step

LoopInv == IInv /\ (Fresh /\ ScoreLinked) /\ SInv /\ HInv /\ Unanswered

(* A step of the program is one of BestCompletion or changes nothing that  *)
(* BestCompletion sees.                                                    *)
LEMMA PromiseStep ==
  ASSUME LoopInv, [Next]_vars, jumpLenThreshold >= graph.n,
         pc = "search" /\ cur.st = graph.n => HopefulExact(bestScore)
  PROVE  [Promise!Next]_(Promise!vars)
<1> USE DEF LoopInv
<1>1. CASE UNCHANGED vars
  BY <1>1 DEF vars, Promise!vars
<1>2. CASE \E g \in Graphs : createGraph(g)
  <2>1. Promise!NewSentence
    BY <1>2 DEF createGraph, Promise!NewSentence, None, Promise!None
  <2>2. QED
    BY <2>1 DEF Promise!Next
<1>3. CASE \E r \in Requests : getPrefix(r)
  <2>1. Promise!Ask
    BY <1>3 DEF getPrefix, Promise!Ask, None, Promise!None
  <2>2. QED
    BY <2>1 DEF Promise!Next
<1>4. CASE process_jump \/ process_match \/ NextTransition \/ NextBack \/ NextState
  <2>1. UNCHANGED searchVars
    BY <1>4 DEF process_jump, process_match, NextTransition, NextBack, NextState
  <2>2. QED
    BY <2>1 DEF searchVars, Promise!vars
<1>5. AW[<< 0, 0, 0 >>] = Promise!Ways(graph, prefix, space, partial)
  BY DEF AW, Promise!Ways
<1>6. CASE Fail
  <2>1. /\ pc = "search" /\ cur.st = graph.n /\ best = << >>
        /\ pc' = "idle" /\ answer' = answer
        /\ UNCHANGED << graph, prefix, space, partial >>
    BY <1>6 DEF Fail
  <2>2. AW[<< 0, 0, 0 >>] = {}
    BY <2>1, NoneFound DEF Searching
  <2>3. answer' = Promise!None
    BY <2>1 DEF Unanswered, None, Promise!None
  <2>4. Promise!Reply
    BY <1>5, <2>1, <2>2, <2>3 DEF Promise!Reply
  <2>5. QED
    BY <2>4 DEF Promise!Next
<1>7. CASE Answer
  <2>1. /\ pc = "search" /\ cur.st = graph.n /\ best # << >>
        /\ pc' = "idle" /\ answer' \in Suggestions(best[BestError], BestError)
        /\ UNCHANGED << graph, prefix, space, partial >>
    BY <1>7 DEF Answer
  <2>2. /\ AW[<< 0, 0, 0 >>] # {}
        /\ \E v \in Promise!BestWays(AW[<< 0, 0, 0 >>]) :
              Suggestions(best[BestError], BestError) = Promise!Suggestions(v, space, partial)
    BY <2>1, BestSuggested DEF Searching
  <2>3. Promise!Reply
    BY <1>5, <2>1, <2>2 DEF Promise!Reply
  <2>4. QED
    BY <2>3 DEF Promise!Next
<1>8. QED
  BY <1>1, <1>2, <1>3, <1>4, <1>6, <1>7 DEF Next, Step

LEMMA LoopInvHolds == Spec => []LoopInv
<1>1. Init => LoopInv
  <2> SUFFICES ASSUME Init PROVE LoopInv
    OBVIOUS
  <2>1. IInv
    BY InitStep
  <2>2. 0 \in States(graph) /\ \A s \in States(graph) : back[s] = << >>
    BY GraphsAssumption DEF Init, GraphType, States
  <2>3. Len(back[0]) = 0
    BY <2>2
  <2>4. Fresh /\ ScoreLinked
    BY <2>2, <2>3, ScoresRestated DEF Fresh, ScoresFollow
  <2>5. pc = "idle"
    BY DEF Init
  <2>6. SInv
    <3>1. ~Searching /\ ~AtState
      BY <2>5 DEF Searching, AtState
    <3>2. Short
      BY <2>2 DEF Short
    <3>3. QED
      BY <2>2, <3>1, <3>2 DEF SInv, Begun, Exact, Topped, Shaped, Rested, Worthwhile, AtBack, Explored
  <2>7. HInv
    BY <2>2, <2>5 DEF HInv, Searching
  <2>8. Unanswered
    BY <2>5 DEF Unanswered
  <2>9. QED
    BY <2>1, <2>4, <2>6, <2>7, <2>8 DEF LoopInv
<1>2. LoopInv /\ [Next]_vars => LoopInv'
  <2> SUFFICES ASSUME LoopInv, [Next]_vars PROVE LoopInv'
    OBVIOUS
  <2>1. IInv' 
    BY StepKeeps DEF LoopInv
  <2>2. (Fresh /\ ScoreLinked)'
    BY ScoreStep DEF LoopInv
  <2>3. SInv'
    BY SearchStep DEF LoopInv
  <2>4. HInv'
    BY HistoryStep DEF LoopInv
  <2>5. Unanswered'
    BY UnansweredStep DEF LoopInv
  <2>6. QED
    BY <2>1, <2>2, <2>3, <2>4, <2>5 DEF LoopInv
<1>3. QED
  BY <1>1, <1>2, PTL DEF Spec

(* A search finds the graph cleared, or the user only extends what was      *)
(* typed before.                                                           *)
GoneOn == pc = "search" => Growing \/ Len(back[0]) = 1

(* A request that finds the search cleared, as the first one and every one *)
(* after an answer do, is answered with a suggestion for a completion that *)
(* is worth most, or with none when there is none, provided all phrases on *)
(* the way may be jumped over; and so is a request that finds what failed   *)
(* ones have left, when the user has only gone on typing.                  *)
THEOREM PromiseKept ==
  Spec => /\ Promise!Init
          /\ [][jumpLenThreshold >= graph.n /\ GoneOn => Promise!Next]_(Promise!vars)
<1>1. Init => Promise!Init
  BY DEF Init, Promise!Init, None, Promise!None
<1>2. LoopInv /\ [Next]_vars
        => [jumpLenThreshold >= graph.n /\ GoneOn => Promise!Next]_(Promise!vars)
  <2> SUFFICES ASSUME LoopInv, [Next]_vars, jumpLenThreshold >= graph.n, GoneOn
               PROVE  [Promise!Next]_(Promise!vars)
    OBVIOUS
  <2>1. pc = "search" /\ cur.st = graph.n => HopefulExact(bestScore)
    BY HistoryExact DEF LoopInv, HInv, GoneOn, Searching
  <2>2. QED
    BY <2>1, PromiseStep
<1>3. QED
  BY <1>1, <1>2, LoopInvHolds, PTL DEF Spec

(* When no request follows one that failed every search finds a cleared    *)
(* graph.                                                                  *)
NoFailures == Len(back[0]) \in 0 .. 1 /\ (pc = "search" => Len(back[0]) = 1)

LEMMA NoFailuresStep ==
  ASSUME IInv, NoFailures, [Next]_vars, MaxFailures = 0
  PROVE  NoFailures'
<1>1. 0 \in States(graph) /\ back \in [States(graph) -> Seq(BackType(graph))]
      /\ back[0] \in Seq(BackType(graph)) /\ \A s \in States(graph) : s \in Nat
  BY CurType, Cleared DEF IInv, TypeOK
<1>2. ASSUME back'[0] = back[0], pc' = pc PROVE NoFailures'
  BY <1>2 DEF NoFailures
<1>3. CASE UNCHANGED vars
  BY <1>2, <1>3 DEF vars
<1>4. CASE \E g \in Graphs : createGraph(g)
  <2>1. PICK g \in Graphs : createGraph(g)
    BY <1>4
  <2>2. back'[0] = << >> /\ pc' = "idle"
    BY <2>1, Cleared DEF createGraph
  <2>3. QED
    BY <2>2 DEF NoFailures
<1>5. CASE \E r \in Requests : getPrefix(r)
  <2>1. Len(back[0]) <= 0 /\ back'[0] = Append(back[0], InitialBack)
    BY <1>1, <1>5 DEF getPrefix
  <2>2. Len(back'[0]) = 1
    BY <1>1, <2>1
  <2>3. QED
    BY <2>2 DEF NoFailures
<1>6. CASE process_jump
  <2>1. back'[0] = back[0]
    BY <1>1, <1>6, JumpStep, CurType
  <2>2. QED
    BY <1>2, <1>6, <2>1 DEF process_jump, searchVars
<1>7. CASE process_match
  <2>1. back'[0] = back[0]
    BY <1>1, <1>7, MatchStep, CurType
  <2>2. QED
    BY <1>2, <1>7, <2>1 DEF process_match, searchVars
<1>8. CASE NextTransition \/ NextBack \/ NextState
  BY <1>2, <1>8 DEF NextTransition, NextBack, NextState, searchVars
<1>9. CASE Fail
  BY <1>9 DEF Fail, NoFailures
<1>10. CASE Answer
  BY <1>1, <1>10 DEF Answer, NoFailures
<1>11. QED
  BY <1>3, <1>4, <1>5, <1>6, <1>7, <1>8, <1>9, <1>10 DEF Next, Step

(* The promise is kept throughout when the user only extends what was      *)
(* typed, however many requests in a row fail, and, whatever the user       *)
(* types, when none follows one that failed.                               *)
THEOREM PromiseAlwaysKept ==
  ASSUME Growing \/ MaxFailures = 0
  PROVE  Spec => KeepsPromise
<1>1. Spec => []GoneOn
  <2>1. CASE Growing
    <3>1. TRUE => GoneOn
      BY <2>1 DEF GoneOn
    <3>2. QED
      BY <3>1, PTL
  <2>2. CASE MaxFailures = 0
    <3>1. Init => NoFailures
      <4> SUFFICES ASSUME Init PROVE NoFailures
        OBVIOUS
      <4>1. back[0] = << >> /\ pc = "idle"
        BY GraphsAssumption DEF Init, GraphType, States
      <4>2. QED
        BY <4>1 DEF NoFailures
    <3>2. IInv /\ NoFailures /\ [Next]_vars => NoFailures'
      BY <2>2, NoFailuresStep
    <3>3. NoFailures => GoneOn
      BY DEF NoFailures, GoneOn
    <3>4. QED
      BY <3>1, <3>2, <3>3, Invariance, PTL DEF Spec
  <2>3. QED
    BY <2>1, <2>2
<1>2. [jumpLenThreshold >= graph.n /\ GoneOn => Promise!Next]_(Promise!vars) /\ GoneOn
        => [jumpLenThreshold >= graph.n => Promise!Next]_(Promise!vars)
  OBVIOUS
<1>3. QED
  BY <1>1, <1>2, PromiseKept, PTL DEF KeepsPromise

-------------------------------------------------------------------------
(* The number of phrases left out. *)

Count(f, c) ==
  IF c[1] = 0
    THEN 0
    ELSE f[Before(Lookup(c[1], c[2], c[3]))] + (IF c[3] = 1 THEN 1 ELSE 0)

LEMMA CountType ==
  ASSUME IInv, NEW c \in Situations, NEW f, \A d \in Situations : d[1] < c[1] => f[d] \in Nat
  PROVE  Count(f, c) \in Nat
<1>1. CASE c[1] = 0
  BY <1>1 DEF Count
<1>2. CASE c[1] # 0
  <2>1. f[Before(Lookup(c[1], c[2], c[3]))] \in Nat
    BY <1>2, SituationBefore
  <2>2. QED
    BY <1>2, <2>1 DEF Count
<1>3. QED
  BY <1>1, <1>2

LEMMA CountBelow ==
  ASSUME IInv, NEW c \in Situations, NEW f, NEW h, \A d \in Situations : d[1] < c[1] => f[d] = h[d]
  PROVE  Count(f, c) = Count(h, c)
BY SituationBefore DEF Count

LEMMA JumpsEquation ==
  ASSUME IInv
  PROVE  \A c \in Situations : Jumps[c] \in Nat /\ Jumps[c] = Count(Jumps, c)
<1> DEFINE D == Situations
           V == Nat
           G == [f \in [D -> V] |-> [c \in D |-> Count(f, c)]]
           rank == [c \in D |-> c[1]]
<1>1. graph.n \in Nat /\ rank \in [D -> 0 .. graph.n] /\ \A c \in D : c[1] \in Nat
  <2>1. graph.n \in Nat /\ \A s \in States(graph) : s \in 0 .. graph.n
    BY CurType DEF States
  <2>2. \A c \in D : c[1] \in 0 .. graph.n
    BY <2>1, SituationPath
  <2> HIDE DEF D
  <2>3. QED
    BY <2>1, <2>2
<1>2. ASSUME NEW f \in [D -> V], NEW c \in D PROVE G[f][c] = Count(f, c)
  OBVIOUS
<1>3. \A f \in [D -> V], c \in D : Count(f, c) \in V
  BY CountType
<1>4. \A f, h : \A c \in D : (\A d \in D : d[1] < c[1] => f[d] = h[d]) => Count(f, c) = Count(h, c)
  BY CountBelow
<1>5. KeepsType(G, D, V)
  <2> HIDE DEF D, V, G
  <2> QED
    BY <1>2, <1>3 DEF KeepsType
<1>6. LooksBelow(G, D, V, rank)
  <2>1. \A d \in D : rank[d] = d[1]
    OBVIOUS
  <2> HIDE DEF D, V, G, rank
  <2>2. QED
    BY <1>2, <1>4, <2>1 DEF LooksBelow
<1>7. V # {}
  OBVIOUS
<1>8. PICK f \in [D -> V] : Solution(f, G, D)
  <2> HIDE DEF D, V, G, rank
  <2> QED
    BY <1>1, <1>5, <1>6, <1>7, Recursion
<1>9. \A c \in D : f[c] = Count(f, c)
  <2> HIDE DEF D, V, G
  <2> QED
    BY <1>2, <1>8 DEF Solution
<1> HIDE DEF G, rank
<1> DEFINE E(x) == x = [c \in D |->
              IF c[1] = 0
                THEN 0
                ELSE LET b == Lookup(c[1], c[2], c[3])
                     IN  x[Before(b)] + (IF c[3] = 1 THEN 1 ELSE 0)]
           X == Jumps
<1>10. \A x : E(x) <=> x = [c \in D |-> Count(x, c)]
  BY DEF Count
<1>11. X = CHOOSE x : E(x)
  BY DEF Jumps
<1>12. E(f)
  <2>1. f = [c \in D |-> Count(f, c)]
    <3> HIDE DEF D, V
    <3> QED
      BY <1>9
  <2>2. QED
    BY <1>10, <2>1
<1>13. X = [c \in D |-> Count(X, c)]
  <2> HIDE DEF E, X
  <2>1. E(X)
    BY <1>11, <1>12
  <2>2. QED
    BY <1>10, <2>1
<1>14. \A x : x = [c \in D |-> Count(x, c)] => \A c \in D : x[c] = Count(x, c)
  OBVIOUS
<1>15. \A c \in D : X[c] = Count(X, c)
  <2> HIDE DEF D, X
  <2> QED
    BY <1>13, <1>14
<1> DEFINE S == { n \in Nat : \A c \in D : c[1] = n => X[c] \in V }
<1>16. ASSUME NEW n \in Nat, \A k \in 0 .. n - 1 : k \in S PROVE n \in S
  <2>1. ASSUME NEW c \in D, c[1] = n PROVE X[c] \in V
    <3>1. \A d \in D : d[1] < c[1] => X[d] \in V
      <4>1. ASSUME NEW d \in D, d[1] < n PROVE X[d] \in V
        <5>1. d[1] \in 0 .. n - 1
          BY <1>1, <1>16, <4>1
        <5>2. d[1] \in S
          BY <1>16, <5>1
        <5>3. QED
          BY <5>2
      <4>2. QED
        BY <2>1, <4>1
    <3> HIDE DEF X
    <3>2. Count(X, c) \in V
      BY <3>1, CountType
    <3>3. QED
      BY <1>15, <3>2
  <2>2. QED
    BY <2>1
<1>17. \A n \in Nat : n \in S
  <2> HIDE DEF S
  <2> QED
    BY <1>16, StrongInduction
<1>18. \A c \in D : X[c] \in V
  BY <1>1, <1>17
<1>19. QED
  BY <1>15, <1>18

(* What a path was made from, for the count: b is one transition longer    *)
(* than q, no phrase is left out before the first one is, and a further    *)
(* one only within the limit.                                              *)
Lengthens(b, q, limit) ==
  /\ b.njumps = q.njumps + 1
  /\ b.jump = 0 => b.bjump = 0
  /\ b.jump = 1 => b.bjump = 0 \/ (b.bjump = 1 /\ q.njumps < limit)

AllLengthen(bk, g, limit) ==
  Len(bk[0]) = 1 => \A s \in States(g) \ {0} : \A i \in DOMAIN bk[s] :
    Lengthens(bk[s][i], PathIn(bk[bk[s][i].bstate], bk[s][i].bmatched, bk[s][i].bjump), limit)

WithinLimit == AllLengthen(back, graph, jumpLenThreshold)

LEMMA LimitRecorded ==
  ASSUME IInv, Fresh, WithinLimit, AtTransition, NEW new, IsExtension(new),
         Lengthens(new, Back, jumpLenThreshold), pc = "search",
         back' = [back EXCEPT ![Trans.to] = Record(@, new)],
         UNCHANGED << graph, prefix, best, jumpLenThreshold >>
  PROVE  WithinLimit'
<1>1. /\ \A s \in States(graph) : s <= cur.st => back'[s] = back[s]
      /\ \A s \in States(graph) : \A i \in DOMAIN back'[s] :
              \/ i \in DOMAIN back[s] /\ back'[s][i] = back[s][i]
              \/ s = Trans.to /\ back'[s][i] = new
  BY Recorded
<1>2. back'[0] = back[0]
  BY <1>1, Cleared, Positions DEF IInv, TypeOK
<1>3. ASSUME Len(back[0]) = 1, NEW s \in States(graph) \ {0}, NEW i \in DOMAIN back'[s]
      PROVE  LET b == back'[s][i]
             IN  Lengthens(b, PathIn(back'[b.bstate], b.bmatched, b.bjump), jumpLenThreshold)
  <2>1. CASE i \in DOMAIN back[s] /\ back'[s][i] = back[s][i]
    <3> DEFINE b == back[s][i]
    <3>1. b.bstate \in States(graph) /\ b.bstate <= cur.st
      BY <1>3, <2>1 DEF IInv, BackLinked, LinkOK, Fresh
    <3>2. back'[b.bstate] = back[b.bstate]
      BY <1>1, <3>1
    <3>3. QED
      BY <1>3, <2>1, <3>2 DEF WithinLimit, AllLengthen
  <2>2. CASE back'[s][i] = new
    <3>1. new.bstate = cur.st /\ new.bmatched = Back.matched /\ new.bjump = Back.jump
      BY DEF IsExtension
    <3>2. back'[cur.st] = back[cur.st]
      BY <1>1, Positions DEF States
    <3>3. PathIn(back'[new.bstate], new.bmatched, new.bjump) = Back
      BY <1>3, <3>1, <3>2, OwnPath
    <3>4. QED
      BY <2>2, <3>3
  <2>3. QED
    BY <1>1, <1>3, <2>1, <2>2
<1>4. AllLengthen(back', graph, jumpLenThreshold)
  BY <1>2, <1>3 DEF AllLengthen
<1>5. QED
  BY <1>4 DEF WithinLimit

LEMMA LimitStep ==
  ASSUME IInv, Fresh, WithinLimit, [Next]_vars
  PROVE  WithinLimit'
<1>1. /\ graph \in Graphs /\ 0 \in States(graph)
      /\ back \in [States(graph) -> Seq(BackType(graph))]
      /\ cur \in [st : 0 .. graph.n, bi : Nat \ {0}, ti : Nat \ {0}, mi : Nat]
  BY CurType, Cleared DEF IInv, TypeOK
<1>2. ASSUME UNCHANGED << graph, back, jumpLenThreshold >> PROVE WithinLimit'
  BY <1>2 DEF WithinLimit
<1>3. ASSUME \A s \in States(graph') : back'[s] = << >> PROVE WithinLimit'
  BY <1>3 DEF WithinLimit, AllLengthen
<1>4. CASE UNCHANGED vars
  BY <1>2, <1>4 DEF vars
<1>5. CASE \E g \in Graphs : createGraph(g)
  BY <1>3, <1>5 DEF createGraph
<1>6. CASE \E r \in Requests : getPrefix(r)
  <2>1. back'[0] = Append(back[0], InitialBack) /\ graph' = graph
        /\ \A s \in States(graph) \ {0} : back'[s] = back[s]
    BY <1>1, <1>6 DEF getPrefix
  <2>2. Len(back'[0]) = Len(back[0]) + 1 /\ Len(back[0]) \in Nat
    BY <1>1, <2>1
  <2>3. ASSUME Len(back'[0]) = 1 PROVE \A s \in States(graph) \ {0} : back'[s] = << >>
    <3>1. Len(back[0]) = 0
      <4> DEFINE a == Len(back[0])
                 z == Len(back'[0])
      <4>1. z = a + 1 /\ a \in Nat /\ z = 1
        BY <2>2, <2>3
      <4> HIDE DEF a, z
      <4>2. a = 0
        BY <4>1
      <4>3. QED
        BY <4>2 DEF a
    <3>2. QED
      BY <2>1, <3>1 DEF Fresh
  <2>4. QED
    BY <2>1, <2>3 DEF WithinLimit, AllLengthen
<1>7. CASE process_jump
  <2> DEFINE new == Continue(IF Back.jump = 0 THEN 1 ELSE 0, Back.matched, 1)
  <2>1. /\ AtTransition /\ pc = "search" /\ UNCHANGED << graph, prefix, best, jumpLenThreshold >>
    BY <1>7 DEF process_jump, searchVars, AtTransition, AtBack, AtState
  <2>2. CASE JumpAllowed
    <3>1. back' = [back EXCEPT ![Trans.to] = Record(@, new)]
      BY <1>7, <2>2 DEF process_jump
    <3>2. IsExtension(new)
      <4> DEFINE error == IF Back.jump = 0 THEN 1 ELSE 0
                 m == Back.matched
      <4>1. error \in Nat /\ 1 \in 0 .. 2 /\ m \in m .. Len(prefix) - 1
        BY <2>1, Positions
      <4> HIDE DEF error, m
      <4>2. m = Back.matched
        BY DEF m
      <4>3. IsExtension(Continue(error, m, 1))
        BY <2>1, <4>1, <4>2, ContinueIsExtension
      <4>4. QED
        BY <4>3 DEF error, m
    <3>3. Lengthens(new, Back, jumpLenThreshold)
      BY <2>2 DEF Lengthens, Continue, JumpAllowed
    <3> HIDE DEF new
    <3>4. QED
      BY <2>1, <3>1, <3>2, <3>3, LimitRecorded
  <2>3. CASE ~JumpAllowed
    BY <1>2, <1>7, <2>1, <2>3 DEF process_jump
  <2>4. QED
    BY <2>2, <2>3
<1>8. CASE process_match
  <2> DEFINE m == Matches[cur.mi]
             jump == IF Back.jump = 0 THEN 0 ELSE 2
             new == Continue(m.error, m.pm, jump)
  <2>1. /\ AtTransition /\ pc = "search" /\ UNCHANGED << graph, prefix, jumpLenThreshold >>
        /\ cur.mi \in DOMAIN Matches
    BY <1>8, Positions DEF process_match, searchVars, IInv, TypeOK, AtTransition, AtBack, AtState
  <2>2. CASE MatchOn(m)
    <3>1. m.error \in Nat /\ m.pm \in Back.matched .. Len(prefix) - 1
      <4>1. m \in MatchType(prefix, Back.matched, Trans.output)
        BY <2>1, Positions
      <4>2. m.pm < Len(prefix) /\ Back.matched \in Nat /\ Len(prefix) \in Nat
        BY <2>1, <2>2, Positions DEF MatchOn, BackType
      <4>3. QED
        <5> HIDE DEF m
        <5> QED
          BY <4>1, <4>2 DEF MatchType
    <3>2. back' = [back EXCEPT ![Trans.to] = Record(@, new)] /\ UNCHANGED best
      BY <2>2 DEF MatchOn
    <3>3. IsExtension(new)
      <4>1. jump \in 0 .. 2
        OBVIOUS
      <4> HIDE DEF m, jump
      <4>2. QED
        BY <2>1, <3>1, <4>1, ContinueIsExtension
    <3>4. Lengthens(new, Back, jumpLenThreshold)
      <4> HIDE DEF m
      <4> QED
        BY DEF Lengthens, Continue
    <3> HIDE DEF new, m, jump
    <3>5. QED
      BY <2>1, <3>2, <3>3, <3>4, LimitRecorded
  <2>3. CASE Complete(m)
    BY <1>2, <2>1, <2>3 DEF Complete
  <2>4. QED
    BY <1>8, <2>2, <2>3 DEF process_match
<1>9. CASE NextTransition \/ NextBack \/ NextState
  BY <1>2, <1>9 DEF NextTransition, NextBack, NextState, searchVars
<1>10. CASE Fail
  BY <1>2, <1>10 DEF Fail
<1>11. CASE Answer
  BY <1>3, <1>11 DEF Answer
<1>12. QED
  BY <1>4, <1>5, <1>6, <1>7, <1>8, <1>9, <1>10, <1>11 DEF Next, Step

(* The count never passes the limit, or one. *)
LEMMA CountBounded ==
  ASSUME IInv, Fresh, WithinLimit, Len(back[0]) <= 1
  PROVE  JumpsBounded
<1> DEFINE top == Max({1, jumpLenThreshold})
           b(c) == Lookup(c[1], c[2], c[3])
           Good(c) == /\ Jumps[c] <= b(c).njumps /\ Jumps[c] <= top
                      /\ c[3] = 0 => Jumps[c] = 0
           S == { n \in Nat : \A c \in Situations : c[1] = n => Good(c) }
<1>1. /\ 0 \in States(graph) /\ back \in [States(graph) -> Seq(BackType(graph))]
      /\ jumpLenThreshold \in Int
  BY CurType, Cleared, NumbersAssumption DEF IInv, TypeOK
<1>2. top \in Int /\ 1 <= top /\ jumpLenThreshold <= top
  BY <1>1, MaxOfTwo
<1>3. \A c \in Situations : Jumps[c] \in Nat /\ Jumps[c] = Count(Jumps, c)
  BY JumpsEquation
<1>4. ASSUME NEW c \in Situations
      PROVE  Len(back[0]) = 1 /\ b(c).njumps \in Nat /\ c[1] \in Nat
  <2>1. PICK i \in DOMAIN back[c[1]] : b(c) = back[c[1]][i]
    BY SituationPath
  <2>2. c[1] \in States(graph) /\ c[1] \in Nat
    BY SituationPath
  <2>3. b(c).njumps \in Nat
    <3> HIDE DEF b
    <3>1. b(c) \in BackType(graph)
      BY <1>1, <2>1, <2>2
    <3>2. QED
      BY <3>1 DEF BackType
  <2>4. Len(back[0]) # 0
    <3>1. ASSUME Len(back[0]) = 0 PROVE FALSE
      <4>1. back[c[1]] = << >>
        BY <2>2, <3>1 DEF Fresh
      <4>2. QED
        BY <2>1, <4>1
    <3>2. QED
      BY <3>1
  <2>5. Len(back[0]) \in Nat
    BY <1>1
  <2>6. Len(back[0]) = 1
    <3> DEFINE a == Len(back[0])
    <3>1. a \in Nat /\ a # 0 /\ a <= 1
      BY <2>4, <2>5
    <3> HIDE DEF a
    <3>2. a = 1
      BY <3>1
    <3>3. QED
      BY <3>2 DEF a
  <2>7. QED
    BY <2>2, <2>3, <2>6
<1>5. ASSUME NEW n \in Nat, \A k \in 0 .. n - 1 : k \in S PROVE n \in S
  <2> SUFFICES ASSUME NEW c \in Situations, c[1] = n PROVE Good(c)
    OBVIOUS
  <2>1. CASE n = 0
    <3>1. Jumps[c] = 0
      BY <1>3, <2>1 DEF Count
    <3>2. b(c).njumps \in Nat
      BY <1>4
    <3> HIDE DEF top, b
    <3>3. QED
      BY <1>2, <3>1, <3>2
  <2>2. CASE n # 0
    <3> DEFINE p == b(c)
               d == Before(p)
               q == b(d)
    <3>1. d \in Situations /\ d[1] < n
      BY <2>2, SituationBefore
    <3>2. Good(d)
      <4>1. d[1] \in 0 .. n - 1
        <5> HIDE DEF d
        <5>1. d[1] \in Nat
          BY <1>4, <3>1
        <5>2. QED
          BY <3>1, <5>1
      <4>2. d[1] \in S
        BY <1>5, <4>1
      <4> HIDE DEF Good, d
      <4>3. QED
        BY <3>1, <4>2
    <3>3. Lengthens(p, q, jumpLenThreshold) /\ p.jump = c[3] /\ d[3] = p.bjump
      <4>1. PICK i \in DOMAIN back[c[1]] : p = back[c[1]][i] /\ p.jump = c[3]
        BY SituationPath
      <4>2. q = PathIn(back[p.bstate], p.bmatched, p.bjump)
        <5>1. d[1] = p.bstate /\ d[2] = p.bmatched /\ d[3] = p.bjump
          BY DEF Before
        <5>2. Lookup(p.bstate, p.bmatched, p.bjump) = PathIn(back[p.bstate], p.bmatched, p.bjump)
          BY DEF Lookup, Linked, PathIn
        <5> HIDE DEF p, d
        <5>3. QED
          BY <5>1, <5>2
      <4>3. c[1] \in States(graph) \ {0}
        BY <2>2, SituationPath
      <4>4. Len(back[0]) = 1
        BY <1>4
      <4>5. Lengthens(back[c[1]][i],
              PathIn(back[back[c[1]][i].bstate], back[c[1]][i].bmatched, back[c[1]][i].bjump),
              jumpLenThreshold)
        BY <4>1, <4>3, <4>4 DEF WithinLimit, AllLengthen
      <4>6. d[3] = p.bjump
        BY DEF Before
      <4> HIDE DEF p, q, d
      <4>7. QED
        BY <4>1, <4>2, <4>5, <4>6
    <3>4. Jumps[c] = Jumps[d] + (IF c[3] = 1 THEN 1 ELSE 0)
      BY <1>3, <2>2 DEF Count
    <3>5. Jumps[c] \in Nat /\ Jumps[d] \in Nat
      <4> HIDE DEF d
      <4> QED
        BY <1>3, <3>1
    <3>6. q.njumps \in Nat /\ p.njumps \in Nat
      <4> HIDE DEF b, d
      <4>1. b(d).njumps \in Nat /\ b(c).njumps \in Nat
        BY <1>4, <3>1
      <4>2. QED
        BY <4>1
    <3>7. /\ Jumps[d] <= q.njumps /\ Jumps[d] <= top /\ (d[3] = 0 => Jumps[d] = 0)
      BY <3>2
    <3> DEFINE x == Jumps[c]
               y == Jumps[d]
               pn == p.njumps
               qn == q.njumps
               dj == d[3]
    <3>8. /\ pn = qn + 1 /\ (c[3] = 0 => dj = 0)
          /\ (c[3] = 1 => dj = 0 \/ (dj = 1 /\ qn < jumpLenThreshold))
      BY <3>3 DEF Lengthens
    <3>9. /\ x \in Nat /\ y \in Nat /\ pn \in Nat /\ qn \in Nat
          /\ y <= qn /\ y <= top /\ (dj = 0 => y = 0)
          /\ x = y + (IF c[3] = 1 THEN 1 ELSE 0)
      BY <3>4, <3>5, <3>6, <3>7
    <3>10. x <= pn /\ x <= top /\ (c[3] = 0 => x = 0)
      <4> HIDE DEF x, y, pn, qn, dj, top
      <4> QED
        BY <1>1, <1>2, <3>8, <3>9
    <3>11. QED
      BY <3>10
  <2>3. QED
    BY <2>1, <2>2
<1>6. \A n \in Nat : n \in S
  <2> HIDE DEF S
  <2> QED
    BY <1>5, StrongInduction
<1>7. \A c \in Situations : Jumps[c] <= top
  <2>1. \A c \in Situations : c[1] \in Nat
    BY <1>4
  <2>2. QED
    BY <1>6, <2>1
<1>8. ASSUME NEW s \in States(graph), NEW i \in DOMAIN back[s]
      PROVE  Jumps[<< s, back[s][i].matched, back[s][i].jump >>] <= top
  <2> DEFINE m == back[s][i].matched
             j == back[s][i].jump
  <2>1. Linked(s, m, j) # {}
    BY DEF Linked
  <2> HIDE DEF m, j, top
  <2>2. << s, m, j >> \in Situations
    BY <2>1, RecordedPath
  <2>3. Jumps[<< s, m, j >>] <= top
    BY <1>7, <2>2
  <2>4. QED
    BY <2>3 DEF m, j
<1>9. QED
  BY <1>8 DEF JumpsBounded

(* In a search on a cleared graph no path leaves out more phrases than the *)
(* limit allows, or one.                                                   *)
THEOREM JumpsStayBounded == Spec => [](Len(back[0]) <= 1 => JumpsBounded)
<1>1. Init => WithinLimit
  <2> SUFFICES ASSUME Init PROVE WithinLimit
    OBVIOUS
  <2>1. \A s \in States(graph) : back[s] = << >>
    BY DEF Init
  <2>2. QED
    BY <2>1 DEF WithinLimit, AllLengthen
<1>2. LoopInv /\ WithinLimit /\ [Next]_vars => WithinLimit'
  BY LimitStep DEF LoopInv
<1>3. LoopInv /\ WithinLimit => (Len(back[0]) <= 1 => JumpsBounded)
  BY CountBounded DEF LoopInv
<1>4. QED
  BY <1>1, <1>2, <1>3, LoopInvHolds, PTL DEF Spec
=========================================================================
