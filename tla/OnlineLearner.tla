-------------------------- MODULE OnlineLearner -------------------------
(***************************************************************************)
(* The learner that adapts the decoder's weights to every sentence the     *)
(* user has finished ("update" in CAT-Server.cpp).  The n best             *)
(* translations of the sentence are judged by the reference, one after the *)
(* other; then the weights are moved from what the decoder preferred to    *)
(* what the user would have needed least for.                              *)
(*                                                                         *)
(* A translation is its text and its features (integers); the weights are  *)
(* a vector of fractions with a common denominator.                        *)
(***************************************************************************)
EXTENDS KeyStrokes

CONSTANTS
  Lessons,         \* sequences of [paths, ref]: what the decoder finds for a
                   \* sentence, each a [text, features], and the reference
  InitialWeights,
  nBestSize,
  Methods,         \* of "Mira", "Perceptron", "PA2"
  Metrics,         \* of "KSMR", "WER"
  Rate,            \* the learning rate wlr is 1 / Rate
  Clip,            \* the largest step of RunMIRA is 1 / Clip (0.001)
  Damping          \* C of RunPA2

ASSUME LessonsAssumption ==
  /\ Lessons \subseteq
       Seq([paths : SUBSET [text : Texts, features : [DOMAIN InitialWeights -> Int]], ref : Texts])
  /\ \A l \in Lessons : \A k \in DOMAIN l :
       /\ IsFiniteSet(l[k].paths) /\ l[k].paths # {}
       /\ \A x, y \in l[k].paths : x # y => x.text # y.text

ASSUME WeightsAssumption == InitialWeights \in Seq(Int)

ASSUME NumbersAssumption == {nBestSize, Rate, Clip, Damping} \subseteq Nat \ {0}

VARIABLES
  lessons,                \* the sentences to come
  m_method, m_metric,
  weights,                \* [num, den]: StaticData's weights
  nBestList, cost         \* the translations and the costs of the first of them

learnerVars == << lessons, m_method, m_metric, weights, nBestList, cost >>
vars == << userVars, pc, learnerVars >>

Init ==
  /\ lessons \in Lessons /\ m_method \in Methods /\ m_metric \in Metrics
  /\ weights = [num |-> InitialWeights, den |-> 1]
  /\ nBestList = << >> /\ cost = << >>
  /\ hyp = << >> /\ ref = << >> /\ idx = 0 /\ ks = 0 /\ ma = 0
  /\ pc = "idle"

-------------------------------------------------------------------------
(* Vectors.                                                                *)
InnerProduct(x, y) == SumFunctionOnSet([i \in DOMAIN x |-> x[i] * y[i]], DOMAIN x)

Minus(x, y) == [i \in DOMAIN x |-> x[i] - y[i]]

(* a * x + b * y *)
Combined(a, x, b, y) == [i \in DOMAIN x |-> a * x[i] + b * y[i]]

Signs(x) == [i \in DOMAIN x |-> IF x[i] > 0 THEN 1 ELSE IF x[i] < 0 THEN -1 ELSE 0]

(* The score of a translation, over the denominator of the weights.        *)
Score(w, path) == InnerProduct(w.num, path.features)

(* sqrt, rounded up: it is 0 only for 0. *)
Root(n, over) == Min({ r \in 0 .. n : r * r * over >= n })

(* The list comes from the decoder, the best first. *)
NBestLists(paths) ==
  { SubSeq(q, 1, Min({nBestSize, Len(q)})) :
      q \in { s \in SetToSeqs(paths) :
                \A i \in 1 .. Len(s) - 1 : Score(weights, s[i]) >= Score(weights, s[i + 1]) } }

-------------------------------------------------------------------------
(* "update": the old reference is forgotten (RemoveJunk), the new one set, *)
(* and the list made.                                                      *)
StartLearning ==
  /\ pc = "idle" /\ lessons # << >>
  /\ ref' = Head(lessons).ref
  /\ nBestList' \in NBestLists(Head(lessons).paths)
  /\ lessons' = Tail(lessons)
  /\ cost' = << >>
  /\ pc' = "judging"
  /\ UNCHANGED << hyp, idx, ks, ma, m_method, m_metric, weights >>

Judging == pc = "judging" /\ Len(cost) < Len(nBestList)

NextText == Append(nBestList[Len(cost) + 1].text, Space)

(* KSMR: a user types the reference with the help of the hypothesis.       *)
StartTyping ==
  /\ Judging /\ m_metric = "KSMR"
  /\ hyp' = NextText
  /\ idx' = 0 /\ ks' = 0 /\ ma' = 0
  /\ pc' = "typing"
  /\ UNCHANGED << ref, learnerVars >>

Typing == Types /\ UNCHANGED learnerVars

EndTyping ==
  /\ pc = "done"
  /\ cost' = Append(cost, ks + ma)
  /\ pc' = "judging"
  /\ UNCHANGED << userVars, lessons, m_method, m_metric, weights, nBestList >>

Filled(text) ==
  LET words == Words(text)
      filled[k \in 0 .. Len(words)] ==
        IF k = 0 THEN << >>
        ELSE IF words[k] # << >> THEN Append(filled[k - 1], words[k])
        ELSE filled[k - 1]
  IN  filled[Len(words)]

(* WER: the distance of the words. *)
GetWER ==
  /\ Judging /\ m_metric = "WER"
  /\ LET h == Filled(NextText)
     IN  cost' = Append(cost, WordPrefixConsumed(h, Filled(ref), FALSE)[Len(h) + 1])
  /\ UNCHANGED << userVars, pc, lessons, m_method, m_metric, weights, nBestList >>

(* Costs are in percent of this. *)
Whole == IF m_metric = "KSMR" THEN Len(ref) ELSE Len(Filled(ref))

-------------------------------------------------------------------------
findOracle ==
  Min({ i \in DOMAIN cost : \A j \in DOMAIN cost : cost[i] <= cost[j] })

findPrediction ==
  Min({ i \in DOMAIN cost :
          \A j \in DOMAIN cost : Score(weights, nBestList[i]) >= Score(weights, nBestList[j]) })

Learning == pc = "judging" /\ Len(cost) = Len(nBestList)

(* What the oracle has and the prediction has not, what it is worth less,  *)
(* and how much less it costs.                                             *)
Difference == Minus(nBestList[findOracle].features, nBestList[findPrediction].features)
Saved      == cost[findPrediction] - cost[findOracle]

(* Mutant of Lag: the margin of the one rule in the other. *)
LagTurned == InnerProduct(weights.num, Difference)

Lag == - InnerProduct(weights.num, Difference)

(* The weights times keep and step times the difference, over scale; the   *)
(* step has the denominator of the weights.                                *)
Moved(keep, step, scale) ==
  [num |-> Combined(keep, weights.num, step, Difference), den |-> scale * weights.den]

(* The step is the loss over the square of the difference, 1 / Clip at most. *)
RunMIRA ==
  /\ Learning /\ m_method = "Mira"
  /\ LET loss   == Lag * Whole + 100 * Saved * weights.den
         square == InnerProduct(Difference, Difference)
         step   == IF loss * Clip >= square * Whole * weights.den
                     THEN << weights.den, Clip * Rate >>
                     ELSE << loss, square * Whole * Rate >>
     IN  weights' = IF loss > 0 THEN Moved(step[2], step[1], step[2]) ELSE weights
  /\ pc' = "idle"
  /\ UNCHANGED << userVars, lessons, m_method, m_metric, nBestList, cost >>

RunPerceptron ==
  /\ Learning /\ m_method = "Perceptron"
  /\ weights' = [num |-> Combined(Rate - 1, weights.num, weights.den, Signs(Difference)),
                 den |-> Rate * weights.den]
  /\ pc' = "idle"
  /\ UNCHANGED << userVars, lessons, m_method, m_metric, nBestList, cost >>

RunPA2 ==
  /\ Learning /\ m_method = "PA2"
  /\ LET loss == Root(100 * Saved, Whole) * weights.den + Lag
         damped == InnerProduct(Difference, Difference) + Damping
     IN  weights' = IF loss > 0 THEN Moved((Rate - 1) * damped, loss, Rate * damped) ELSE weights
  /\ pc' = "idle"
  /\ UNCHANGED << userVars, lessons, m_method, m_metric, nBestList, cost >>

RunOnlineLearning == RunMIRA \/ RunPerceptron \/ RunPA2

Next ==
  \/ StartLearning
  \/ StartTyping \/ Typing \/ EndTyping \/ GetWER
  \/ RunOnlineLearning

Spec == Init /\ [][Next]_vars

-------------------------------------------------------------------------
Lead(w, i, j) == Score(w, nBestList[i]) - Score(w, nBestList[j])

(* Over translations whose order the new weights do not change.            *)
SameOrder ==
  \A i, j \in DOMAIN cost : Lead(weights, i, j) >= 0 <=> Lead(weights', i, j) >= 0

(* If there was something better than what the decoder put first, one of   *)
(* the translations that cost least comes nearer to it, measured by the    *)
(* weights, than it was; if not, no translation changes places with        *)
(* another.  (The rules compare what RunOnlineLearning gets as oracle and  *)
(* prediction; an update must not work against its own purpose.  Every     *)
(* rule multiplies the denominator by a number.)                           *)
LearnsTheOracle ==
  [][ RunOnlineLearning =>
        LET least == { i \in DOMAIN cost : \A j \in DOMAIN cost : cost[i] <= cost[j] }
        IN  IF 1 \in least
            THEN SameOrder
            ELSE \E i \in least :
                   \/ nBestList[i].features = nBestList[1].features
                   \/ Lead(weights', i, 1) > Lead(weights, i, 1) * (weights'.den \div weights.den)
    ]_vars

(* The costs the rules work with are those of the translations against the *)
(* reference of the sentence at hand: the table behind the help of KSMR is *)
(* right at every prefix, and the costs of WER are the distances.          *)
CostsRight ==
  /\ CostsTrue
  /\ m_metric = "WER" =>
       \A i \in DOMAIN cost : cost[i] = Distance(Words(nBestList[i].text), Words(ref))
=========================================================================
