--------------------------- MODULE Hypothesis ---------------------------
(***************************************************************************)
(* A hypothesis of the phrase-based decoder is the sequence of the         *)
(* translation options it is made of, each standing for its index in the   *)
(* sentence's list of options: all but the last one are its predecessor,   *)
(* and no two hypotheses are made of the same predecessor and option.      *)
(* Scores are integers; words are numbers, 0 an empty target phrase.       *)
(***************************************************************************)
EXTENDS ReorderingConstraint, SequencesExt

CONSTANTS
  LanguageModel,  \* << previous word, word >> |-> score
  Cases           \* what is decoded, and how: records [source, param]

(* Every word has an option of its own (ProcessUnknownWord). *)
ASSUME CasesAssumption ==
  \A c \in Cases :
    /\ c.source.size \in Nat
    /\ c.source.options \in Seq([from : Nat, to : Nat, out : Nat, score : Int])
    /\ \A i \in DOMAIN c.source.options :
         c.source.options[i].to \in c.source.options[i].from .. c.source.size - 1
    /\ \A p \in 0 .. c.source.size - 1 : \E i \in DOMAIN c.source.options :
         c.source.options[i].from = p /\ c.source.options[i].to = p
    /\ c.source.punctuation \subseteq Nat
    /\ c.source.zones \in Seq([start : Nat, end : Nat])

ASSUME SettingsAssumption ==
  \A c \in Cases :
    /\ c.param.maxDistortion \in Int /\ c.param.weightDistortion \in Int
    /\ c.param.maxPhraseLength \in Nat \ {0} /\ c.param.maxHypoStackSize \in Nat \ {0}
    /\ c.param.minHypoStackDiversity \in Nat /\ c.param.nBestSize \in Nat
    /\ c.param.beamWidth \in Int /\ c.param.earlyDiscardingThreshold \in Int

ASSUME LanguageModelAssumption ==
  \A c \in Cases :
    LET words == { c.source.options[i].out : i \in DOMAIN c.source.options }
    IN  \A v \in words \cup {0}, w \in words \ {0} : LanguageModel[<< v, w >>] \in Int

VARIABLES
  source,         \* [size, options, punctuation, walls, zones]
  param,          \* the decoder's settings
  m_reorderingConstraint,
  m_futureScore   \* << from, to >> |-> the best that span may be worth

inputVars == << source, param, m_reorderingConstraint, m_futureScore >>

Option(i) == source.options[i]  \* [from, to, out, score]
Positions == 0 .. source.size - 1

(* CalcFutureScore of the translation options: the best option for a span, *)
(* or the best sum of two spans. *)
FutureScoreMatrix(s) ==
  LET spans == { x \in (0 .. s.size - 1) \X (0 .. s.size - 1) : x[1] <= x[2] }
      own(x) == { s.options[i].score :
                    i \in { j \in DOMAIN s.options :
                              s.options[j].from = x[1] /\ s.options[j].to = x[2] } }
      best[x \in spans] ==
        Max(own(x) \cup { best[<< x[1], j >>] + best[<< j + 1, x[2] >>]
                          : j \in x[1] .. x[2] - 1 })
  IN  best

EmptyHypothesis == << >>
GetPrevHypo(h) == Front(h)

GetWordsBitmap(h) == UNION { Option(h[i]).from .. Option(h[i]).to : i \in DOMAIN h }
IsComplete(h) == GetWordsBitmap(h) = Positions

(* The states of the features: the end of the last phrase, the last word. *)
LastEnd(h) == IF h = << >> THEN NOT_FOUND ELSE Option(Last(h)).to
LastWord(h) ==
  LET spoken == { i \in DOMAIN h : Option(h[i]).out # 0 }
  IN  IF spoken = {} THEN 0 ELSE Option(h[Max(spoken)]).out

(* What a hypothesis gains over its predecessor. *)
Gain(h) ==
  LET prev == GetPrevHypo(h)
      o    == Option(Last(h))
  IN  o.score
        - param.weightDistortion * ComputeDistortionDistance(LastEnd(prev), o.from)
        + IF o.out = 0 THEN 0 ELSE LanguageModel[<< LastWord(prev), o.out >>]

Score(h) == SumFunction([i \in DOMAIN h |-> Gain(SubSeq(h, 1, i))])

(* The longest spans that are not covered, and what they may be worth. *)
Gaps(bitmap) ==
  { x \in DOMAIN m_futureScore :
      /\ x[1] .. x[2] \cap bitmap = {}
      /\ x[1] - 1 \notin Positions \ bitmap
      /\ x[2] + 1 \notin Positions \ bitmap }
CalcFutureScore(bitmap) == SumFunctionOnSet(m_futureScore, Gaps(bitmap))

(* Evaluate, for a hypothesis as ExpandHypothesis leaves it: with early    *)
(* discarding it is created and never evaluated.                           *)
EarlyDiscarding == param.earlyDiscardingThreshold < 0
Evaluated(h) == ~EarlyDiscarding \/ h = EmptyHypothesis

GetTotalScore(h) ==
  IF Evaluated(h) /\ h # EmptyHypothesis
    THEN Score(h) + CalcFutureScore(GetWordsBitmap(h))
    ELSE 0
GetScore(h) ==
  IF Evaluated(h) /\ h # EmptyHypothesis THEN Score(h) ELSE 0

FFStates(h) == IF Evaluated(h) THEN << LastEnd(h), LastWord(h) >> ELSE << >>

(* Mutant of RecombineKey: where the last phrase ended is not compared. *)
RecombineKeyWord(h) ==
  << [p \in 1 .. source.size |-> IF p - 1 \in GetWordsBitmap(h) THEN 1 ELSE 0],
     << LastWord(h) >> >>

(* RecombineCompare: coverage first, position by position, then states. *)
RecombineKey(h) ==
  << [p \in 1 .. source.size |-> IF p - 1 \in GetWordsBitmap(h) THEN 1 ELSE 0],
     FFStates(h) >>

Recombine(h, g) == RecombineKey(h) = RecombineKey(g)

RecombineLess(h, g) ==
  LET a == RecombineKey(h)[1] \o RecombineKey(h)[2]
      b == RecombineKey(g)[1] \o RecombineKey(g)[2]
  IN  \E i \in DOMAIN a : a[i] < b[i] /\ \A j \in 1 .. i - 1 : a[j] = b[j]

(* The number a coverage is known by in a stack: its first gap and what is *)
(* covered beyond it. *)
GetID(bitmap) ==
  LET start == GetFirstGapPos(bitmap, source.size)
  IN  << start, { p \in bitmap : p > start } >>

(* ... and with an additional span: the next position after the span is    *)
(* taken for the first gap even if it is covered already.                  *)
GetIDPlus(bitmap, startPos, endPos) ==
  LET gap   == GetFirstGapPos(bitmap, source.size)
      start == IF gap = startPos THEN endPos + 1 ELSE gap
  IN  << start, { p \in bitmap \cup startPos .. endPos : p > start } >>
=========================================================================
