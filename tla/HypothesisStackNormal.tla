----------------------- MODULE HypothesisStackNormal ---------------------
(***************************************************************************)
(* Class HypothesisStackNormal: the hypotheses that cover a number of      *)
(* words.  Of hypotheses that can be recombined the best is kept, the      *)
(* others become its arcs if n-best lists are wanted; what is too bad is   *)
(* refused, and the stack is cut back when it has grown too much.          *)
(*                                                                         *)
(* A stack is a record: m_hypos, a function from the hypotheses to their   *)
(* arc lists; m_bestScore; m_worstScore; m_diversityWorstScore.  The       *)
(* operations return a stack, or the set of stacks that may come out where *)
(* hypotheses of the same score are sorted.                                *)
(***************************************************************************)
EXTENDS Hypothesis

CONSTANT Infinity  \* bound: no score is as low as -Infinity

ASSUME InfinityAssumption == Infinity \in Nat

(* The beam threshold is less than one: the best is within the beam. *)
ASSUME BeamAssumption == \A c \in Cases : c.param.beamWidth < 0

None == [x \in {} |-> 0]

EmptyStack ==
  [m_hypos |-> None, m_bestScore |-> -Infinity, m_worstScore |-> -Infinity,
   m_diversityWorstScore |-> None]

Hypos(s) == DOMAIN s.m_hypos

With(f, x, v)  == [y \in DOMAIN f \cup {x} |-> IF y = x THEN v ELSE f[y]]
Without(f, X)  == [y \in DOMAIN f \ X |-> f[y]]

GetWorstScoreForBitmap(s, id) ==
  IF id \in DOMAIN s.m_diversityWorstScore THEN s.m_diversityWorstScore[id] ELSE -Infinity

(* All ways to sort by score, the best first: one of the worst comes last. *)
SortedLists(S, ScoreOf(_)) ==
  LET lists[T \in SUBSET S] ==
        IF T = {}
          THEN {<< >>}
          ELSE UNION { { Append(q, x) : q \in lists[T \ {x}] } :
                       x \in { y \in T : \A z \in T : ScoreOf(y) <= ScoreOf(z) } }
  IN  lists[S]

BestFirst(hypos) == SortedLists(hypos, GetTotalScore)

(* In a sorted list: the best of each coverage. *)
Diverse(q) ==
  { i \in DOMAIN q :
      Cardinality({ j \in 1 .. i - 1 : GetWordsBitmap(q[j]) = GetWordsBitmap(q[i]) })
        < param.minHypoStackDiversity }

(* The score of the last of them, for coverages that have enough. *)
DiversityScores(s, q) ==
  LET ID(i) == GetID(GetWordsBitmap(q[i]))
      last  == { i \in Diverse(q) :
                   Cardinality({ j \in 1 .. i : GetWordsBitmap(q[j]) = GetWordsBitmap(q[i]) })
                     = param.minHypoStackDiversity }
      known == DOMAIN s.m_diversityWorstScore
  IN  [id \in known \cup { ID(i) : i \in last } |->
        IF \E i \in last : ID(i) = id
          THEN GetTotalScore(q[CHOOSE i \in last : ID(i) = id])
          ELSE s.m_diversityWorstScore[id]]

(* PruneToSize of an over-full stack, sorted: the diverse ones, then the   *)
(* best of the rest that are within the beam, until there are enough.      *)
Cut(s, q, newSize) ==
  LET room   == newSize - Cardinality(Diverse(q))
      within == { i \in DOMAIN q \ Diverse(q) :
                    GetTotalScore(q[i]) > s.m_bestScore + param.beamWidth }
      added  == { i \in within : Cardinality({ j \in within : j <= i }) <= room }
      kept   == { h \in Hypos(s) : \E i \in Diverse(q) \cup added : q[i] = h }
  IN  [s EXCEPT
        !.m_hypos = [h \in kept |-> s.m_hypos[h]],
        !.m_diversityWorstScore = DiversityScores(s, q),
        !.m_worstScore =
          IF added # {} /\ Cardinality(added) = room THEN GetTotalScore(q[Max(added)]) ELSE @]

(* Mutant of PruneToSize: one too many goes. *)
PruneBelowSize(s, newSize) ==
  IF Cardinality(Hypos(s)) <= newSize
    THEN {s}
    ELSE { [Cut(s, q, newSize - 1) EXCEPT !.m_worstScore = GetTotalScore(q[newSize])]
           : q \in BestFirst(Hypos(s)) }

PruneToSize(s, newSize) ==
  IF Cardinality(Hypos(s)) <= newSize
    THEN {s}
    ELSE { Cut(s, q, newSize) : q \in BestFirst(Hypos(s)) }

(* Add, when no hypothesis on the stack is recombined with h. *)
Inserted(s, h, arcs) ==
  LET total == GetTotalScore(h)
      best  == Max({s.m_bestScore, total})
      id    == GetID(GetWordsBitmap(h))
  IN  [m_hypos      |-> With(s.m_hypos, h, arcs),
       m_bestScore  |-> best,
       m_worstScore |->
         IF total > s.m_bestScore THEN Max({s.m_worstScore, best + param.beamWidth})
                                  ELSE s.m_worstScore,
       m_diversityWorstScore |->
         IF param.minHypoStackDiversity = 1 /\ total > GetWorstScoreForBitmap(s, id)
           THEN With(s.m_diversityWorstScore, id, total)
           ELSE s.m_diversityWorstScore]

ToleratedSize ==
  2 * param.maxHypoStackSize - 1
    + IF param.minHypoStackDiversity = 0 THEN 0
      ELSE param.minHypoStackDiversity * 2 ^ param.maxDistortion

Add(s, h, arcs) ==
  LET t == Inserted(s, h, arcs)
  IN  IF Cardinality(Hypos(t)) > ToleratedSize THEN PruneToSize(t, param.maxHypoStackSize)
                                               ELSE {t}

TooBad(s, h) ==
  /\ ~param.disableDiscarding
  /\ GetTotalScore(h) < s.m_worstScore
  /\ ~ /\ param.minHypoStackDiversity > 0
       /\ GetTotalScore(h) >= GetWorstScoreForBitmap(s, GetID(GetWordsBitmap(h)))

(* Mutant of AddArc: the loser's own arcs are not taken over. *)
AddArcOnly(arcs, loser, losersArcs) == arcs \cup {loser}

AddArc(arcs, loser, losersArcs) == arcs \cup losersArcs \cup {loser}

(* Mutant of AddPrune: the first one stays, although the second is better. *)
AddPruneFirst(s, h) ==
  IF TooBad(s, h) THEN {s}
  ELSE IF \A g \in Hypos(s) : ~Recombine(g, h) THEN Add(s, h, {})
  ELSE LET existing == CHOOSE g \in Hypos(s) : Recombine(g, h)
       IN  {[s EXCEPT !.m_hypos[existing] =
               IF param.nBestIsEnabled THEN AddArc(@, h, {}) ELSE @]}

AddPrune(s, h) ==
  IF TooBad(s, h) THEN {s}
  ELSE IF \A g \in Hypos(s) : ~Recombine(g, h) THEN Add(s, h, {})
  ELSE LET existing == CHOOSE g \in Hypos(s) : Recombine(g, h)
       IN  IF GetTotalScore(h) > GetTotalScore(existing)
             THEN Add([s EXCEPT !.m_hypos = Without(@, {existing})], h,
                      IF param.nBestIsEnabled
                        THEN AddArc({}, existing, s.m_hypos[existing])
                        ELSE {})
             ELSE {[s EXCEPT !.m_hypos[existing] =
                      IF param.nBestIsEnabled THEN AddArc(@, h, {}) ELSE @]}

(* Hypothesis::CleanupArcList: if there are far more arcs than paths are   *)
(* wanted, the best nBestSize are kept.                                    *)
BestArcs(arcs) ==
  IF param.distinctNBest \/ Cardinality(arcs) <= param.nBestSize * 5
    THEN {arcs}
    ELSE { { q[i] : i \in 1 .. param.nBestSize } : q \in BestFirst(arcs) }

CleanupArcList(s) ==
  LET cut     == { h \in Hypos(s) : param.nBestIsEnabled /\ BestArcs(s.m_hypos[h]) # {s.m_hypos[h]} }
      choices == { f \in [cut -> UNION { BestArcs(s.m_hypos[h]) : h \in cut }] :
                     \A h \in cut : f[h] \in BestArcs(s.m_hypos[h]) }
  IN  { [s EXCEPT !.m_hypos = [h \in Hypos(s) |-> IF h \in cut THEN f[h] ELSE s.m_hypos[h]]]
        : f \in choices }

GetBestHypothesis(s) ==
  { h \in Hypos(s) : \A g \in Hypos(s) : GetTotalScore(g) <= GetTotalScore(h) }
=========================================================================
