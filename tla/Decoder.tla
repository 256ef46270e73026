---------------------------- MODULE Decoder ----------------------------
(***************************************************************************)
(* The phrase-based decoder from the translation options of a sentence to  *)
(* the best translation, the search graph and the n-best list.             *)
(***************************************************************************)
EXTENDS NBestList

vars == << inputVars, searchVars, listVars >>

Init == SearchInit /\ ListInit

Ended == listing = "done" /\ UNCHANGED vars

Next == (SearchNext /\ UNCHANGED listVars) \/ ListNext \/ Ended

Spec == Init /\ [][Next]_vars

-------------------------------------------------------------------------
(* The promise of ProcessUnknownWord. *)
EveryWordHasAnOption ==
  \A p \in Positions : \E i \in DOMAIN source.options : Option(i).from = p /\ Option(i).to = p

WellNested(zones) ==
  /\ \A z \in DOMAIN zones : zones[z].end \in zones[z].start .. source.size - 1
  /\ \A y, z \in DOMAIN zones :
       \/ Within(zones[y], zones[z]) \/ Within(zones[z], zones[y])
       \/ Span(zones[y]) \cap Span(zones[z]) = {}

(* Whatever has been translated, in whatever order, the limits on          *)
(* distortion, walls and zones leave a way on: the checks made before a    *)
(* phrase is translated are enough, and nothing must be taken back.  (Only *)
(* zones that cross each other, or that a "span" attribute puts beyond the *)
(* end of the sentence, may be impossible to meet.)                        *)
NoDeadEnd ==
  iterHypo # NoHypothesis /\ ~IsComplete(iterHypo) /\ EveryWordHasAnOption
    /\ WellNested(source.zones)
    => \E i \in DOMAIN source.options : MayExtend(iterHypo, i)

(* Nothing beyond the wall before everything on this side of it. *)
KeepsWall(bitmap, from, wall, to) ==
  bitmap \cap wall + 1 .. to = {} \/ from .. wall \subseteq bitmap

(* A hypothesis keeps the walls and the local walls of the zones, and has  *)
(* left no zone half done. *)
MeetsConstraints(h) ==
  LET bitmap == GetWordsBitmap(h)
      c      == m_reorderingConstraint
  IN  /\ \A w \in c.wall : KeepsWall(bitmap, 0, w, source.size - 1)
      /\ \A z \in DOMAIN c.zones :
           /\ \A w \in Positions :
                c.localWall[w] = z => KeepsWall(bitmap, c.zones[z].start, w, c.zones[z].end)
           /\ \/ Span(c.zones[z]) \cap bitmap = {} \/ Span(c.zones[z]) \subseteq bitmap
              \/ Option(Last(h)).from .. Option(Last(h)).to \cap Span(c.zones[z]) # {}

(* The reordering constraints are met: no word beyond a wall is translated *)
(* before all words on this side of it, nor, inside a zone, beyond a local *)
(* wall; and a zone once entered is finished before the decoder moves on.  *)
ConstraintsHold == iterHypo # NoHypothesis => MeetsConstraints(iterHypo)

(* What a stack refuses or drops it may refuse or drop: the best           *)
(* hypothesis that came is still there (or one as good), the worst score   *)
(* that is accepted is outside the beam or bettered by as many as the      *)
(* stack is to hold, and for a coverage by as many as it is to keep.       *)
PruningJust ==
  \A k \in DOMAIN m_hypoStackColl :
    LET s == m_hypoStackColl[k]
        better(score) == { h \in Hypos(s) : GetTotalScore(h) >= score }
        enough == IF param.minHypoStackDiversity = 0 THEN better(s.m_worstScore) ELSE Hypos(s)
    IN  /\ s.m_bestScore > -Infinity => better(s.m_bestScore) # {}
        /\ \/ s.m_worstScore <= Max({-Infinity, s.m_bestScore + param.beamWidth})
           \/ Cardinality(enough) >= param.maxHypoStackSize
        /\ \A id \in DOMAIN s.m_diversityWorstScore :
             Cardinality({ h \in better(s.m_diversityWorstScore[id]) :
                             GetID(GetWordsBitmap(h)) = id })
               >= param.minHypoStackDiversity

-------------------------------------------------------------------------
(* The search graph (Manager::GetConnectedGraph, GetSearchGraph): from the *)
(* last stack back over predecessors and arcs.                             *)
Connected ==
  LET covering[k \in 0 .. source.size] ==
        LET later   == UNION { covering[j] : j \in k + 1 .. source.size }
            winners == IF k = source.size
                         THEN Hypos(m_hypoStackColl[k])
                         ELSE { h \in { GetPrevHypo(g) : g \in later } :
                                  Cardinality(GetWordsBitmap(h)) = k }
        IN  winners \cup UNION { GetArcList(w) : w \in winners }
  IN  UNION { covering[k] : k \in 0 .. source.size }

(* A number for every hypothesis, higher than its predecessor's. *)
Number(h) ==
  LET number[n \in 0 .. Len(h)] ==
        IF n = 0 THEN 0 ELSE number[n - 1] * (Len(source.options) + 1) + h[n]
  IN  number[Len(h)]

(* It as a lattice. *)
SearchGraph ==
  LET listed   == Connected \cup {EmptyHypothesis}
      Named(n) == CHOOSE h \in listed : Number(h) = n
      Prev(h)  == IF h = EmptyHypothesis THEN h ELSE GetPrevHypo(h)
      numbers  == { Number(h) : h \in listed }
  IN  [prev  |-> [n \in numbers |-> Number(Prev(Named(n)))],
       cover |-> [n \in numbers |-> Cardinality(GetWordsBitmap(Named(n)))],
       gain  |-> [n \in numbers |-> GetScore(Named(n)) - GetScore(Prev(Named(n)))],
       win   |-> [n \in numbers |-> Number(GetWinningHypo(Named(n)))]]

Lattice == INSTANCE HypothesisLattice

(* The stacks and arcs are the graph that the search graph and the n-best  *)
(* list are made from: every predecessor is still on its stack, an arc     *)
(* belongs to one hypothesis, with which it can be exchanged and which is  *)
(* no worse; and in the end the graph is what the states and transitions   *)
(* are made for (LatticeOK, which CreateGraph takes for granted).          *)
GraphSound ==
  /\ \A k \in DOMAIN m_hypoStackColl :
       LET s == m_hypoStackColl[k]
           PrevThere(h) == h = EmptyHypothesis \/ GetPrevHypo(h) \in Hypos(StackOf(GetPrevHypo(h)))
       IN  \A h \in Hypos(s) :
             /\ PrevThere(h)
             /\ \A a \in s.m_hypos[h] :
                  /\ PrevThere(a) /\ Recombine(a, h) /\ GetTotalScore(a) <= GetTotalScore(h)
                  /\ \A g \in Hypos(s) : g = a \/ a \in s.m_hypos[g] => g = h /\ g # a
  /\ Over /\ listing = "not begun" =>
       Lattice!LatticeType(SearchGraph) /\ Lattice!LatticeOK(SearchGraph)

-------------------------------------------------------------------------
(* All ways to translate the sentence or a part of it. *)
Partials ==
  LET step[n \in 0 .. source.size] ==
        IF n = 0
          THEN {EmptyHypothesis}
          ELSE UNION { { Append(h, i) : i \in Extensions(h) } : h \in step[n - 1] }
  IN  UNION { step[n] : n \in 0 .. source.size }

Derivations == { h \in Partials : IsComplete(h) }

(* No limit is reached: all there is for a stack would fit on it, and the  *)
(* worst of it is within the beam of the best. *)
WithinLimits ==
  LET all == Partials
  IN  \A k \in 0 .. source.size :
        LET P      == { h \in all : Cardinality(GetWordsBitmap(h)) = k }
            totals == { GetTotalScore(h) : h \in P }
        IN  /\ Cardinality(P) <= param.maxHypoStackSize
            /\ \A x, y \in totals : -Infinity <= x /\ y + param.beamWidth <= x

Unpruned == ~interrupted_flag /\ ~EarlyDiscarding /\ WithinLimits

(* Without pruning the search finds the best of all translations, although *)
(* it keeps one of those it takes to be interchangeable.                   *)
FindsBest ==
  Over /\ Unpruned /\ listing = "not begun" =>
    LET best == Max({ Score(d) : d \in Derivations })
        found == GetBestHypothesis(m_hypoStackColl[source.size])
    IN  found # {} /\ \A h \in found : Score(h) = best

(* The n-best list has the n best translations there are, the best first,  *)
(* each once and with its score; or, when surfaces are to be distinct, the *)
(* best translations of the n best surfaces (unless the search for them    *)
(* was given up).                                                          *)
ListRight ==
  listing = "done" /\ Unpruned /\ param.nBestIsEnabled =>
    LET D      == Derivations
        listed == { Options(ret[i]) : i \in DOMAIN ret }
        Surface(d) == SelectSeq([i \in DOMAIN d |-> Option(d[i]).out], LAMBDA w : w # 0)
        given  == param.distinctNBest /\ iteration = param.nBestSize * param.nBestFactor
        others == { d \in D : IF param.distinctNBest THEN Surface(d) \notin Surfaces
                                                     ELSE d \notin listed }
    IN  /\ listed \subseteq D /\ Cardinality(listed) = Len(ret)
        /\ \A i \in DOMAIN ret : PathScore(ret[i]) = Score(Options(ret[i]))
        /\ \A i \in 1 .. Len(ret) - 1 : PathScore(ret[i]) >= PathScore(ret[i + 1])
        /\ \A d \in others, x \in listed : given \/ Score(d) <= Score(x)
        /\ given \/ others = {} \/ Len(ret) = param.nBestSize
        /\ param.distinctNBest =>
             /\ Cardinality(Surfaces) = Len(ret)
             /\ \A d \in D, x \in listed : Surface(d) = Surface(x) => Score(d) <= Score(x)

(* SearchNormal.cpp:274: to expand a hypothesis "involves initial          *)
(* creation, scoring and adding it to the proper stack".  So what is on a  *)
(* stack has the score of what it is made of.                              *)
Scored ==
  \A k \in DOMAIN m_hypoStackColl : \A h \in Hypos(m_hypoStackColl[k]) \ {EmptyHypothesis} :
    GetTotalScore(h) = Score(h) + CalcFutureScore(GetWordsBitmap(h))
=========================================================================
