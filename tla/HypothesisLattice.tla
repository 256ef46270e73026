--------------------------- MODULE HypothesisLattice --------------------
(***************************************************************************)
(* What the decoder leaves for the search graph, and what                  *)
(* Manager::GetSearchGraph makes of it: the best way forward of each       *)
(* hypothesis.  A lattice is a record of functions on numbers of           *)
(* hypotheses: h is made from prev[h] by one phrase, worth gain[h], and    *)
(* covers cover[h] words of the source; hypothesis 0 is the empty one.     *)
(* win[h] is h itself or, when h was recombined, the better hypothesis     *)
(* that took its place (in whose arc list h is).                           *)
(***************************************************************************)
EXTENDS Integers, FiniteSets, FiniteSetsExt

Hyps(l)    == DOMAIN l.prev
Winners(l) == { h \in Hyps(l) : l.win[h] = h }
Losers(l, w) == { h \in Hyps(l) \ {w} : l.win[h] = w }
Length(l)  == Max({ l.cover[h] : h \in Hyps(l) })

(* Numbers name hypotheses, so any finitely many will do. *)
LatticeType(l) ==
  /\ Hyps(l) \subseteq Nat /\ IsFiniteSet(Hyps(l)) /\ 0 \in Hyps(l)
  /\ l.prev \in [Hyps(l) -> Hyps(l)] /\ l.win \in [Hyps(l) -> Hyps(l)]
  /\ l.cover \in [Hyps(l) -> Nat] /\ l.gain \in [Hyps(l) -> Int]

(* What the decoder guarantees: only what was kept in a stack is extended, *)
(* into a later stack; a hypothesis loses against a better or equal one of *)
(* its own stack; and what does not lead to the end is not connected.      *)
ScoreOf(l) ==
  LET score[h \in Hyps(l)] == IF h = 0 THEN 0 ELSE score[l.prev[h]] + l.gain[h]
  IN  score

LatticeOK(l) ==
  /\ l.cover[0] = 0 /\ l.win[0] = 0
  /\ \A h \in Hyps(l) \ {0} :
       /\ l.prev[h] < h /\ l.prev[h] \in Winners(l)
       /\ l.cover[l.prev[h]] < l.cover[h]
       /\ l.win[h] \in Winners(l) /\ l.cover[l.win[h]] = l.cover[h]
       /\ l.cover[h] < Length(l) => \E k \in Hyps(l) \ {0} : l.prev[k] = l.win[h]
  /\ LET score == ScoreOf(l)
     IN  \A h \in Hyps(l) \ {0} : score[h] <= score[l.win[h]]

(* Best forward scores: the hypotheses on the final stack have nothing to  *)
(* come, and every extension of a hypothesis, also a recombined one, makes *)
(* a play for it.                                                          *)
ForwardScore(l) ==
  LET fscore[h \in Winners(l)] ==
        IF l.cover[h] = Length(l)
          THEN 0
          ELSE Max({ fscore[l.win[k]] + l.gain[k]
                     : k \in { x \in Hyps(l) \ {0} : l.prev[x] = h } })
  IN  fscore

(* The next hypothesis on a best way forward; which of several comes first *)
(* depends on the order in the stacks.  (Where decoding fails and leaves   *)
(* the empty hypothesis alone, the code's operator[] makes its forward 0   *)
(* and not -1; nothing follows it, as no phrase leaves that hypothesis.)   *)
Forwards(l, h) ==
  IF l.cover[h] = Length(l)
    THEN {-1}
    ELSE LET fscore == ForwardScore(l)
         IN  { k \in Hyps(l) \ {0} :
                 l.prev[k] = h /\ fscore[l.win[k]] + l.gain[k] = fscore[h] }
=========================================================================
