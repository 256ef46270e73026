-------------------------- MODULE DecoderGraph --------------------------
(***************************************************************************)
(* The search graph a prefix search works on: what createGraph leaves in   *)
(* the member variable states after a sentence was decoded.                *)
(*                                                                         *)
(* A graph is a record                                                     *)
(*   n        number of states; they are 0 .. n-1 and 0 is the empty       *)
(*            hypothesis                                                   *)
(*   trans    for every state the sequence of its transitions              *)
(*   forward  the next state of the best way to the end, or -1             *)
(*   fscore   the score of that way                                        *)
(* and a transition is a record [to, score, output].                       *)
(***************************************************************************)
EXTENDS Integers, Sequences

CONSTANTS
  Words,    \* vocabulary (lexicon)
  PartOf,   \* pairs <<v, w>>: v is a proper beginning of w, ignoring case
  Graphs    \* the graphs the decoder may deliver

States(g) == 0 .. g.n - 1

TransitionType == [to : Int, score : Int, output : Seq(Words)]

(* The states come in the order of the decoder's stacks, so a transition   *)
(* leads to a later state and one pass in index order visits every state   *)
(* after all its predecessors.                                             *)
Ordered(g) ==
  \A s \in States(g) : \A k \in DOMAIN g.trans[s] :
    g.trans[s][k].to \in s + 1 .. g.n - 1

(* The forward score is that of the best way to the end: no transition     *)
(* promises more and the one to the forward state achieves it.             *)
ForwardBest(g) ==
  \A s \in States(g) :
    /\ \A k \in DOMAIN g.trans[s] :
         g.trans[s][k].score + g.fscore[g.trans[s][k].to] <= g.fscore[s]
    /\ IF g.forward[s] = -1
         THEN g.fscore[s] = 0 /\ g.trans[s] = << >>
         ELSE \E k \in DOMAIN g.trans[s] :
                /\ g.trans[s][k].to = g.forward[s]
                /\ g.trans[s][k].score + g.fscore[g.forward[s]] = g.fscore[s]

GraphType(g) ==
  /\ g.n \in Nat \ {0}
  /\ g.trans \in [States(g) -> Seq(TransitionType)]
  /\ g.forward \in [States(g) -> -1 .. g.n - 1]
  /\ g.fscore \in [States(g) -> Int]

ASSUME GraphsAssumption ==
  /\ PartOf \subseteq Words \X Words
  /\ \A g \in Graphs : GraphType(g) /\ Ordered(g) /\ ForwardBest(g)

-------------------------------------------------------------------------
(* The best transition from s to its forward state (the first of the best  *)
(* ones) and the words along the best way from s to the end.               *)
BestForward(g, s) ==
  LET to    == { k \in DOMAIN g.trans[s] : g.trans[s][k].to = g.forward[s] }
      best  == { k \in to : \A l \in to : g.trans[s][l].score <= g.trans[s][k].score }
  IN  g.trans[s][CHOOSE k \in best : \A l \in best : k <= l]

ForwardWords(g) ==
  LET words[s \in States(g)] ==
        IF g.forward[s] <= 0
          THEN << >>
          ELSE BestForward(g, s).output \o words[g.forward[s]]
  IN  words
=========================================================================
