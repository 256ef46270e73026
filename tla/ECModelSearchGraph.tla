----------------------- MODULE ECModelSearchGraph -----------------------
(***************************************************************************)
(* The prefix search ECModelSearchGraph (Method ECModel), which works on   *)
(* characters.  Every state of the search graph stands for the one best    *)
(* way to it.  A breadth-first search over these ways computes what it     *)
(* costs to turn the user's prefix into each beginning of each of their    *)
(* texts; the state and the beginning that are worth most are chosen, and  *)
(* the best way on from there is the suggestion.                           *)
(*                                                                         *)
(* A graph is a record                                                     *)
(*   n, forward   as in DecoderGraph                                       *)
(*   trans        for every state its transitions, records                 *)
(*                [to, score, text], text being a sequence of characters   *)
(*   back         the state of the hypothesis that each state's hypothesis *)
(*                extends; -1 for state 0                                  *)
(*   bscore       the score of each state's hypothesis                     *)
(*   fscore       the score of the best way on                             *)
(***************************************************************************)
EXTENDS EditDistance

CONSTANTS
  Graphs,
  Typed,              \* the prefixes a user may have typed
  Space,              \* the character between two phrases
  ErrorCost(_, _)     \* errorWeigth * getBinomialErrorCost(error, p_len)

States(g)  == 0 .. g.n - 1
Between(g, s, t) == { k \in DOMAIN g.trans[s] : g.trans[s][k].to = t }

IsSequence(t) == t \in Seq(Range(t))

GraphType(g) ==
  /\ g.n \in Nat \ {0}
  /\ DOMAIN g.trans = States(g) /\ DOMAIN g.forward = States(g)
  /\ {g.back, g.bscore, g.fscore} \subseteq [States(g) -> Int]
  /\ \A s \in States(g) : IsSequence(g.trans[s]) /\ \A k \in DOMAIN g.trans[s] :
       LET t == g.trans[s][k]
       IN  t.to \in Int /\ t.score \in Int /\ IsSequence(t.text)

(* The hypothesis of a state extends an earlier one by a transition that   *)
(* comes first among those between the two, and it won against all others  *)
(* that lead to the state.                                                 *)
GraphsAssumption ==
  \A g \in Graphs :
    /\ GraphType(g)
    /\ g.back[0] = -1 /\ g.bscore[0] = 0
    /\ \A s \in States(g) : \A k \in DOMAIN g.trans[s] :
         LET t == g.trans[s][k]
         IN  /\ s < t.to /\ t.to < g.n
             /\ g.bscore[s] + t.score <= g.bscore[t.to]
             /\ t.score + g.fscore[t.to] <= g.fscore[s]
    /\ \A s \in States(g) \ {0} :
         /\ g.back[s] \in 0 .. s - 1 /\ Between(g, g.back[s], s) # {}
         /\ LET k == Min(Between(g, g.back[s], s))
            IN  g.bscore[s] = g.bscore[g.back[s]] + g.trans[g.back[s]][k].score
    /\ \A s \in States(g) :
         IF g.forward[s] = -1
           THEN g.fscore[s] = 0 /\ g.trans[s] = << >>
           ELSE \E k \in Between(g, s, g.forward[s]) :
                  g.fscore[s] = g.trans[s][k].score + g.fscore[g.forward[s]]

TypedAssumption == \A p \in Typed : IsSequence(p)

(* Fewer errors are worth more. *)
CostAssumption ==
  \A p \in Typed : \A e \in 0 .. 20 : ErrorCost(e + 1, Len(p)) < ErrorCost(e, Len(p))

VARIABLES
  graph, prefix,
  link,        \* best_back_transition: number of the transition in trans[back]
  prefixCost,  \* editCost_prefixConsumed of every state
  stateCost,   \* editCost_stateConsumed of every state
  mark, queue, \* of the breadth-first search
  pc,          \* "idle", "search" or "select"
  i,           \* loop counter of selectBestState
  best,        \* best state, best alignment
  answer

vars == << graph, prefix, link, prefixCost, stateCost, mark, queue, pc, i, best, answer >>

BestScore(g, s) == g.bscore[s] + g.fscore[s]

(* createGraph leaves the last transition from the state before. *)
LastLinks(g) ==
  [s \in States(g) |-> IF s = 0 THEN 0 ELSE Max(Between(g, g.back[s], s))]

createGraph(g) ==
  /\ graph' = g
  /\ link' = LastLinks(g)
  /\ prefixCost' = [s \in States(g) |-> << >>]
  /\ stateCost'  = [s \in States(g) |-> << >>]

Init ==
  /\ graph \in Graphs
  /\ link = LastLinks(graph)
  /\ prefixCost = [s \in States(graph) |-> << >>]
  /\ stateCost  = [s \in States(graph) |-> << >>]
  /\ prefix = << >> /\ mark = {} /\ queue = << >>
  /\ pc = "idle" /\ i = 0 /\ best = << 0, 0 >> /\ answer = << >>

NewSentence ==
  /\ pc = "idle"
  /\ \E g \in Graphs : createGraph(g)
  /\ prefix' = << >> /\ answer' = << >>
  /\ UNCHANGED << mark, queue, pc, i, best >>

-------------------------------------------------------------------------
(* processState, up to the call of getEditDistance_CharLevel: unless the   *)
(* phrase is the first one, a space comes before it.                       *)
Row(s, d, p) ==
  IF s = 0 \/ graph.back[s] = 0 THEN d ELSE StateConsumed(d, << Space >>, p)

(* getPrefix, computeEditDistances up to its loop. *)
getPrefix(p) ==
  LET d == [j \in 1 .. Len(p) + 1 |-> j - 1]
  IN  /\ pc = "idle"
      /\ prefix' = p
      /\ prefixCost' = [prefixCost EXCEPT ![0] = PrefixConsumed(Row(0, d, p), << >>, p)]
      /\ stateCost'  = [stateCost  EXCEPT ![0] = StateConsumed(Row(0, d, p), << >>, p)]
      /\ mark' = {0} /\ queue' = << 0 >>
      /\ pc' = "search"
      /\ answer' = << >>
      /\ UNCHANGED << graph, link, i, best >>

(* Of several transitions to t the first is followed; t is marked then. *)
First(s, t) == Min(Between(graph, s, t))

(* The states next, in the order in which the loop over the transitions of *)
(* s comes to them.                                                        *)
InTurn(s, next) ==
  LET firsts == { First(s, t) : t \in next }
      turn[k \in 0 .. Len(graph.trans[s])] ==
        IF k = 0 THEN << >>
        ELSE IF k \in firsts THEN Append(turn[k - 1], graph.trans[s][k].to)
        ELSE turn[k - 1]
  IN  turn[Len(graph.trans[s])]

(* One round of the loop: the states whose hypothesis extends that of the  *)
(* first state in the queue are processed, in the order of transitions.    *)
Visit ==
  /\ pc = "search" /\ queue # << >>
  /\ LET s    == Head(queue)
         next == { t \in States(graph) \ mark : graph.back[t] = s /\ Between(graph, s, t) # {} }
         text(t) == graph.trans[s][First(s, t)].text
     IN  /\ link' = [t \in States(graph) |-> IF t \in next THEN First(s, t) ELSE link[t]]
         /\ prefixCost' = [t \in States(graph) |->
              IF t \in next THEN PrefixConsumed(Row(t, stateCost[s], prefix), text(t), prefix)
                            ELSE prefixCost[t]]
         /\ stateCost' = [t \in States(graph) |->
              IF t \in next THEN StateConsumed(Row(t, stateCost[s], prefix), text(t), prefix)
                            ELSE stateCost[t]]
         /\ mark' = mark \cup next
         /\ queue' = Tail(queue) \o InTurn(s, next)
  /\ UNCHANGED << graph, prefix, pc, i, best, answer >>

-------------------------------------------------------------------------
(* Mutant of getBestAlignment: the end of the phrase. *)
getBestAlignmentEnd(s) == Len(prefixCost[s]) - 1

(* getBestAlignment: the first of those with the least cost.               *)
getBestAlignment(s) ==
  Min({ a \in DOMAIN prefixCost[s] :
          prefixCost[s][a] = Min(Range(prefixCost[s])) }) - 1

Worth(s, a) == BestScore(graph, s) + ErrorCost(prefixCost[s][a + 1], Len(prefix))

(* selectBestState, before and in its loop. *)
SelectFirst ==
  /\ pc = "search" /\ queue = << >>
  /\ pc' = "select"
  /\ i' = 1
  /\ best' = << 0, getBestAlignment(0) >>
  /\ UNCHANGED << graph, prefix, link, prefixCost, stateCost, mark, queue, answer >>

Select ==
  /\ pc = "select" /\ i < graph.n
  /\ LET a == getBestAlignment(i)
     IN  best' = IF Worth(i, a) > Worth(best[1], best[2]) THEN << i, a >> ELSE best
  /\ i' = i + 1
  /\ UNCHANGED << graph, prefix, link, prefixCost, stateCost, mark, queue, pc, answer >>

BackText(s) == graph.trans[graph.back[s]][link[s]].text

(* getBestSuffix: what is left of the phrase, and the phrases that lead to *)
(* each of the states on the best way forward.                             *)
getBestSuffix(s, a) ==
  LET on[t \in States(graph) \cup {-1}] ==
        IF t = -1 THEN << >>
                  ELSE << Space >> \o BackText(t) \o on[graph.forward[t]]
  IN  (IF s = 0 THEN << >> ELSE SubSeq(BackText(s), a + 1, Len(BackText(s))))
        \o on[graph.forward[s]]

Answer ==
  /\ pc = "select" /\ i = graph.n
  /\ answer' = getBestSuffix(best[1], best[2])
  /\ pc' = "idle" /\ i' = 0 /\ best' = << 0, 0 >> /\ mark' = {}
  /\ UNCHANGED << graph, prefix, link, prefixCost, stateCost, queue >>

Next ==
  \/ NewSentence
  \/ \E p \in Typed : getPrefix(p)
  \/ Visit \/ SelectFirst \/ Select \/ Answer

Spec == Init /\ [][Next]_vars

-------------------------------------------------------------------------
(* Every variable keeps to its type; every number is inside what it        *)
(* indexes, be it transitions, costs or the letters of a phrase.           *)
TypeOK ==
  /\ graph \in Graphs
  /\ \A s \in States(graph) \ {0} : link[s] \in DOMAIN graph.trans[graph.back[s]]
  /\ mark \subseteq States(graph) /\ queue \in Seq(mark)
  /\ \A s \in mark : /\ Len(stateCost[s]) = Len(prefix) + 1
                     /\ s # 0 => Len(prefixCost[s]) = Len(BackText(s)) + 1
  /\ pc \in {"idle", "search", "select"} /\ i \in 0 .. graph.n
  /\ pc = "select" => /\ best \in States(graph) \X Nat
                       /\ best[2] <= IF best[1] = 0 THEN 0 ELSE Len(BackText(best[1]))

(* The text of the way that state s stands for, up to position a of its    *)
(* last phrase (getBestPrefix, with the beginning of that phrase).         *)
Text(s, a) ==
  LET whole[t \in States(graph)] ==
        IF t = 0 THEN << >> ELSE whole[graph.back[t]]
                    \o (IF graph.back[t] = 0 THEN << >> ELSE << Space >>) \o BackText(t)
  IN  IF s = 0
        THEN << >>
        ELSE SubSeq(whole[s], 1, Len(whole[s]) - Len(BackText(s)) + a)

(* Carrying the costs from state to state, with a space in between, comes  *)
(* to the same as comparing the prefix with the whole text.                *)
CostsTrue ==
  pc = "search" => \A s \in mark : \A a \in DOMAIN prefixCost[s] :
    prefixCost[s][a] = Distance(prefix, Text(s, a - 1))

(* The state and alignment chosen are worth most of all, not only of those *)
(* that getBestAlignment prefers.                                          *)
ChoiceIsBest ==
  pc = "select" /\ i = graph.n => \A s \in mark : \A a \in DOMAIN prefixCost[s] :
    BestScore(graph, s) + ErrorCost(Distance(prefix, Text(s, a - 1)), Len(prefix))
      <= Worth(best[1], best[2])

(* "get the suffix in the best path from states[stateId]"                  *)
(* (ECModelSearchGraph.cpp:181): after what is left of the phrase come the *)
(* phrases of a way on that is worth the state's forward score.            *)
SuffixOnBestPath ==
  pc = "select" /\ i = graph.n =>
    LET rest[s \in States(graph)] ==
          { [score |-> 0, text |-> << >>] : x \in IF graph.trans[s] = << >> THEN {0} ELSE {} }
          \cup UNION { { [score |-> w.score + graph.trans[s][k].score,
                          text  |-> << Space >> \o graph.trans[s][k].text \o w.text]
                         : w \in rest[graph.trans[s][k].to] } : k \in DOMAIN graph.trans[s] }
        s     == best[1]
        begun == IF s = 0 THEN << >> ELSE SubSeq(BackText(s), best[2] + 1, Len(BackText(s)))
    IN  \E w \in rest[s] : /\ w.score = graph.fscore[s]
                           /\ getBestSuffix(s, best[2]) = begun \o w.text
=========================================================================
