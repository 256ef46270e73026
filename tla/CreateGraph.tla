-------------------------- MODULE CreateGraph --------------------------
(***************************************************************************)
(* How the search graph comes about: Manager::GetSearchGraph lists the     *)
(* hypotheses of the decoder's stacks with the best way forward of each,   *)
(* and createGraph of the prefix searches turns the list into states and   *)
(* transitions, one node of the list and then one state per step.          *)
(***************************************************************************)
EXTENDS HypothesisLattice, Sequences

CONSTANTS Lattices   \* what the decoder may leave

ASSUME LatticesAssumption == \A l \in Lattices : LatticeType(l) /\ LatticeOK(l)

VARIABLES
  lattice,
  listed,      \* the hypotheses whose nodes have been turned into states
  states,      \* states, in order: records [forward, fscore, trans]
  hypId2stateId, recombination,   \* the maps of createGraph
  fixed        \* number of states whose references have been resolved, or -1

vars == << lattice, listed, states, hypId2stateId, recombination, fixed >>

(* operator[] of a map of numbers. *)
At(map, k) == IF k \in DOMAIN map THEN map[k] ELSE 0

Put(map, k, v) == [x \in DOMAIN map \cup {k} |-> IF x = k THEN v ELSE map[x]]

Init ==
  /\ lattice \in Lattices
  /\ listed = {} /\ states = << >> /\ fixed = -1
  /\ hypId2stateId = [x \in {} |-> 0] /\ recombination = [x \in {} |-> 0]

-------------------------------------------------------------------------
(* The node list: stack by stack, in any order within a stack, each        *)
(* winner followed by its arc list.                                        *)
NextInList(h) ==
  /\ h \in Hyps(lattice) \ listed
  /\ \A k \in Winners(lattice) : lattice.cover[k] < lattice.cover[h] =>
       {k} \cup Losers(lattice, k) \subseteq listed
  /\ IF h \in Winners(lattice)
       THEN \A k \in listed : lattice.win[k] # k \/ Losers(lattice, k) \subseteq listed
       ELSE lattice.win[h] \in listed

NewStates(h) ==
  [forward : Forwards(lattice, h), fscore : {ForwardScore(lattice)[h]}, trans : {<< >>}]

(* states[i].transitions.push_back *)
AddTransition(h, to) ==
  LET i == At(hypId2stateId, lattice.prev[h]) + 1
      t == [to |-> to, score |-> lattice.gain[h], output |-> << h >>]
  IN  [states EXCEPT ![i].trans = Append(@, t)]

EmptyHypothesis ==
  /\ NextInList(0)
  /\ \E s \in NewStates(0) : states' = Append(states, s)
  /\ listed' = {0}
  /\ UNCHANGED << lattice, hypId2stateId, recombination, fixed >>

Winner(h) ==
  /\ h # 0 /\ h \in Winners(lattice) /\ NextInList(h)
  /\ \E s \in NewStates(h) : states' = Append(AddTransition(h, h), s)
  /\ hypId2stateId' = Put(hypId2stateId, h, Len(states))
  /\ listed' = listed \cup {h}
  /\ UNCHANGED << lattice, recombination, fixed >>

(* Mutant of Loser: the transition is forgotten. *)
LoserForgotten(h) ==
  /\ h \notin Winners(lattice) /\ NextInList(h)
  /\ recombination' = Put(recombination, h, lattice.win[h])
  /\ listed' = listed \cup {h}
  /\ UNCHANGED << lattice, states, hypId2stateId, fixed >>

Loser(h) ==
  /\ h \notin Winners(lattice) /\ NextInList(h)
  /\ states' = AddTransition(h, lattice.win[h])
  /\ recombination' = Put(recombination, h, lattice.win[h])
  /\ listed' = listed \cup {h}
  /\ UNCHANGED << lattice, hypId2stateId, fixed >>

(* Mutant of NoMoreNodes: the map has no entry for "no hypothesis". *)
NoMoreNodesOnly ==
  /\ fixed = -1 /\ listed = Hyps(lattice)
  /\ fixed' = 0
  /\ UNCHANGED << lattice, listed, states, hypId2stateId, recombination >>

NoMoreNodes ==
  /\ fixed = -1 /\ listed = Hyps(lattice)
  /\ hypId2stateId' = Put(hypId2stateId, -1, -1)
  /\ fixed' = 0
  /\ UNCHANGED << lattice, listed, states, recombination >>

(* Mutant of Resolve: forward references to recombined hypotheses remain. *)
ResolveDirect(s) ==
  [s EXCEPT !.forward = At(hypId2stateId, @),
            !.trans = [k \in DOMAIN s.trans |->
                            [s.trans[k] EXCEPT !.to = At(hypId2stateId, @)]]]

(* Hypothesis numbers become state numbers. *)
Resolve(s) ==
  LET f == IF s.forward \in DOMAIN recombination THEN recombination[s.forward]
                                                 ELSE s.forward
  IN  [s EXCEPT !.forward = At(hypId2stateId, f),
                !.trans = [k \in DOMAIN s.trans |->
                            [s.trans[k] EXCEPT !.to = At(hypId2stateId, @)]]]

FixState ==
  /\ fixed \in 0 .. Len(states) - 1
  /\ states' = [states EXCEPT ![fixed + 1] = Resolve(@)]
  /\ fixed' = fixed + 1
  /\ UNCHANGED << lattice, listed, hypId2stateId, recombination >>

Next ==
  \/ EmptyHypothesis
  \/ \E h \in Hyps(lattice) : Winner(h) \/ Loser(h)
  \/ NoMoreNodes
  \/ FixState

Spec == Init /\ [][Next]_vars

-------------------------------------------------------------------------
(* The graph as the searches see it. *)
Done == fixed = Len(states)
Graph ==
  [n       |-> Len(states),
   trans   |-> [s \in 0 .. Len(states) - 1 |-> states[s + 1].trans],
   forward |-> [s \in 0 .. Len(states) - 1 |-> states[s + 1].forward],
   fscore  |-> [s \in 0 .. Len(states) - 1 |-> states[s + 1].fscore]]

D == INSTANCE DecoderGraph WITH
       Words <- Hyps(lattice), PartOf <- {}, Graphs <- {Graph}

(* What the prefix searches take for granted of their graph.               *)
GraphAsAssumed == Done => D!GraphType(Graph) /\ D!Ordered(Graph) /\ D!ForwardBest(Graph)

(* The ways from each state to the end of the graph, as the hypotheses     *)
(* they go through.                                                        *)
Paths ==
  LET paths[s \in 0 .. Len(states) - 1] ==
        IF Graph.trans[s] = << >> THEN { << >> }
        ELSE UNION { { Graph.trans[s][k].output \o p : p \in paths[Graph.trans[s][k].to] }
                     : k \in DOMAIN Graph.trans[s] }
  IN  paths

(* The decoder's ways from h to a complete translation: each hypothesis is *)
(* made from the one that took the place of the last.                      *)
DerivationsFrom(l, h) ==
  UNION { { p \in [1 .. n -> Hyps(l) \ {0}] :
              LET Place(i) == IF i = 0 THEN h ELSE l.win[p[i]]
              IN  /\ \A i \in 1 .. n : l.prev[p[i]] = Place(i - 1)
                  /\ l.cover[Place(n)] = Length(l) }
          : n \in 0 .. Length(l) }

(* The graph offers exactly the derivations of the decoder, those of       *)
(* recombined hypotheses included.                                         *)
SameTranslations == Done => Paths[0] = DerivationsFrom(lattice, 0)

(* What the phrases of some hypotheses are worth together.                 *)
Worth(l, hyps) ==
  LET sum[i \in 0 .. Len(hyps)] == IF i = 0 THEN 0 ELSE sum[i - 1] + l.gain[hyps[i]]
  IN  sum[Len(hyps)]

(* The words that follow a state on the best way forward are those of a    *)
(* way that is worth the state's forward score.                            *)
ForwardIsBest ==
  Done => \A s \in 0 .. Len(states) - 1 :
            Worth(lattice, D!ForwardWords(Graph)[s]) = Graph.fscore[s]
=========================================================================
