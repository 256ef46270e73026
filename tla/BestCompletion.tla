------------------------- MODULE BestCompletion -------------------------
(***************************************************************************)
(* What a weighted prefix search promises its user, with no search in it:  *)
(* every request is answered with a completion of a translation in the     *)
(* graph that is worth most, whatever was asked before.                    *)
(*                                                                         *)
(* A way to lay the graph against the prefix is a path from state 0 whose  *)
(* phrases each match some tokens, except, where the search may jump, for  *)
(* one run of phrases that is jumped over; the phrase that matches the     *)
(* last token may stop anywhere, the rest of the translation is the best   *)
(* way forward.                                                            *)
(***************************************************************************)
EXTENDS DecoderGraph

CONSTANTS
  Requests, ErrorWeight, EditMatches(_, _, _, _, _),
  MayJump   \* TRUE: phrases may be left out

VARIABLES graph, prefix, space, partial, pc, answer

vars == << graph, prefix, space, partial, pc, answer >>

(* Where a way on may start: a state, how many tokens are matched, and 0    *)
(* before, 1 in and 2 after the run of jumped phrases.                     *)
Situations(g, p) == States(g) \X (0 .. Len(p) - 1) \X (0 .. 2)

(* The end of a way: transition t stops at the end of the prefix. *)
Completion(g, t, x) ==
  [score |-> t.score + g.fscore[t.to], error |-> x.error,
   last |-> t.output[x.tm], jumped |-> << >>,
   suffix |-> SubSeq(t.output, x.tm + 1, Len(t.output)) \o ForwardWords(g)[t.to]]

(* Way w with transition t before it, matched with some errors or jumped.  *)
Matched(w, t, errors) ==
  [score |-> w.score + t.score, error |-> w.error + errors, last |-> w.last,
   jumped |-> w.jumped, suffix |-> w.suffix]
Jumped(w, t, errors) ==
  [score |-> w.score + t.score, error |-> w.error + errors, last |-> w.last,
   jumped |-> t.output \o w.jumped, suffix |-> w.suffix]

(* The ways on from situation c that begin with transition t, ways being   *)
(* those from every situation.                                             *)
WaysOver(g, p, sp, part, ways, c, t) ==
  LET found == EditMatches(p, c[2], t.output, part, sp)
  IN  (IF c[3] = 2 \/ ~MayJump
         THEN {}
         ELSE { Jumped(w, t, IF c[3] = 0 THEN 1 ELSE 0) : w \in ways[<< t.to, c[2], 1 >>] })
      \cup UNION { IF found[y].pm = Len(p)
                     THEN { Completion(g, t, found[y]) }
                     ELSE { Matched(w, t, found[y].error)
                            : w \in ways[<< t.to, found[y].pm, IF c[3] = 0 THEN 0 ELSE 2 >>] }
                   : y \in DOMAIN found }

AllWays(g, p, sp, part) ==
  LET ways[c \in Situations(g, p)] ==
        UNION { WaysOver(g, p, sp, part, ways, c, g.trans[c[1]][k])
                : k \in DOMAIN g.trans[c[1]] }
  IN  ways

Ways(g, p, sp, part) == AllWays(g, p, sp, part)[<< 0, 0, 0 >>]

Worth(w) == w.score + ErrorWeight * w.error

BestWays(ways) == { w \in ways : \A v \in ways : Worth(v) <= Worth(w) }

Suggestions(w, sp, part) ==
  { [found |-> TRUE, score |-> w.score, error |-> w.error,
     completes |-> IF ~sp /\ w.last \in part THEN {w.last} ELSE {},
     words |-> words] : words \in { w.suffix \o w.jumped, w.jumped \o w.suffix } }

None == [found |-> FALSE]

Init ==
  /\ graph \in Graphs
  /\ prefix = << >> /\ space = FALSE /\ partial = {}
  /\ pc = "idle"
  /\ answer = None

NewSentence ==
  /\ pc = "idle"
  /\ graph' \in Graphs
  /\ prefix' = << >> /\ space' = FALSE /\ partial' = {}
  /\ answer' = None
  /\ UNCHANGED pc

Ask ==
  /\ pc = "idle"
  /\ \E r \in Requests :
       /\ prefix' = r.tokens /\ space' = r.space
       /\ partial' = IF r.space THEN partial
                     ELSE { w \in Words : << r.tokens[Len(r.tokens)], w >> \in PartOf }
  /\ pc' = "search"
  /\ answer' = None
  /\ UNCHANGED graph

Reply ==
  /\ pc = "search"
  /\ LET ways == Ways(graph, prefix, space, partial)
     IN  IF ways = {}
           THEN answer' = None
           ELSE \E w \in BestWays(ways) : answer' \in Suggestions(w, space, partial)
  /\ pc' = "idle"
  /\ UNCHANGED << graph, prefix, space, partial >>

Next == NewSentence \/ Ask \/ Reply

Spec == Init /\ [][Next]_vars
=========================================================================
