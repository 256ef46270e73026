----------------------- MODULE CaitraSearchGraph ------------------------
(***************************************************************************)
(* Class CaitraSearchGraph (method "WeightedCaitra"): the weighted search  *)
(* of WeightedCaitraWithJump without jumps.  A path is known by the number *)
(* of tokens it has matched alone; one completion is kept for each number  *)
(* of errors, and the one worth most is chosen at the end.                 *)
(*                                                                         *)
(* One step stands for one transition with all its matches.                *)
(***************************************************************************)
EXTENDS DecoderGraph, StringEditDistance

CONSTANTS
  Requests,     \* what a user may have typed: records [tokens, space]
  ErrorWeight,  \* errorWeigth, negative: an error costs
  MaxFailures,  \* bound: failed requests in a row
  MinScore      \* less than anything a path can be worth (-1000000)

RequestsAssumption ==
  \A r \in Requests : r.tokens \in Seq(Words) \ {<< >>} /\ r.space \in BOOLEAN

NumbersAssumption ==
  ErrorWeight \in Int /\ ErrorWeight < 0 /\ MaxFailures \in Nat /\ MinScore \in Int

VARIABLES
  graph, prefix, space, partial,
  back,       \* states[s].back for every state s
  best,       \* best[error], defined for the errors with a completion
  bestScore,  \* best_Score
  pc, answer, cur

vars == << graph, prefix, space, partial, back, best, bestScore, pc, answer, cur >>
requestVars == << graph, prefix, space, partial >>

None  == [found |-> FALSE]
Start == [st |-> 0, bi |-> 1, ti |-> 1]

InitialBack ==
  [score |-> 0, error |-> 0, matched |-> 0, bstate |-> -1, bmatched |-> 0, tr |-> 0]

(* The first new_sentence has been served. *)
Init ==
  /\ graph \in Graphs
  /\ prefix = << >> /\ space = FALSE /\ partial = {}
  /\ back = [s \in States(graph) |-> << >>]
  /\ best = << >> /\ bestScore = MinScore
  /\ pc = "idle" /\ answer = None /\ cur = Start

(* new_sentence: a new object.  (Its best_Score is set by getPrefix.) *)
createGraph(g) ==
  /\ pc = "idle"
  /\ graph' = g
  /\ prefix' = << >> /\ space' = FALSE /\ partial' = {}
  /\ back' = [s \in States(g) |-> << >>]
  /\ best' = << >> /\ answer' = None
  /\ UNCHANGED << bestScore, pc, cur >>

(* r continues what was typed before. *)
Extends(r) ==
  LET n == Len(prefix)
  IN  n > 0 =>
        /\ Len(r.tokens) >= n
        /\ \A i \in 1 .. n - 1 : r.tokens[i] = prefix[i]
        /\ \/ r.tokens[n] = prefix[n]
           \/ ~space /\ << prefix[n], r.tokens[n] >> \in PartOf

(* Mutant of getPrefix: the best score is that of the last request. *)
getPrefixKeeps(r) ==
  /\ pc = "idle"
  /\ Len(back[0]) <= MaxFailures
  /\ Extends(r)
  /\ prefix' = r.tokens /\ space' = r.space
  /\ partial' = IF r.space
                  THEN partial
                  ELSE { w \in Words : << r.tokens[Len(r.tokens)], w >> \in PartOf }
  /\ back' = [back EXCEPT ![0] = Append(@, InitialBack)]
  /\ pc' = "search" /\ answer' = None /\ cur' = Start
  /\ UNCHANGED << graph, best, bestScore >>

getPrefix(r) ==
  /\ pc = "idle"
  /\ Len(back[0]) <= MaxFailures
  /\ Extends(r)
  /\ prefix' = r.tokens /\ space' = r.space
  /\ partial' = IF r.space
                  THEN partial
                  ELSE { w \in Words : << r.tokens[Len(r.tokens)], w >> \in PartOf }
  /\ back' = [back EXCEPT ![0] = Append(@, InitialBack)]
  /\ bestScore' = MinScore
  /\ pc' = "search" /\ answer' = None /\ cur' = Start
  /\ UNCHANGED << graph, best >>

-------------------------------------------------------------------------
(* The loop variables of prefix_matching_search. *)
AtState == pc = "search" /\ cur.st < graph.n
AtBack  == AtState /\ cur.bi <= Len(back[cur.st])
Back    == back[cur.st][cur.bi]
Trans   == graph.trans[cur.st][cur.ti]

Worth(score, error) == score + ErrorWeight * error

(* A path is given up if it cannot become worth as much as the best        *)
(* completion so far.  Tested once, when the loop comes to it.             *)
Hopeless ==
  cur.ti = 1 /\ graph.fscore[cur.st] + Worth(Back.score, Back.error) < bestScore

Better(old, new) ==
  \/ Worth(old.score, old.error) < Worth(new.score, new.error)
  \/ /\ Worth(old.score, old.error) = Worth(new.score, new.error)
     /\ old.bmatched < new.matched

(* Record a path: it competes with the path to the same state with as many *)
(* tokens matched.                                                         *)
Record(seq, new) ==
  LET same == { i \in DOMAIN seq : seq[i].matched = new.matched }
  IN  IF same = {}
        THEN Append(seq, new)
        ELSE LET i == Min(same)
             IN  IF Better(seq[i], new) THEN [seq EXCEPT ![i] = new] ELSE seq

(* Mutant of Continue: it is linked to where it leads, not to where it     *)
(* comes from.                                                             *)
ContinueOwn(x) ==
  [score |-> Back.score + Trans.score, error |-> Back.error + x.error,
   matched |-> x.pm, bstate |-> cur.st, bmatched |-> x.pm, tr |-> cur.ti]

Continue(x) ==
  [score |-> Back.score + Trans.score, error |-> Back.error + x.error,
   matched |-> x.pm, bstate |-> cur.st, bmatched |-> Back.matched, tr |-> cur.ti]

(* process_match, the prefix not being consumed. *)
Recorded(seq, x) == IF x.pm < Len(prefix) THEN Record(seq, Continue(x)) ELSE seq

Completion(x) ==
  [score |-> Back.score + Trans.score + graph.fscore[Trans.to],
   from |-> cur.st, tr |-> cur.ti, tm |-> x.tm, bmatched |-> Back.matched]

(* process_match, the prefix being consumed: found is best with best_Score. *)
Completed(found, x) ==
  LET new   == Completion(x)
      error == Back.error + x.error
  IN  IF x.pm = Len(prefix)
           /\ (error \in DOMAIN found.best => new.score > found.best[error].score)
        THEN [best  |-> [e \in DOMAIN found.best \cup {error} |->
                           IF e = error THEN new ELSE found.best[e]],
              score |-> Max({found.score, Worth(new.score, error)})]
        ELSE found

(* process_match for one match after the other. *)
AllRecorded(seq, matches) ==
  LET recorded[n \in 0 .. Len(matches)] ==
        IF n = 0 THEN seq ELSE Recorded(recorded[n - 1], matches[n])
  IN  recorded[Len(matches)]

AllCompleted(found, matches) ==
  LET completed[n \in 0 .. Len(matches)] ==
        IF n = 0 THEN found ELSE Completed(completed[n - 1], matches[n])
  IN  completed[Len(matches)]

process_matches ==
  /\ AtBack /\ ~Hopeless /\ cur.ti <= Len(graph.trans[cur.st])
  /\ \E matches \in {string_edit_distance(prefix, Back.matched, Trans.output, partial, space)} :
       /\ back' = [back EXCEPT ![Trans.to] = AllRecorded(@, matches)]
       /\ \E found \in {AllCompleted([best |-> best, score |-> bestScore], matches)} :
            best' = found.best /\ bestScore' = found.score
  /\ cur' = [cur EXCEPT !.ti = @ + 1]
  /\ UNCHANGED << requestVars, pc, answer >>

NextBack ==
  /\ AtBack
  /\ Hopeless \/ cur.ti > Len(graph.trans[cur.st])
  /\ cur' = [cur EXCEPT !.bi = @ + 1, !.ti = 1]
  /\ UNCHANGED << requestVars, back, best, bestScore, pc, answer >>

(* Mutant of NextState: the same state again. *)
SameState ==
  /\ AtState /\ cur.bi > Len(back[cur.st])
  /\ cur' = [cur EXCEPT !.bi = 1]
  /\ UNCHANGED << requestVars, back, best, bestScore, pc, answer >>

NextState ==
  /\ AtState /\ cur.bi > Len(back[cur.st])
  /\ cur' = [cur EXCEPT !.st = @ + 1, !.bi = 1]
  /\ UNCHANGED << requestVars, back, best, bestScore, pc, answer >>

-------------------------------------------------------------------------
EndOfSearch == pc = "search" /\ cur.st = graph.n

(* The least number of errors among those whose completion is worth most. *)
BestError ==
  LET w(e) == Worth(best[e].score, e)
  IN  Min({ e \in DOMAIN best : \A f \in DOMAIN best : w(f) <= w(e) })

Suggestion(b, error) ==
  LET t    == graph.trans[b.from][b.tr]
      last == t.output[b.tm]
  IN  [found |-> TRUE, score |-> b.score, error |-> error,
       completes |-> IF ~space /\ last \in partial THEN {last} ELSE {},
       words |-> SubSeq(t.output, b.tm + 1, Len(t.output)) \o ForwardWords(graph)[t.to]]

(* getPrefix after the search: it answers and clears the search, or it     *)
(* returns before it comes to clearing it.                                 *)
Answer ==
  /\ EndOfSearch
  /\ best # << >>
  /\ answer' = Suggestion(best[BestError], BestError)
  /\ back' = [s \in States(graph) |-> << >>]
  /\ best' = << >>
  /\ pc' = "idle" /\ cur' = Start
  /\ UNCHANGED << requestVars, bestScore >>

Fail ==
  /\ EndOfSearch
  /\ best = << >>
  /\ pc' = "idle" /\ cur' = Start
  /\ UNCHANGED << requestVars, back, best, bestScore, answer >>

Step == process_matches \/ NextBack \/ NextState \/ Answer \/ Fail

Next == \/ \E g \in Graphs : createGraph(g)
        \/ \E r \in Requests : getPrefix(r)
        \/ Step

(* The search is a loop of a single thread. *)
Spec == Init /\ [][Next]_vars /\ WF_vars(Step)

-------------------------------------------------------------------------
(* Every variable keeps to its type, and what is recorded can be followed  *)
(* back to the beginning, although failed requests leave paths behind.     *)
LinkOK(from, tr, bmatched) ==
  /\ from \in States(graph) /\ tr \in DOMAIN graph.trans[from]
  /\ \E i \in DOMAIN back[from] : back[from][i].matched = bmatched

TypeOK ==
  /\ graph \in Graphs
  /\ prefix \in Seq(Words) /\ space \in BOOLEAN /\ partial \subseteq Words
  /\ DOMAIN back = States(graph)
  /\ \A s \in States(graph) : \A i \in DOMAIN back[s] :
       LET b == back[s][i]
       IN  /\ b.error \in Nat /\ b.matched \in 0 .. Len(prefix)
           /\ IF s = 0 THEN b = InitialBack
                       ELSE /\ LinkOK(b.bstate, b.tr, b.bmatched)
                            /\ graph.trans[b.bstate][b.tr].to = s
  /\ DOMAIN best \subseteq Nat
  /\ \A e \in DOMAIN best : LinkOK(best[e].from, best[e].tr, best[e].bmatched)
  /\ bestScore \in Int
  /\ pc \in {"idle", "search"}
  /\ cur \in [st : 0 .. graph.n, bi : Nat \ {0}, ti : Nat \ {0}]

(* Whatever was asked before, a request is answered with a completion that *)
(* is worth most, and with none only if there is none: giving up paths     *)
(* against best_Score, which is that of this request alone, loses nothing. *)
Promise == INSTANCE BestCompletion
             WITH EditMatches <- string_edit_distance, MayJump <- FALSE

(* No completion is worth as little as the value the search starts with. *)
MinScoreAssumption ==
  \A g \in Graphs, r \in Requests, part \in SUBSET Words :
    \A w \in Promise!Ways(g, r.tokens, r.space, part) : Promise!Worth(w) > MinScore

KeepsPromise == Promise!Init /\ [][Promise!Next]_(Promise!vars)

(* Every request is answered: the loops, whose lists grow while they run   *)
(* through them, come to an end.                                           *)
Answered == pc = "search" ~> pc = "idle"
=========================================================================
