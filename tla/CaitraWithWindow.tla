------------------------ MODULE CaitraWithWindow ------------------------
(***************************************************************************)
(* Class CaitraWithWindow (method "Window").  The user may have typed the  *)
(* words of a translation in another order: a token may be matched by a    *)
(* word that comes up to WindowSize - 1 tokens too late.  Such a token is  *)
(* left open when the search goes past it, and bit k of a path's mask says *)
(* that the token k + 1 places before the first unmatched one is open; a   *)
(* later phrase must take it.                                              *)
(*                                                                         *)
(* The search passes through the graph once, and continues only paths that *)
(* have no more errors than the completion with the fewest so far.         *)
(***************************************************************************)
EXTENDS DecoderGraph, FiniteSets, FiniteSetsExt, Functions, SequencesExt

CONSTANTS
  Requests,     \* what a user may have typed: records [tokens, space]
  WindowSize,   \* windowSize
  ErrorWeight,  \* errorWeigth, in percent
  MaxFailures   \* bound: failed requests in a row

RequestsAssumption ==
  \A r \in Requests : r.tokens \in Seq(Words) \ {<< >>} /\ r.space \in BOOLEAN

NumbersAssumption ==
  WindowSize \in Nat \ {0} /\ ErrorWeight \in 0 .. 100 /\ MaxFailures \in Nat

VARIABLES
  graph,      \* states, with their transitions
  prefix,
  space,      \* prefix_has_final_space
  partial,    \* partially_matches_last_token
  back,       \* for every state its sequence of back transitions
  best,       \* best, on the numbers of errors for which it is set
  errorAllowed,
  pc, answer,
  cur         \* loop positions: state, back, transition

vars == << graph, prefix, space, partial, back, best, errorAllowed, pc, answer, cur >>
requestVars == << graph, prefix, space, partial >>

None  == [found |-> FALSE]
Start == [st |-> 0, bi |-> 1, ti |-> 1]
NoLimit == 20000

InitialBack ==
  [score |-> 0, error |-> 0, matched |-> 0, mask |-> 0,
   bstate |-> -1, bmatched |-> 0, bmask |-> 0, tr |-> 0]

Init ==
  /\ graph \in Graphs
  /\ prefix = << >> /\ space = FALSE /\ partial = {}
  /\ back = [s \in States(graph) |-> << >>]
  /\ best = << >> /\ errorAllowed = NoLimit
  /\ pc = "idle" /\ answer = None /\ cur = Start

createGraph(g) ==
  /\ pc = "idle"
  /\ graph' = g
  /\ prefix' = << >> /\ space' = FALSE /\ partial' = {}
  /\ back' = [s \in States(g) |-> << >>]
  /\ best' = << >>
  /\ answer' = None
  /\ UNCHANGED << errorAllowed, pc, cur >>

(* r continues what was typed before. *)
Extends(r) ==
  LET n == Len(prefix)
  IN  n > 0 =>
        /\ Len(r.tokens) >= n
        /\ \A i \in 1 .. n - 1 : r.tokens[i] = prefix[i]
        /\ \/ r.tokens[n] = prefix[n]
           \/ ~space /\ << prefix[n], r.tokens[n] >> \in PartOf

getPrefix(r) ==
  /\ pc = "idle"
  /\ Len(back[0]) <= MaxFailures
  /\ Extends(r)
  /\ prefix' = r.tokens
  /\ space' = r.space
  /\ partial' = IF r.space
                  THEN partial
                  ELSE { w \in Words : << r.tokens[Len(r.tokens)], w >> \in PartOf }
  /\ back' = [back EXCEPT ![0] = Append(@, InitialBack)]
  /\ errorAllowed' = NoLimit
  /\ cur' = Start
  /\ pc' = "search"
  /\ answer' = None
  /\ UNCHANGED << graph, best >>

-------------------------------------------------------------------------
(* Bit masks. *)
Masks      == 0 .. 2^WindowSize - 1
Open(m, k) == (m \div 2^k) % 2 = 1

(* A word of the phrase stands for token number id of the prefix. *)
Agree(id, w) == prefix[id] = w \/ (id = Len(prefix) /\ w \in partial)

(* editDistance(i0, m0, j0): the errors of laying the first j0 words of    *)
(* the phrase against the next i0 tokens, after which the tokens of m0 are *)
(* open; mask are the ones that earlier phrases left open.                 *)
editDistance(done, mask, out, i0, m0, j0) ==
  LET d[i \in 0 .. Len(prefix), m \in Masks, j \in 0 .. Len(out)] ==
        IF i = 0 /\ j = 0 /\ m = mask
          THEN 0
        ELSE IF i > 0 /\ Open(m, 0)
          THEN d[i - 1, m \div 2, j]
        ELSE Min({ Len(prefix) + Len(out) + 1 }
                 \cup (IF i > 0 THEN { d[i - 1, m \div 2, j] + 1 } ELSE {})
                 \cup (IF j > 0 THEN { d[i, m, j - 1] + 1 } ELSE {})
                 \cup { d[i, m + 2^k, j - 1]
                          + (IF Agree(done + i - k, out[j]) THEN 0 ELSE 1)
                        : k \in { x \in 0 .. WindowSize - 1 :
                                    j > 0 /\ done + i - x >= 1 /\ ~Open(m, x) } })
  IN  d[i0, m0, j0]

(* string_edit_distance: the matches that consume the prefix, which leave  *)
(* nothing open, and those that consume the phrase.                        *)
PrefixConsumed(done, mask, out) ==
  LET ends == SelectSeq([j \in 1 .. Len(out) |-> j],
                        LAMBDA j : space \/ out[j] \in partial)
  IN  [x \in 1 .. Len(ends) |->
         [error |-> editDistance(done, mask, out, Len(prefix) - done, 0, ends[x]),
          pm |-> Len(prefix), mask |-> 0, tm |-> ends[x]]]

TransitionConsumed(done, mask, out) ==
  LET n == 2^WindowSize
  IN  [x \in 1 .. (Len(prefix) - done) * n |->
         LET i == (x - 1) \div n
             m == (x - 1) % n
         IN  [error |-> editDistance(done, mask, out, i, m, Len(out)),
              pm |-> done + i, mask |-> m, tm |-> Len(out)]]

string_edit_distance(done, mask, out) ==
  PrefixConsumed(done, mask, out) \o TransitionConsumed(done, mask, out)

-------------------------------------------------------------------------
(* The loop variables of prefix_matching_search. *)
AtState == pc = "search" /\ cur.st < graph.n
AtBack  == AtState /\ cur.bi <= Len(back[cur.st])
Back    == back[cur.st][cur.bi]
Trans   == graph.trans[cur.st][cur.ti]

(* A path is continued over all transitions or over none. *)
Continued == cur.ti > 1 \/ Back.error <= errorAllowed

(* Fewer errors are better, then a higher score. *)
Better(old, new) ==
  \/ old.error > new.error
  \/ /\ old.error = new.error
     /\ old.score < new.score \/ (old.score = new.score /\ old.bmatched < new.matched)

(* Mutant of Record: paths with different open tokens compete. *)
RecordAnyMask(seq, new) ==
  LET same == { i \in DOMAIN seq : seq[i].matched = new.matched }
  IN  IF same = {}
        THEN Append(seq, new)
        ELSE LET i == Min(same)
             IN  IF Better(seq[i], new) THEN [seq EXCEPT ![i] = new] ELSE seq

(* Record a path: it competes with the path to the same state with the     *)
(* same tokens matched and open.                                           *)
Record(seq, new) ==
  LET same == { i \in DOMAIN seq : seq[i].matched = new.matched
                                   /\ seq[i].mask = new.mask }
  IN  IF same = {}
        THEN Append(seq, new)
        ELSE LET i == Min(same)
             IN  IF Better(seq[i], new) THEN [seq EXCEPT ![i] = new] ELSE seq

(* The path that continues Back by match x of Trans. *)
Continue(x) ==
  [score |-> Back.score + Trans.score, error |-> Back.error + x.error,
   matched |-> x.pm, mask |-> x.mask,
   bstate |-> cur.st, bmatched |-> Back.matched, bmask |-> Back.mask, tr |-> cur.ti]

Completion(x) ==
  [score |-> Back.score + Trans.score + graph.fscore[Trans.to],
   from |-> cur.st, tr |-> cur.ti, tm |-> x.tm, bmatched |-> Back.matched]

Consumed(x) == x.pm = Len(prefix) /\ x.mask = 0

(* process_match, the prefix not being consumed. *)
Recorded(seq, x) == IF Consumed(x) THEN seq ELSE Record(seq, Continue(x))

(* process_match, the prefix being consumed: b becomes the completion with *)
(* its number of errors when it is the first or has a higher score.  (All  *)
(* completions have the same prefix_matched.)                              *)
Completed(b, x) ==
  LET error == Back.error + x.error
      keep  == error \notin DOMAIN b \/ Completion(x).score > b[error].score
  IN  IF Consumed(x) /\ keep
        THEN [e \in DOMAIN b \cup {error} |-> IF e = error THEN Completion(x) ELSE b[e]]
        ELSE b

(* Lay the phrase of a transition against the prefix and process all its   *)
(* matches.  A completion sets the limit when it is the first or best one  *)
(* with its number of errors.                                              *)
process_matches ==
  /\ AtBack /\ Continued /\ cur.ti <= Len(graph.trans[cur.st])
  /\ \E matches \in {string_edit_distance(Back.matched, Back.mask, Trans.output)} :
       \E completed \in {FoldLeft(Completed, best, matches)} :
         /\ back' = [back EXCEPT ![Trans.to] = FoldLeft(Recorded, @, matches)]
         /\ best' = completed
         /\ errorAllowed' =
              Min({errorAllowed} \cup { e \in DOMAIN completed :
                                          e \notin DOMAIN best \/ completed[e] # best[e] })
  /\ cur' = [cur EXCEPT !.ti = @ + 1]
  /\ UNCHANGED << requestVars, pc, answer >>

NextBack ==
  /\ AtBack
  /\ ~Continued \/ cur.ti > Len(graph.trans[cur.st])
  /\ cur' = [cur EXCEPT !.bi = @ + 1, !.ti = 1]
  /\ UNCHANGED << requestVars, back, best, errorAllowed, pc, answer >>

NextState ==
  /\ AtState /\ cur.bi > Len(back[cur.st])
  /\ cur' = [cur EXCEPT !.st = @ + 1, !.bi = 1]
  /\ UNCHANGED << requestVars, back, best, errorAllowed, pc, answer >>

EndOfSearch == pc = "search" /\ cur.st = graph.n

-------------------------------------------------------------------------
(* What a completion is worth. *)
Value(score, error) == (100 - ErrorWeight) * score - ErrorWeight * error

(* Mutant of BestError: the most errors. *)
MostErrors == Max(DOMAIN best)

(* The number of errors of the completion that is the answer: the fewest   *)
(* among those of highest value.                                           *)
BestError ==
  Min({ e \in DOMAIN best : \A f \in DOMAIN best :
          Value(best[f].score, f) <= Value(best[e].score, e) })

Suggestion(b, error) ==
  LET t    == graph.trans[b.from][b.tr]
      last == t.output[b.tm]
  IN  [found |-> TRUE, score |-> b.score, error |-> error,
       completes |-> IF ~space /\ last \in partial THEN {last} ELSE {},
       words |-> SubSeq(t.output, b.tm + 1, Len(t.output)) \o ForwardWords(graph)[t.to]]

(* getPrefix after the search has found a completion. *)
Answer ==
  /\ EndOfSearch
  /\ best # << >>
  /\ answer' = Suggestion(best[BestError], BestError)
  /\ back' = [s \in States(graph) |-> << >>]
  /\ best' = << >>
  /\ pc' = "idle"
  /\ errorAllowed' = NoLimit /\ cur' = Start
  /\ UNCHANGED requestVars

(* There is none: 20000 is returned, and getPrefix returns the empty       *)
(* string before it comes to clearing the search.                          *)
Fail ==
  /\ EndOfSearch
  /\ best = << >>
  /\ pc' = "idle"
  /\ errorAllowed' = NoLimit /\ cur' = Start
  /\ UNCHANGED << requestVars, back, best, answer >>

Step == process_matches \/ NextBack \/ NextState \/ Answer \/ Fail

Next == \/ \E g \in Graphs : createGraph(g)
        \/ \E r \in Requests : getPrefix(r)
        \/ Step

Spec == Init /\ [][Next]_vars

-------------------------------------------------------------------------
(* Every variable keeps to its type, and getPrefix, which follows the back *)
(* transitions by the number of tokens matched only, always finds one.     *)
LinkOK(from, tr, bmatched) ==
  /\ from \in States(graph) /\ tr \in DOMAIN graph.trans[from]
  /\ \E i \in DOMAIN back[from] : back[from][i].matched = bmatched

TypeOK ==
  /\ graph \in Graphs
  /\ prefix \in Seq(Words) /\ space \in BOOLEAN /\ partial \subseteq Words
  /\ DOMAIN back = States(graph)
  /\ \A s \in States(graph) : \A i \in DOMAIN back[s] :
       LET b == back[s][i]
       IN  /\ b.error \in Nat /\ b.matched \in 0 .. Len(prefix) /\ b.mask \in Masks
           /\ IF s = 0 THEN b = InitialBack
                       ELSE /\ LinkOK(b.bstate, b.tr, b.bmatched)
                            /\ graph.trans[b.bstate][b.tr].to = s
  /\ \A e \in DOMAIN best :
       e \in Nat /\ LinkOK(best[e].from, best[e].tr, best[e].bmatched)
  /\ errorAllowed \in 0 .. NoLimit
  /\ pc \in {"idle", "search"}
  /\ cur \in [st : 0 .. graph.n, bi : Nat \ {0}, ti : Nat \ {0}]

W == INSTANCE WindowAlignment
AllWays    == W!Ways(graph, prefix, space, partial)
Fewest(ways) == { w \in ways : \A v \in ways : w.error <= v.error }

(* When the search ends it has found the fewest errors with which any      *)
(* translation, its words moved within the window, stands for the prefix,  *)
(* and the highest score of such a translation, although it lays phrase    *)
(* after phrase, keeps one path for the tokens matched and open, and gives *)
(* up paths with more errors than a completion it has.                     *)
FindsFewest ==
  EndOfSearch =>
    \E ways \in {AllWays} :
      IF ways = {}
        THEN best = << >>
        ELSE LET error == Min(DOMAIN best)
             IN  \A w \in Fewest(ways) :
                   error = w.error /\ w.score <= best[error].score

(* The answer is one of the translations, it does not report fewer errors  *)
(* than that has, and none of those with the fewest errors is worth more.  *)
(* (It may report more: its cheapest path may have been given up.)         *)
Reply ==
  \E ways \in {AllWays} :
    IF ways = {}
      THEN answer' = None
      ELSE /\ \E w \in ways :
                /\ answer' = [found |-> TRUE, score |-> w.score, error |-> answer'.error,
                              completes |-> IF ~space /\ w.last \in partial
                                              THEN {w.last} ELSE {},
                              words |-> w.suffix]
                /\ w.error <= answer'.error
           /\ \A w \in Fewest(ways) :
                Value(w.score, w.error) <= Value(answer'.score, answer'.error)
KeepsPromise == [][pc = "search" /\ pc' = "idle" => Reply]_vars
=========================================================================
