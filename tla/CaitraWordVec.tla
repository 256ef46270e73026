------------------------- MODULE CaitraWordVec --------------------------
(***************************************************************************)
(* Class CaitraWordVec (methods "StopWords", "WordVector" and "both").     *)
(* Errors are not counted but priced: one in a stop word, or a word in the *)
(* place of a similar one, costs less than 1.  The search weighs the price *)
(* against the score, keeps a single completion, and gives up paths that   *)
(* cannot become worth more.  Its object serves all sentences of a session *)
(* (the others are made anew for each).                                    *)
(*                                                                         *)
(* Prices and similarities are in units of 1 / Unit.                       *)
(***************************************************************************)
EXTENDS DecoderGraph, FiniteSets, FiniteSetsExt, SequencesExt

CONSTANTS
  Requests,        \* what a user may have typed: records [tokens, space]
  Methods,         \* m_method
  StopWords,       \* stopWords
  Unit,            \* the price of an ordinary error
  StopWordsError,  \* stopWordsError
  Similarity,      \* getDistance, for every two words
  Alphabet,        \* the words in alphabetical order
  Orders,          \* orders in which the decoder may bring up the words
  ErrorWeight,     \* errorWeigth
  MaxFailures      \* bound: failed requests in a row

RequestsAssumption ==
  \A r \in Requests : r.tokens \in Seq(Words) \ {<< >>} /\ r.space \in BOOLEAN

PricesAssumption ==
  /\ Methods \subseteq {"StopWords", "WordVector", "both"}
  /\ StopWords \subseteq Words
  /\ Unit \in Nat \ {0} /\ StopWordsError \in 0 .. Unit
  /\ Similarity \in [Words \X Words -> 0 .. Unit]
  /\ ErrorWeight \in Nat /\ MaxFailures \in Nat

OrdersAssumption ==
  Alphabet \in SetToSeqs(Words) /\ Orders \subseteq SetToSeqs(Words)

VARIABLES
  method,
  graph, prefix, space, partial,
  surface,           \* the words of the lexicon, in the order of their numbers
  wordsSimilarity,   \* for every token of the prefix a sequence of similarities
  back, best,
  pc, answer, cur

vars == << method, graph, prefix, space, partial, surface, wordsSimilarity,
           back, best, pc, answer, cur >>
requestVars == << method, graph, prefix, space, partial, surface, wordsSimilarity >>

None  == [found |-> FALSE]
Start == [st |-> 0, bi |-> 1, ti |-> 1]

InitialBack ==
  [score |-> 0, error |-> 0, matched |-> 0, bstate |-> -1, bmatched |-> 0, tr |-> 0]

WordsOf(g) ==
  UNION { UNION { ToSet(g.trans[s][k].output) : k \in DOMAIN g.trans[s] }
          : s \in States(g) }

(* add_to_lexicon, for one word after the other. *)
AddToLexicon(known, words) ==
  FoldLeft(LAMBDA l, w : IF w \in ToSet(l) THEN l ELSE Append(l, w), known, words)

LexiconOf(g, order) == SelectSeq(order, LAMBDA w : w \in WordsOf(g))

Init ==
  /\ method \in Methods
  /\ graph \in Graphs
  /\ \E o \in Orders : surface = LexiconOf(graph, o)
  /\ prefix = << >> /\ space = FALSE /\ partial = {} /\ wordsSimilarity = << >>
  /\ back = [s \in States(graph) |-> << >>]
  /\ best = None
  /\ pc = "idle" /\ answer = None /\ cur = Start

(* The next sentence.  (The prefix and its similarities stay where they    *)
(* are until getPrefix replaces them, which it does before it uses them.)  *)
createGraph(g) ==
  /\ pc = "idle"
  /\ graph' = g
  /\ \E o \in Orders : surface' = LexiconOf(g, o)
  /\ prefix' = << >> /\ space' = FALSE /\ partial' = {} /\ wordsSimilarity' = << >>
  /\ back' = [s \in States(g) |-> << >>]
  /\ best' = None /\ answer' = None
  /\ UNCHANGED << method, pc, cur >>

(* r continues what was typed before. *)
Extends(r) ==
  LET n == Len(prefix)
  IN  n > 0 =>
        /\ Len(r.tokens) >= n
        /\ \A i \in 1 .. n - 1 : r.tokens[i] = prefix[i]
        /\ \/ r.tokens[n] = prefix[n]
           \/ ~space /\ << prefix[n], r.tokens[n] >> \in PartOf

(* Similarities with all words of the lexicon, in alphabetical order: the  *)
(* order in which a map is gone through.                                   *)
Similarities(token, lexicon) ==
  LET sorted == SelectSeq(Alphabet, LAMBDA w : w \in ToSet(lexicon))
  IN  [k \in DOMAIN sorted |-> Similarity[token, sorted[k]]]

getPrefix(r) ==
  /\ pc = "idle"
  /\ Len(back[0]) <= MaxFailures
  /\ Extends(r)
  /\ prefix' = r.tokens
  /\ space' = r.space
  /\ surface' = AddToLexicon(surface, r.tokens)
  /\ partial' = IF r.space
                  THEN partial
                  ELSE { w \in ToSet(surface') : << r.tokens[Len(r.tokens)], w >> \in PartOf }
  /\ wordsSimilarity' =
       IF method = "StopWords" THEN wordsSimilarity
       ELSE [p \in DOMAIN r.tokens |-> Similarities(r.tokens[p], surface')]
  /\ back' = [back EXCEPT ![0] = Append(@, InitialBack)]
  /\ pc' = "search" /\ answer' = None /\ cur' = Start
  /\ UNCHANGED << method, graph, best >>

-------------------------------------------------------------------------
(* Prices.  A word that has no token, or a token that has no word: *)
Extra(w) == IF method # "WordVector" /\ w \in StopWords THEN StopWordsError ELSE Unit

(* What is looked up under the number of the word. *)
SimilarityAt(p, w) == wordsSimilarity[p][CHOOSE k \in DOMAIN surface : surface[k] = w]

(* Word w in the place of token number p, which it is not.  The last token *)
(* may yet become any word, so nothing is similar to it.                   *)
Replaced(p, w) ==
  LET stop == prefix[p] \in StopWords /\ w \in StopWords
  IN  IF p = Len(prefix) /\ ~space
        THEN Unit
        ELSE CASE method = "StopWords" -> IF stop THEN StopWordsError ELSE Unit
               [] method = "WordVector" ->
                    LET sim == SimilarityAt(p, w)
                    IN  IF 10 * sim < 4 * Unit THEN Unit
                        ELSE IF 10 * sim > 8 * Unit THEN 0
                        ELSE Unit - sim
               [] method = "both" ->
                    LET sim == SimilarityAt(p, w)
                    IN  IF 10 * sim >= 5 * Unit THEN Unit - sim
                        ELSE IF stop THEN StopWordsError
                        ELSE Unit

Placed(p, w) ==
  IF prefix[p] = w \/ (p = Len(prefix) /\ w \in partial) THEN 0 ELSE Replaced(p, w)

(* The cost table of string_edit_distance. *)
CostTable(done, out) ==
  LET cost[i \in 0 .. Len(prefix) - done, j \in 0 .. Len(out)] ==
        IF i = 0 /\ j = 0
          THEN 0
          ELSE Min((IF i > 0 THEN { cost[i - 1, j] + Extra(prefix[done + i]) } ELSE {})
                   \cup (IF j > 0 THEN { cost[i, j - 1] + Extra(out[j]) } ELSE {})
                   \cup (IF i > 0 /\ j > 0
                           THEN { cost[i - 1, j - 1] + Placed(done + i, out[j]) } ELSE {}))
  IN  cost

string_edit_distance(done, out) ==
  LET cost == CostTable(done, out)
      ends == SelectSeq([j \in 1 .. Len(out) |-> j],
                        LAMBDA j : space \/ out[j] \in partial)
  IN  [x \in 1 .. Len(ends) |->
         [error |-> cost[Len(prefix) - done, ends[x]], pm |-> Len(prefix), tm |-> ends[x]]]
      \o [i \in 1 .. Len(prefix) - done - 1 |->
            [error |-> cost[i, Len(out)], pm |-> done + i, tm |-> Len(out)]]

-------------------------------------------------------------------------
(* The loop variables of prefix_matching_search. *)
AtState == pc = "search" /\ cur.st < graph.n
AtBack  == AtState /\ cur.bi <= Len(back[cur.st])
Back    == back[cur.st][cur.bi]
Trans   == graph.trans[cur.st][cur.ti]

Value(score, error) == Unit * score - ErrorWeight * error

(* Mutant of Continued: the errors are left out. *)
ContinuedByScore ==
  best # None /\ cur.ti = 1 =>
    graph.fscore[cur.st] + Back.score >= best.score

(* A path is given up if it cannot become worth as much as best_Score, the *)
(* worth of the best completion so far.                                    *)
Continued ==
  best # None /\ cur.ti = 1 =>
    Value(graph.fscore[cur.st] + Back.score, Back.error) >= Value(best.score, best.error)

Better(old, new) ==
  \/ Value(old.score, old.error) < Value(new.score, new.error)
  \/ /\ Value(old.score, old.error) = Value(new.score, new.error)
     /\ old.bmatched < new.matched

(* Record a path: it competes with the path to the same state with as many *)
(* tokens matched.                                                         *)
Record(seq, new) ==
  LET same == { i \in DOMAIN seq : seq[i].matched = new.matched }
  IN  IF same = {}
        THEN Append(seq, new)
        ELSE LET i == Min(same)
             IN  IF Better(seq[i], new) THEN [seq EXCEPT ![i] = new] ELSE seq

Continue(x) ==
  [score |-> Back.score + Trans.score, error |-> Back.error + x.error,
   matched |-> x.pm, bstate |-> cur.st, bmatched |-> Back.matched, tr |-> cur.ti]

Completion(x) ==
  [found |-> TRUE, score |-> Back.score + Trans.score + graph.fscore[Trans.to],
   error |-> Back.error + x.error, from |-> cur.st, tr |-> cur.ti, tm |-> x.tm,
   bmatched |-> Back.matched]

(* process_match: a new path, or a completion, kept when it is the first   *)
(* or worth more.  (All have the same prefix_matched.)                     *)
Recorded(seq, x) == IF x.pm < Len(prefix) THEN Record(seq, Continue(x)) ELSE seq

Completed(b, x) ==
  IF /\ x.pm = Len(prefix)
     /\ \/ b = None
        \/ Value(b.score, b.error) < Value(Completion(x).score, Completion(x).error)
    THEN Completion(x) ELSE b

process_matches ==
  /\ AtBack /\ Continued /\ cur.ti <= Len(graph.trans[cur.st])
  /\ \E matches \in {string_edit_distance(Back.matched, Trans.output)} :
         /\ back' = [back EXCEPT ![Trans.to] = FoldLeft(Recorded, @, matches)]
         /\ best' = FoldLeft(Completed, best, matches)
  /\ cur' = [cur EXCEPT !.ti = @ + 1]
  /\ UNCHANGED << requestVars, pc, answer >>

NextBack ==
  /\ AtBack
  /\ ~Continued \/ cur.ti > Len(graph.trans[cur.st])
  /\ cur' = [cur EXCEPT !.bi = @ + 1, !.ti = 1]
  /\ UNCHANGED << requestVars, back, best, pc, answer >>

NextState ==
  /\ AtState /\ cur.bi > Len(back[cur.st])
  /\ cur' = [cur EXCEPT !.st = @ + 1, !.bi = 1]
  /\ UNCHANGED << requestVars, back, best, pc, answer >>

EndOfSearch == pc = "search" /\ cur.st = graph.n

Suggestion(b) ==
  LET t    == graph.trans[b.from][b.tr]
      last == t.output[b.tm]
  IN  [found |-> TRUE, score |-> b.score, error |-> b.error,
       completes |-> IF ~space /\ last \in partial THEN {last} ELSE {},
       words |-> SubSeq(t.output, b.tm + 1, Len(t.output)) \o ForwardWords(graph)[t.to]]

(* getPrefix after the search has found a completion. *)
Answer ==
  /\ EndOfSearch
  /\ best # None
  /\ answer' = Suggestion(best)
  /\ back' = [s \in States(graph) |-> << >>]
  /\ best' = None
  /\ pc' = "idle" /\ cur' = Start
  /\ UNCHANGED requestVars

(* There is none: getPrefix returns before it comes to clearing the search. *)
Fail ==
  /\ EndOfSearch
  /\ best = None
  /\ pc' = "idle" /\ cur' = Start
  /\ UNCHANGED << requestVars, back, best, answer >>

Step == process_matches \/ NextBack \/ NextState \/ Answer \/ Fail

Next == \/ \E g \in Graphs : createGraph(g)
        \/ \E r \in Requests : getPrefix(r)
        \/ Step

Spec == Init /\ [][Next]_vars

-------------------------------------------------------------------------
(* Every variable keeps to its type, and what is recorded belongs to the   *)
(* graph at hand and can be followed back, although the object has served  *)
(* other sentences before and requests may have failed.                    *)
LinkOK(from, tr, bmatched) ==
  /\ from \in States(graph) /\ tr \in DOMAIN graph.trans[from]
  /\ \E i \in DOMAIN back[from] : back[from][i].matched = bmatched

TypeOK ==
  /\ method \in Methods /\ graph \in Graphs
  /\ prefix \in Seq(Words) /\ space \in BOOLEAN /\ partial \subseteq Words
  /\ surface \in Seq(Words) /\ WordsOf(graph) \cup ToSet(prefix) \subseteq ToSet(surface)
  /\ Cardinality(ToSet(surface)) = Len(surface)
  /\ DOMAIN back = States(graph)
  /\ \A s \in States(graph) : \A i \in DOMAIN back[s] :
       LET b == back[s][i]
       IN  /\ b.error \in Nat /\ b.matched \in 0 .. Len(prefix)
           /\ IF s = 0 THEN b = InitialBack
                       ELSE /\ LinkOK(b.bstate, b.tr, b.bmatched)
                            /\ graph.trans[b.bstate][b.tr].to = s
  /\ best # None => best.error \in Nat /\ LinkOK(best.from, best.tr, best.bmatched)
  /\ pc \in {"idle", "search"}
  /\ cur \in [st : 0 .. graph.n, bi : Nat \ {0}, ti : Nat \ {0}]

(* The least price of laying words against the tokens from - 1 < p <= to,  *)
(* in order, with no table: some words have a token, and their tokens      *)
(* ascend.                                                                 *)
Price(from, to, words) ==
  LET total(a) ==
        MapThenSumSet(LAMBDA i : IF a[i] = 0 THEN Extra(words[i]) ELSE Placed(a[i], words[i]),
                      DOMAIN words)
          + MapThenSumSet(LAMBDA p : Extra(prefix[p]),
                          (from .. to) \ { a[i] : i \in DOMAIN words })
      ascending(a) == \A i, j \in DOMAIN words :
                        i < j /\ a[i] # 0 /\ a[j] # 0 => a[i] < a[j]
  IN  Min({ total(a) : a \in { f \in [DOMAIN words -> {0} \cup (from .. to)] : ascending(f) } })

(* All ways to lay the graph against the tokens after the first done: each *)
(* phrase but the last one matches at least one token and leaves one.      *)
Ways ==
  LET n == Len(prefix)
      ways[s \in States(graph), done \in 0 .. n - 1] ==
        UNION { LET t == graph.trans[s][k]
                IN  { [score |-> t.score + graph.fscore[t.to],
                       error |-> Price(done + 1, n, SubSeq(t.output, 1, tm)),
                       last |-> t.output[tm],
                       words |-> SubSeq(t.output, tm + 1, Len(t.output))
                                   \o ForwardWords(graph)[t.to]]
                      : tm \in { x \in DOMAIN t.output : space \/ t.output[x] \in partial } }
                    \cup UNION { { [w EXCEPT !.score = @ + t.score,
                                             !.error = @ + Price(done + 1, to, t.output)]
                                   : w \in ways[t.to, to] }
                                 : to \in done + 1 .. n - 1 }
                : k \in DOMAIN graph.trans[s] }
  IN  ways[0, 0]

(* Every request is answered whenever there is a completion, and then with *)
(* one that is worth most, whatever was given up on the way, whatever      *)
(* other sentences the object was used for before.                         *)
Reply ==
  \E ways \in {Ways} :
    IF ways = {}
      THEN answer' = None
      ELSE \E w \in ways :
             /\ answer' = [found |-> TRUE, score |-> w.score, error |-> w.error,
                           completes |-> IF ~space /\ w.last \in partial
                                           THEN {w.last} ELSE {},
                           words |-> w.words]
             /\ \A v \in ways : Value(v.score, v.error) <= Value(w.score, w.error)

(* Except: a path left by a failed request keeps its price.  If a word of  *)
(* the longer prefix is new to the lexicon, it shifts the similarities,    *)
(* and the old price may win over the right one.                           *)
PricesStand == Len(back[0]) = 1 \/ method = "StopWords"

KeepsPromise == [][pc = "search" /\ pc' = "idle" /\ PricesStand => Reply]_vars

(* wordsSimilarity[p][w] is the similarity of token number p with word w.  *)
(* This does not hold unless the words came up in alphabetical order.      *)
SimilaritiesRight ==
  pc = "search" /\ method # "StopWords" =>
    \A p \in DOMAIN prefix : \A w \in ToSet(surface) :
      SimilarityAt(p, w) = Similarity[prefix[p], w]
=========================================================================
