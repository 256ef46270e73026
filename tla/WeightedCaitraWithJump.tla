--------------------- MODULE WeightedCaitraWithJump ---------------------
(***************************************************************************)
(* The prefix search the server is deployed with (RunServer.sh, Method):   *)
(* class WeightedCaitraWithJump.  Given the user's prefix it looks for the *)
(* complete translation in the decoder's search graph that is worth most,  *)
(* a translation being worth its score plus ErrorWeight for every word in  *)
(* which it disagrees with the prefix, and answers with the words that     *)
(* continue the prefix.  A path may leave out (jump over) one run of       *)
(* phrases, for one error; their words are offered after the prefix.       *)
(*                                                                         *)
(* One object lives as long as the sentence; its members back and best     *)
(* survive from one request to the next unless getPrefix clears them.      *)
(* The loops of prefix_matching_search run one body per step.              *)
(***************************************************************************)
EXTENDS DecoderGraph, FiniteSets, FiniteSetsExt

CONSTANTS
  Requests,     \* what a user may have typed: records [tokens, space]
  ErrorWeight,  \* errorWeigth, negative: an error costs
  JumpLens,     \* what --jumpLen may be
  Growing,      \* TRUE: the user only ever extends the prefix (CAT-Client)
  MaxFailures,  \* bound: failed requests in a row
  MinScore,     \* less than anything a path can be worth (-1000000)
  EditMatches(_, _, _, _, _)   \* string_edit_distance

(* What string_edit_distance returns: ways to use a phrase, each with a    *)
(* number of errors; a phrase matches at least one further token.          *)
MatchType(p, done, out) ==
  [error : Nat, pm : done + 1 .. Len(p), tm : 0 .. Len(out)]

(* User's prefixes have at least one token (an empty one makes getPrefix   *)
(* index prefix[-1]; the client never sends one).                          *)
ASSUME RequestsAssumption ==
  \A r \in Requests : r.tokens \in Seq(Words) \ {<< >>} /\ r.space \in BOOLEAN

ASSUME NumbersAssumption ==
  /\ ErrorWeight \in Int /\ ErrorWeight <= 0 /\ JumpLens \subseteq Int /\ MaxFailures \in Nat
  /\ MinScore \in Int /\ Growing \in BOOLEAN

ASSUME MatchesAssumption ==
  \A g \in Graphs, r \in Requests, part \in SUBSET Words :
    \A s \in States(g) : \A k \in DOMAIN g.trans[s] :
      \A done \in 0 .. Len(r.tokens) - 1 :
        EditMatches(r.tokens, done, g.trans[s][k].output, part, r.space)
          \in Seq(MatchType(r.tokens, done, g.trans[s][k].output))

(* Of a match that consumes fewer than n tokens: how many it has consumed, *)
(* and the errors.                                                         *)
WholeMatches(p, done, out, part, sp, n) ==
  LET matches == EditMatches(p, done, out, part, sp)
  IN  { [pm |-> matches[y].pm, error |-> matches[y].error] :
          y \in { z \in DOMAIN matches : matches[z].pm < n } }

(* Prefix q goes on where p, with the possible exception of its last token, *)
(* has stopped.                                                            *)
GoesOn(p, q) == Len(p) <= Len(q) /\ \A i \in 1 .. Len(p) - 1 : q[i] = p[i]

(* Only the last token of a prefix may be a mere beginning of a word: what  *)
(* there is to match before it depends neither on it nor on what follows.  *)
ASSUME WholeMatchesAssumption ==
  \A g \in Graphs, q, r \in Requests : GoesOn(q.tokens, r.tokens) =>
    \A s \in States(g) : \A k \in DOMAIN g.trans[s] : \A done \in 0 .. Len(q.tokens) - 1 :
      LET n     == Len(q.tokens)
          out   == g.trans[s][k].output
          whole == WholeMatches(q.tokens, done, out, {}, q.space, n)
      IN  \A part \in SUBSET Words :
            WholeMatches(r.tokens, done, out, part, r.space, n) = whole

(* Two matches that leave something of the prefix do not leave the same.    *)
ASSUME MatchesDifferAssumption ==
  \A g \in Graphs, r \in Requests, part \in SUBSET Words :
    \A s \in States(g) : \A k \in DOMAIN g.trans[s] :
      \A done \in 0 .. Len(r.tokens) - 1 :
        LET matches == EditMatches(r.tokens, done, g.trans[s][k].output, part, r.space)
        IN  \A y, z \in DOMAIN matches :
              matches[y].pm = matches[z].pm /\ matches[y].pm < Len(r.tokens) => y = z

VARIABLES
  jumpLenThreshold,   \* how many phrases in a row may be jumped over
  graph,      \* states, lexicon: set by createGraph
  prefix,     \* prefix, as of the last request
  space,      \* prefix_has_final_space
  partial,    \* partially_matches_last_token
  back,       \* states[s].back for every state s
  best,       \* best[error], defined for the errors with a completion
  bestScore,  \* best_Score
  pc,         \* "idle" or "search"
  cur,        \* loop positions: state, back, transition, match (0: the jump)
  answer      \* what the last getPrefix returned

vars == << jumpLenThreshold, graph, prefix, space, partial, back, best, bestScore,
           pc, cur, answer >>
searchVars == << jumpLenThreshold, graph, prefix, space, partial, pc, answer >>

None == [found |-> FALSE]
Start == [st |-> 0, bi |-> 1, ti |-> 1, mi |-> 0]

Worth(score, error) == score + ErrorWeight * error

-------------------------------------------------------------------------
(* The BackTransition that the search starts from. *)
InitialBack ==
  [score |-> 0, error |-> 0, matched |-> 0, bstate |-> -1, bmatched |-> 0,
   tr |-> 0, jump |-> 0, bjump |-> 0, njumps |-> 0]

(* The first new_sentence has been served. *)
Init ==
  /\ jumpLenThreshold \in JumpLens
  /\ graph \in Graphs
  /\ prefix = << >> /\ space = FALSE /\ partial = {}
  /\ back = [s \in States(graph) |-> << >>]
  /\ best = << >>
  /\ bestScore = MinScore
  /\ pc = "idle"
  /\ cur = Start
  /\ answer = None

(* new_sentence: the old object is deleted, a new one gets a new graph. *)
createGraph(g) ==
  /\ pc = "idle"
  /\ graph' = g
  /\ prefix' = << >> /\ space' = FALSE /\ partial' = {}
  /\ back' = [s \in States(g) |-> << >>]
  /\ best' = << >>
  /\ answer' = None
  /\ UNCHANGED << jumpLenThreshold, bestScore, pc, cur >>

(* r continues what was typed before: all completed tokens stay, the last  *)
(* one stays or becomes a longer word.                                     *)
Extends(r) ==
  LET n == Len(prefix)
  IN  n > 0 =>
        /\ Len(r.tokens) >= n
        /\ \A i \in 1 .. n - 1 : r.tokens[i] = prefix[i]
        /\ \/ r.tokens[n] = prefix[n]
           \/ ~space /\ << prefix[n], r.tokens[n] >> \in PartOf

(* getPrefix up to the search loop, with the first lines of                *)
(* prefix_matching_search.  The set of words the last token may be the     *)
(* beginning of is recomputed only when no space follows that token.       *)
(* A user who does not only extend may type a prefix of any of Requests    *)
(* that has at least as many tokens (with fewer the search would index     *)
(* its cost table out of bounds when the last one failed).                 *)
getPrefix(r) ==
  /\ pc = "idle"
  /\ Len(back[0]) <= MaxFailures
  /\ IF Growing THEN Extends(r) ELSE Len(r.tokens) >= Len(prefix)
  /\ prefix' = r.tokens
  /\ space' = r.space
  /\ partial' = IF r.space
                  THEN partial
                  ELSE { w \in Words : << r.tokens[Len(r.tokens)], w >> \in PartOf }
  /\ back' = [back EXCEPT ![0] = Append(@, InitialBack)]
  /\ bestScore' = MinScore
  /\ cur' = Start
  /\ pc' = "search"
  /\ answer' = None
  /\ UNCHANGED << jumpLenThreshold, graph, best >>

-------------------------------------------------------------------------
(* The loop variables of prefix_matching_search. *)
AtState == pc = "search" /\ cur.st < graph.n
AtBack  == AtState /\ cur.bi <= Len(back[cur.st])
Back    == back[cur.st][cur.bi]
AtTransition == AtBack /\ cur.ti <= Len(graph.trans[cur.st])
Trans   == graph.trans[cur.st][cur.ti]
Matches == EditMatches(prefix, Back.matched, Trans.output, partial, space)

(* A back transition is hopeless when even the best way to the end cannot  *)
(* make it worth as much as the best completion so far.  Tested once, when *)
(* the loop comes to it.                                                   *)
Hopeless ==
  graph.fscore[cur.st] + Worth(Back.score, Back.error) < bestScore

StartOfBack == cur.ti = 1 /\ cur.mi = 0

(* Mutant of Better: errors do not count. *)
BetterScore(old, score, error, matched) ==
  \/ old.score < score
  \/ old.score = score /\ old.bmatched < matched

(* Is the path (score, error, matched) to replace the one recorded in old? *)
Better(old, score, error, matched) ==
  \/ Worth(old.score, old.error) < Worth(score, error)
  \/ Worth(old.score, old.error) = Worth(score, error) /\ old.bmatched < matched

(* Mutants of Record: every path is kept; a path is replaced, but for its  *)
(* score.                                                                  *)
RecordAll(seq, new) == Append(seq, new)

RecordOldScore(seq, new) ==
  LET same == { i \in DOMAIN seq : seq[i].matched = new.matched
                                   /\ seq[i].jump = new.jump }
  IN  IF same = {}
        THEN Append(seq, new)
        ELSE LET i == CHOOSE x \in same : \A y \in same : x <= y
             IN  IF Better(seq[i], new.score, new.error, new.matched)
                   THEN [seq EXCEPT ![i] = [new EXCEPT !.score = seq[i].score]]
                   ELSE seq

(* Record a path to a state: it competes with the path to the same state   *)
(* with the same number of matched tokens and the same jump state, if any. *)
Record(seq, new) ==
  LET same == { i \in DOMAIN seq : seq[i].matched = new.matched
                                   /\ seq[i].jump = new.jump }
  IN  IF same = {}
        THEN Append(seq, new)
        ELSE LET i == CHOOSE x \in same : \A y \in same : x <= y
             IN  IF Better(seq[i], new.score, new.error, new.matched)
                   THEN [seq EXCEPT ![i] = new]
                   ELSE seq

(* Mutants of Continue: the jump state of the new path is taken for that   *)
(* of the path it continues; an error is taken off.                        *)
ContinueOwnJump(error, matched, jump) ==
  [score |-> Back.score + Trans.score, error |-> Back.error + error,
   matched |-> matched, bstate |-> cur.st, bmatched |-> Back.matched,
   tr |-> cur.ti, jump |-> jump, bjump |-> jump,
   njumps |-> Back.njumps + 1]

ContinueLess(error, matched, jump) ==
  [score |-> Back.score + Trans.score, error |-> Back.error - error,
   matched |-> matched, bstate |-> cur.st, bmatched |-> Back.matched,
   tr |-> cur.ti, jump |-> jump, bjump |-> Back.jump,
   njumps |-> Back.njumps + 1]

(* The path that continues Back over Trans. *)
Continue(error, matched, jump) ==
  [score |-> Back.score + Trans.score, error |-> Back.error + error,
   matched |-> matched, bstate |-> cur.st, bmatched |-> Back.matched,
   tr |-> cur.ti, jump |-> jump, bjump |-> Back.jump,
   njumps |-> Back.njumps + 1]

(* Mutant of JumpAllowed: one phrase too many. *)
JumpAllowedMore ==
  \/ Back.jump = 0
  \/ Back.jump = 1 /\ Back.njumps <= jumpLenThreshold

(* May this transition be jumped over? *)
JumpAllowed ==
  \/ Back.jump = 0
  \/ Back.jump = 1 /\ Back.njumps < jumpLenThreshold

(* Mutant of process_jump: the path is recorded at the state it comes from. *)
process_jump_here ==
  /\ AtTransition /\ cur.mi = 0
  /\ ~(StartOfBack /\ Hopeless)
  /\ back' = IF JumpAllowed
               THEN [back EXCEPT ![cur.st] =
                       Record(@, Continue(IF Back.jump = 0 THEN 1 ELSE 0,
                                          Back.matched, 1))]
               ELSE back
  /\ cur' = [cur EXCEPT !.mi = 1]
  /\ UNCHANGED << searchVars, best, bestScore >>

(* process_jump: leave the transition out.  The first one costs an error.  *)
process_jump ==
  /\ AtTransition /\ cur.mi = 0
  /\ ~(StartOfBack /\ Hopeless)
  /\ back' = IF JumpAllowed
               THEN [back EXCEPT ![Trans.to] =
                       Record(@, Continue(IF Back.jump = 0 THEN 1 ELSE 0,
                                          Back.matched, 1))]
               ELSE back
  /\ cur' = [cur EXCEPT !.mi = 1]
  /\ UNCHANGED << searchVars, best, bestScore >>

(* process_match, the prefix not being consumed: a new path to a state. *)
MatchOn(m) ==
  /\ m.pm < Len(prefix)
  /\ back' = [back EXCEPT ![Trans.to] =
                Record(@, Continue(m.error, m.pm, IF Back.jump = 0 THEN 0 ELSE 2))]
  /\ UNCHANGED << best, bestScore >>

(* process_match, the prefix being consumed: a completion, kept when it is *)
(* the first or the best one with this number of errors.                   *)
Complete(m) ==
  LET error == Back.error + m.error
      new   == [score |-> Back.score + Trans.score + graph.fscore[Trans.to],
                from |-> cur.st, tr |-> cur.ti, tm |-> m.tm,
                bmatched |-> Back.matched, bjump |-> Back.jump]
  IN  /\ m.pm = Len(prefix)
      /\ IF error \notin DOMAIN best \/ new.score > best[error].score
           THEN /\ best' = [e \in DOMAIN best \cup {error} |->
                              IF e = error THEN new ELSE best[e]]
                /\ bestScore' = Max({bestScore, Worth(new.score, error)})
           ELSE UNCHANGED << best, bestScore >>
      /\ UNCHANGED back

process_match ==
  /\ AtTransition /\ cur.mi > 0
  /\ \E matches \in {Matches} :
       /\ cur.mi <= Len(matches)
       /\ MatchOn(matches[cur.mi]) \/ Complete(matches[cur.mi])
  /\ cur' = [cur EXCEPT !.mi = @ + 1]
  /\ UNCHANGED searchVars

(* Mutant of NextTransition: the same transition again. *)
SameTransition ==
  /\ AtTransition /\ cur.mi > Len(Matches)
  /\ cur' = [cur EXCEPT !.mi = 0]
  /\ UNCHANGED << searchVars, back, best, bestScore >>

NextTransition ==
  /\ AtTransition /\ cur.mi > Len(Matches)
  /\ cur' = [cur EXCEPT !.ti = @ + 1, !.mi = 0]
  /\ UNCHANGED << searchVars, back, best, bestScore >>

(* The next back transition: this one is hopeless or done. *)
NextBack ==
  /\ AtBack
  /\ (StartOfBack /\ Hopeless) \/ cur.ti > Len(graph.trans[cur.st])
  /\ cur' = [cur EXCEPT !.bi = @ + 1, !.ti = 1, !.mi = 0]
  /\ UNCHANGED << searchVars, back, best, bestScore >>

NextState ==
  /\ AtState /\ cur.bi > Len(back[cur.st])
  /\ cur' = [cur EXCEPT !.st = @ + 1, !.bi = 1]
  /\ UNCHANGED << searchVars, back, best, bestScore >>

-------------------------------------------------------------------------
(* The number of errors to settle for: the least of those whose completion *)
(* is worth most.                                                          *)
BestErrors ==
  { e \in DOMAIN best :
      \A f \in DOMAIN best : Worth(best[f].score, f) <= Worth(best[e].score, e) }
BestError == CHOOSE e \in BestErrors : \A f \in BestErrors : e <= f

(* Following back transitions: the first one at state s for this number of *)
(* matched tokens and this jump state.                                     *)
Linked(s, matched, jump) ==
  { i \in DOMAIN back[s] : back[s][i].matched = matched /\ back[s][i].jump = jump }
Lookup(s, matched, jump) ==
  back[s][CHOOSE i \in Linked(s, matched, jump) :
            \A k \in Linked(s, matched, jump) : i <= k]

(* The situations with a path: a state, a number of matched tokens and a   *)
(* jump state; and the situation that the path to one comes from.          *)
Situations ==
  { c \in States(graph) \X (0 .. Len(prefix) - 1) \X (0 .. 2) :
      Linked(c[1], c[2], c[3]) # {} }
Before(b) == << b.bstate, b.bmatched, b.bjump >>

(* The words of the jumped phrases along the path to (s, matched, jump), in *)
(* the order of the path.                                                  *)
JumpedWords ==
  LET words[c \in Situations] ==
        IF c[1] = 0
          THEN << >>
          ELSE LET b == Lookup(c[1], c[2], c[3])
               IN  words[Before(b)]
                     \o (IF c[3] = 1 THEN graph.trans[b.bstate][b.tr].output
                                     ELSE << >>)
  IN  words

(* The suggestion for completion b: the completed last token if the last   *)
(* matched word only begins with it, then the words that follow on the     *)
(* best way forward and the words jumped over, in the order the language   *)
(* model prefers.                                                          *)
Suggestions(b, error) ==
  LET t      == graph.trans[b.from][b.tr]
      suffix == SubSeq(t.output, b.tm + 1, Len(t.output)) \o ForwardWords(graph)[t.to]
      jumped == JumpedWords[<< b.from, b.bmatched, b.bjump >>]
      last   == t.output[b.tm]
  IN  { [found |-> TRUE, score |-> b.score, error |-> error,
         completes |-> IF ~space /\ last \in partial THEN {last} ELSE {},
         words |-> w] : w \in { suffix \o jumped, jumped \o suffix } }

(* getPrefix after the search.  Without a completion it returns the empty  *)
(* string at once; otherwise it clears the search.                         *)
Fail ==
  /\ pc = "search" /\ cur.st = graph.n
  /\ best = << >>
  /\ pc' = "idle"
  /\ cur' = Start
  /\ UNCHANGED << jumpLenThreshold, graph, prefix, space, partial, back, best,
                  bestScore, answer >>

Answer ==
  /\ pc = "search" /\ cur.st = graph.n
  /\ best # << >>
  /\ answer' \in Suggestions(best[BestError], BestError)
  /\ back' = [s \in States(graph) |-> << >>]
  /\ best' = << >>
  /\ pc' = "idle"
  /\ cur' = Start
  /\ UNCHANGED << jumpLenThreshold, graph, prefix, space, partial, bestScore >>

Step == \/ process_jump \/ process_match
        \/ NextTransition \/ NextBack \/ NextState
        \/ Fail \/ Answer

Next == \/ \E g \in Graphs : createGraph(g)
        \/ \E r \in Requests : getPrefix(r)
        \/ Step

Spec == Init /\ [][Next]_vars
FairSpec == Spec /\ WF_vars(Step)

-------------------------------------------------------------------------
(* Every variable keeps to its type; in particular every position that a   *)
(* later step indexes with is inside what it indexes.                      *)
BackType(g) ==
  [score : Int, error : Nat, matched : Nat, bstate : -1 .. g.n - 1,
   bmatched : Nat, tr : Nat, jump : 0 .. 2, bjump : 0 .. 2, njumps : Nat]

BestType(g) ==
  [score : Int, from : States(g), tr : Nat \ {0}, tm : Nat, bmatched : Nat,
   bjump : 0 .. 2]

TypeOK ==
  /\ jumpLenThreshold \in JumpLens
  /\ graph \in Graphs
  /\ prefix \in Seq(Words)
  /\ pc = "search" => \E r \in Requests : r.tokens = prefix /\ r.space = space
  /\ space \in BOOLEAN
  /\ partial \subseteq Words
  /\ back \in [States(graph) -> Seq(BackType(graph))]
  /\ DOMAIN best \subseteq Nat /\ best \in [DOMAIN best -> BestType(graph)]
  /\ bestScore \in Int
  /\ pc \in {"idle", "search"}
  /\ cur \in [st : 0 .. graph.n, bi : Nat \ {0}, ti : Nat \ {0}, mi : Nat]

(* Following the back transitions from any recorded path leads, in at most *)
(* as many steps as there are states, to state 0: the path says from which *)
(* earlier state, by which transition and in which situation it came, and  *)
(* that situation is recorded there.  Without it the loop of getPrefix     *)
(* that looks for the predecessor runs off the end of the vector.          *)
LinkOK(from, tr, bmatched, bjump, matched) ==
  /\ from \in States(graph)
  /\ tr \in DOMAIN graph.trans[from]
  /\ Linked(from, bmatched, bjump) # {}
  /\ bmatched <= matched

BackLinked ==
  /\ \A s \in States(graph) : \A i \in DOMAIN back[s] :
       LET b == back[s][i]
       IN  IF s = 0
             THEN b = InitialBack
             ELSE /\ LinkOK(b.bstate, b.tr, b.bmatched, b.bjump, b.matched)
                  /\ graph.trans[b.bstate][b.tr].to = s
  /\ \A e \in DOMAIN best :
       LinkOK(best[e].from, best[e].tr, best[e].bmatched, best[e].bjump, Len(prefix))

(* In a search that starts on a cleared graph a recorded path always has   *)
(* the score of the one it was made from plus that of the transition, and  *)
(* no fewer errors: replacing a path never leaves paths behind that were   *)
(* made from the one it replaced.  (After a failed search has left its     *)
(* paths the numbers may disagree until the loop has come past them.)      *)
ScoreLinked ==
  Len(back[0]) = 1 => \A s \in States(graph) \ {0} : \A i \in DOMAIN back[s] :
    LET b == back[s][i]
        p == Lookup(b.bstate, b.bmatched, b.bjump)
    IN  /\ b.score = p.score + graph.trans[b.bstate][b.tr].score
        /\ b.error >= p.error

(* No two paths to the same state compete unnoticed: of those with the     *)
(* same number of matched tokens and the same jump state one is kept.      *)
NoRivals ==
  \A s \in States(graph) \ {0} : \A i, k \in DOMAIN back[s] :
    back[s][i].matched = back[s][k].matched /\ back[s][i].jump = back[s][k].jump
      => i = k

(* Whatever was asked before, a request is answered with a completion that *)
(* is worth most, and with none only if there is none: neither pruning nor *)
(* keeping one path per situation nor what a failed search left behind     *)
(* loses it.  (When all phrases on the way may be jumped over, and the     *)
(* user only extends what was typed.)                                      *)
Promise == INSTANCE BestCompletion WITH MayJump <- TRUE
(* No completion is worth as little as the value the search starts with. *)
ASSUME MinScoreAssumption ==
  \A g \in Graphs, r \in Requests, part \in SUBSET Words :
    \A w \in Promise!Ways(g, r.tokens, r.space, part) : Promise!Worth(w) > MinScore

KeepsPromise ==
  Promise!Init /\ [][jumpLenThreshold >= graph.n => Promise!Next]_(Promise!vars)

(* The number of phrases jumped over on the way to each situation. *)
Jumps ==
  LET jumps[c \in Situations] ==
        IF c[1] = 0
          THEN 0
          ELSE LET b == Lookup(c[1], c[2], c[3])
               IN  jumps[Before(b)] + (IF c[3] = 1 THEN 1 ELSE 0)
  IN  jumps

(* Once it has left a phrase out a path leaves out more only within the    *)
(* limit, so no path leaves out more phrases than the limit, or one.       *)
JumpsBounded ==
  \A s \in States(graph) : \A i \in DOMAIN back[s] :
    Jumps[<< s, back[s][i].matched, back[s][i].jump >>] <= Max({1, jumpLenThreshold})

(* WeightedCaitraWithJump.cpp:119-120: the last token may be matched        *)
(* partially unless a space follows it.  So after a space the answer is    *)
(* worth as much as the best one in which no word stands for a mere        *)
(* beginning of it.                                                        *)
SpaceCompletesToken ==
  pc = "idle" /\ space /\ answer.found =>
    \E w \in Promise!BestWays(Promise!Ways(graph, prefix, space, {})) :
      Worth(answer.score, answer.error) = Promise!Worth(w)

(* A state is settled when the loop reaches it: no later step of the same  *)
(* search changes a path to it.                                            *)
Settled ==
  [][pc = "search" /\ pc' = "search" =>
       \A s \in 0 .. cur.st : s < graph.n => back'[s] = back[s]]_vars
(* Every request is answered: the loops, whose lists grow while they run   *)
(* through them, come to an end.                                           *)
Answered == pc = "search" ~> pc = "idle"
=========================================================================
