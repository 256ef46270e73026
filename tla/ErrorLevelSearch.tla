------------------------ MODULE ErrorLevelSearch ------------------------
(***************************************************************************)
(* The older prefix searches: classes MainCaitra, ModifiedCaitra and       *)
(* CaitraWithJump.  They do not weigh errors against scores.  The search   *)
(* passes through the graph once for every number of errors, each time     *)
(* continuing just the paths with that number, and stops at the first      *)
(* number for which there is a completion.                                 *)
(*                                                                         *)
(* MainCaitra lays phrases against the prefix in a way of its own, and only *)
(* CaitraWithJump may leave phrases out.                                   *)
(*                                                                         *)
(* What is as in WeightedCaitraWithJump is written as it is there.         *)
(***************************************************************************)
EXTENDS DecoderGraph, FiniteSets, FiniteSetsExt

SED == INSTANCE StringEditDistance
Strict(p, done, out, part, sp)  == SED!string_edit_distance(p, done, out, part, sp)
Lenient(p, done, out, part, sp) == SED!lenient_edit_distance(p, done, out, part)

CONSTANTS
  Requests,     \* what a user may have typed: records [tokens, space]
  Methods,      \* the classes a server may have been started with
  MaxFailures   \* bound: failed requests in a row

RequestsAssumption ==
  \A r \in Requests : r.tokens \in Seq(Words) \ {<< >>} /\ r.space \in BOOLEAN

MethodsAssumption ==
  Methods \subseteq {"MainCaitra", "ModifiedCaitra", "CaitraWithJump"}

NumbersAssumption == MaxFailures \in Nat

VARIABLES
  method,     \* the class in use
  graph, prefix, space, partial, back, best, pc, answer,
  level,      \* errorAllowed
  cur         \* loop positions: state, back, transition, match (0: the jump)

vars == << method, graph, prefix, space, partial, back, best, pc, answer, level, cur >>
searchVars == << method, graph, prefix, space, partial, pc, answer, level >>

None == [found |-> FALSE]
Start == [st |-> 0, bi |-> 1, ti |-> 1, mi |-> 0]

InitialBack ==
  [score |-> 0, error |-> 0, matched |-> 0, bstate |-> -1, bmatched |-> 0,
   tr |-> 0, jump |-> 0, bjump |-> 0]

Init ==
  /\ method \in Methods
  /\ graph \in Graphs
  /\ prefix = << >> /\ space = FALSE /\ partial = {}
  /\ back = [s \in States(graph) |-> << >>]
  /\ best = << >>
  /\ pc = "idle"
  /\ answer = None
  /\ level = 0
  /\ cur = Start

createGraph(g) ==
  /\ pc = "idle"
  /\ graph' = g
  /\ prefix' = << >> /\ space' = FALSE /\ partial' = {}
  /\ back' = [s \in States(g) |-> << >>]
  /\ best' = << >>
  /\ answer' = None
  /\ UNCHANGED << method, pc, level, cur >>

(* r continues what was typed before. *)
Extends(r) ==
  LET n == Len(prefix)
  IN  n > 0 =>
        /\ Len(r.tokens) >= n
        /\ \A i \in 1 .. n - 1 : r.tokens[i] = prefix[i]
        /\ \/ r.tokens[n] = prefix[n]
           \/ ~space /\ << prefix[n], r.tokens[n] >> \in PartOf

getPrefix(r) ==
  /\ pc = "idle"
  /\ Len(back[0]) <= MaxFailures
  /\ Extends(r)
  /\ prefix' = r.tokens
  /\ space' = r.space
  /\ partial' = IF r.space
                  THEN partial
                  ELSE { w \in Words : << r.tokens[Len(r.tokens)], w >> \in PartOf }
  /\ back' = [back EXCEPT ![0] = Append(@, InitialBack)]
  /\ level' = 0
  /\ cur' = Start
  /\ pc' = "search"
  /\ answer' = None
  /\ UNCHANGED << method, graph, best >>

-------------------------------------------------------------------------
(* The loop variables of prefix_matching_search. *)
AtState == pc = "search" /\ level <= Len(prefix) /\ cur.st < graph.n
AtBack  == AtState /\ cur.bi <= Len(back[cur.st])
Back    == back[cur.st][cur.bi]

(* Only paths with the present number of errors are continued. *)
AtTransition ==
  /\ AtBack
  /\ Back.error = level
  /\ cur.ti <= Len(graph.trans[cur.st])

Trans   == graph.trans[cur.st][cur.ti]
Matches ==
  IF method = "MainCaitra"
    THEN Lenient(prefix, Back.matched, Trans.output, partial, space)
    ELSE Strict(prefix, Back.matched, Trans.output, partial, space)
Jumping == method = "CaitraWithJump"

(* Mutant of Better: the score alone counts. *)
BetterScore(old, error, score, matched) ==
  \/ old.score < score
  \/ old.score = score /\ old.bmatched < matched

(* Fewer errors are better, then a higher score. *)
Better(old, error, score, matched) ==
  \/ old.error > error
  \/ /\ old.error = error
     /\ old.score < score \/ (old.score = score /\ old.bmatched < matched)

(* Record a path to a state: it competes with the path to the same state   *)
(* with the same number of matched tokens and the same jump state, if any. *)
Record(seq, new) ==
  LET same == { i \in DOMAIN seq : seq[i].matched = new.matched
                                   /\ seq[i].jump = new.jump }
  IN  IF same = {}
        THEN Append(seq, new)
        ELSE LET i == Min(same)
             IN  IF Better(seq[i], new.error, new.score, new.matched)
                   THEN [seq EXCEPT ![i] = new]
                   ELSE seq

(* The path that continues Back over Trans. *)
Continue(error, matched, jump) ==
  [score |-> Back.score + Trans.score, error |-> Back.error + error,
   matched |-> matched, bstate |-> cur.st, bmatched |-> Back.matched,
   tr |-> cur.ti, jump |-> jump, bjump |-> Back.jump]

(* process_jump: leave the transition out.  The first one costs an error.  *)
process_jump ==
  /\ AtTransition /\ cur.mi = 0
  /\ back' = IF Jumping /\ Back.jump \in {0, 1}
               THEN [back EXCEPT ![Trans.to] =
                       Record(@, Continue(IF Back.jump = 0 THEN 1 ELSE 0,
                                          Back.matched, 1))]
               ELSE back
  /\ cur' = [cur EXCEPT !.mi = 1]
  /\ UNCHANGED << searchVars, best >>

(* process_match, the prefix not being consumed: a new path to a state. *)
MatchOn(m) ==
  /\ m.pm < Len(prefix)
  /\ back' = [back EXCEPT ![Trans.to] =
                Record(@, Continue(m.error, m.pm, IF Back.jump = 0 THEN 0 ELSE 2))]
  /\ UNCHANGED best

(* Mutant of Complete: the latest completion is kept. *)
CompleteLast(m) ==
  LET error == Back.error + m.error
  IN  /\ m.pm = Len(prefix)
      /\ best' = [e \in DOMAIN best \cup {error} |->
                    IF e # error THEN best[e]
                    ELSE [score |-> Back.score + Trans.score + graph.fscore[Trans.to],
                          from |-> cur.st, tr |-> cur.ti, tm |-> m.tm, pm |-> m.pm,
                          bmatched |-> Back.matched, bjump |-> Back.jump]]
      /\ UNCHANGED back

(* process_match, the prefix being consumed: a completion, kept when it is *)
(* the first or the best one with this number of errors.                   *)
Complete(m) ==
  LET error == Back.error + m.error
      new   == [score |-> Back.score + Trans.score + graph.fscore[Trans.to],
                from |-> cur.st, tr |-> cur.ti, tm |-> m.tm, pm |-> m.pm,
                bmatched |-> Back.matched, bjump |-> Back.jump]
      keep  == \/ error \notin DOMAIN best
               \/ new.score > best[error].score
               \/ new.score = best[error].score /\ m.pm > best[error].pm
  IN  /\ m.pm = Len(prefix)
      /\ best' = IF keep
                   THEN [e \in DOMAIN best \cup {error} |->
                           IF e = error THEN new ELSE best[e]]
                   ELSE best
      /\ UNCHANGED back

process_match ==
  /\ AtTransition /\ cur.mi > 0 /\ cur.mi <= Len(Matches)
  /\ MatchOn(Matches[cur.mi]) \/ Complete(Matches[cur.mi])
  /\ cur' = [cur EXCEPT !.mi = @ + 1]
  /\ UNCHANGED searchVars

NextTransition ==
  /\ AtTransition /\ cur.mi > Len(Matches)
  /\ cur' = [cur EXCEPT !.ti = @ + 1, !.mi = 0]
  /\ UNCHANGED << searchVars, back, best >>

(* The next back transition: this one has another number of errors or is   *)
(* done.                                                                   *)
NextBack ==
  /\ AtBack
  /\ Back.error # level \/ cur.ti > Len(graph.trans[cur.st])
  /\ cur' = [cur EXCEPT !.bi = @ + 1, !.ti = 1]
  /\ UNCHANGED << searchVars, back, best >>

NextState ==
  /\ AtState /\ cur.bi > Len(back[cur.st])
  /\ cur' = [cur EXCEPT !.st = @ + 1, !.bi = 1]
  /\ UNCHANGED << searchVars, back, best >>

EndOfPass == pc = "search" /\ level <= Len(prefix) /\ cur.st = graph.n

(* No completion with this number of errors: allow one more. *)
NextLevel ==
  /\ EndOfPass
  /\ level \notin DOMAIN best
  /\ level' = level + 1
  /\ cur' = Start
  /\ UNCHANGED << method, graph, prefix, space, partial, pc, answer, back, best >>

-------------------------------------------------------------------------
(* Following back transitions. *)
Linked(s, matched, jump) ==
  { i \in DOMAIN back[s] : back[s][i].matched = matched /\ back[s][i].jump = jump }
Lookup(s, matched, jump) == back[s][Min(Linked(s, matched, jump))]

(* The words of the jumped phrases along the path to (s, matched, jump), in *)
(* the order of the path.                                                  *)
JumpedWords ==
  LET words[s \in States(graph), m \in 0 .. Len(prefix), j \in 0 .. 2] ==
        IF s = 0
          THEN << >>
          ELSE LET b == Lookup(s, m, j)
               IN  words[b.bstate, b.bmatched, b.bjump]
                     \o (IF j = 1 THEN graph.trans[b.bstate][b.tr].output
                                  ELSE << >>)
  IN  words

(* The suggestion for completion b. *)
Suggestions(b, error) ==
  LET t      == graph.trans[b.from][b.tr]
      suffix == SubSeq(t.output, b.tm + 1, Len(t.output)) \o ForwardWords(graph)[t.to]
      jumped == JumpedWords[b.from, b.bmatched, b.bjump]
      last   == t.output[b.tm]
  IN  { [found |-> TRUE, score |-> b.score, error |-> error,
         completes |-> IF ~space /\ last \in partial THEN {last} ELSE {},
         words |-> w] : w \in { suffix \o jumped, jumped \o suffix } }

(* getPrefix after the search, which has found a completion. *)
Answer ==
  /\ EndOfPass
  /\ level \in DOMAIN best
  /\ answer' \in Suggestions(best[level], level)
  /\ back' = [s \in States(graph) |-> << >>]
  /\ best' = << >>
  /\ pc' = "idle"
  /\ level' = 0
  /\ cur' = Start
  /\ UNCHANGED << method, graph, prefix, space, partial >>

(* ModifiedCaitra and CaitraWithJump: every number of errors was tried in  *)
(* vain (20000 is returned), and getPrefix returns the empty string before *)
(* it comes to clearing the search.  MainCaitra has no such return.        *)
Fail ==
  /\ pc = "search" /\ level > Len(prefix)
  /\ pc' = "idle"
  /\ level' = 0
  /\ cur' = Start
  /\ UNCHANGED << method, graph, prefix, space, partial, back, best, answer >>

Step == \/ process_jump \/ process_match
        \/ NextTransition \/ NextBack \/ NextState \/ NextLevel
        \/ Answer \/ Fail

Next == \/ \E g \in Graphs : createGraph(g)
        \/ \E r \in Requests : getPrefix(r)
        \/ Step

Spec == Init /\ [][Next]_vars

-------------------------------------------------------------------------
(* Every variable keeps to its type; what was recorded can be followed     *)
(* back: a path and a completion name a situation that is recorded, so the *)
(* loop of getPrefix that looks for the predecessor finds it.              *)
LinkOK(from, tr, bmatched, bjump) ==
  /\ from \in States(graph)
  /\ tr \in DOMAIN graph.trans[from]
  /\ Linked(from, bmatched, bjump) # {}

BackOK(s, b) ==
  /\ b.error \in Nat /\ b.matched \in 0 .. Len(prefix) /\ b.jump \in 0 .. 2
  /\ IF s = 0
       THEN b = InitialBack
       ELSE /\ LinkOK(b.bstate, b.tr, b.bmatched, b.bjump)
            /\ graph.trans[b.bstate][b.tr].to = s

TypeOK ==
  /\ method \in Methods /\ graph \in Graphs
  /\ prefix \in Seq(Words) /\ space \in BOOLEAN /\ partial \subseteq Words
  /\ DOMAIN back = States(graph)
  /\ \A s \in States(graph) : \A i \in DOMAIN back[s] : BackOK(s, back[s][i])
  /\ DOMAIN best \subseteq Nat
  /\ \A e \in DOMAIN best :
       LinkOK(best[e].from, best[e].tr, best[e].bmatched, best[e].bjump)
  /\ pc \in {"idle", "search"}
  /\ level \in 0 .. Len(prefix) + 1
  /\ cur \in [st : 0 .. graph.n, bi : Nat \ {0}, ti : Nat \ {0}, mi : Nat]

(* prefix_matching_search: "only need to process back transitions with     *)
(* current error level, the ones with lower error have been processed in   *)
(* previous iteration".  That is right only if they are final by then:     *)
(* once the pass for its number of errors has come to its state, a path is *)
(* not replaced, and none comes to stand beside it.                        *)
Processed(bk) ==
  UNION { { << s, i, bk[s][i] >> :
              i \in { k \in DOMAIN bk[s] :
                        \/ bk[s][k].error < level
                        \/ bk[s][k].error = level /\ s <= cur.st } }
          : s \in States(graph) }

ProcessedStay ==
  pc = "search" /\ pc' = "search" => Processed(back') = Processed(back)

(* A phrase from the empty hypothesis can be laid against the whole        *)
(* prefix.  MainCaitra's may match any number of tokens; the others' must  *)
(* have, among as many words as there are tokens, one the prefix may end   *)
(* with: any after a space, else one that the last token may begin.        *)
EndsAtOnce ==
  \E k \in DOMAIN graph.trans[0] :
    \/ method = "MainCaitra"
    \/ \E j \in DOMAIN graph.trans[0][k].output :
         j <= Len(prefix) /\ (space \/ graph.trans[0][k].output[j] \in partial)

(* The search stops at an error per token.  Then a completion is recorded  *)
(* if one phrase can be laid against the whole prefix at once, whatever    *)
(* failed requests have left.  So, if the decoder delivered a phrase at    *)
(* all, ModifiedCaitra and CaitraWithJump fail only for an unfinished      *)
(* token that no such phrase continues; and MainCaitra, which answers with *)
(* best[errorAllowed] whatever the search says, never reads a Best that    *)
(* was not written.                                                        *)
NeverInVain == pc = "search" /\ EndsAtOnce => level <= Len(prefix)

(* Every request is answered with a completion that has the fewest errors  *)
(* and, of those, the highest score; with none if every completion has     *)
(* more errors than the prefix has tokens.                                 *)
LenientPromise ==
  INSTANCE FewestErrors WITH ErrorWeight <- 0, MayJump <- TRUE,
                             jumping <- Jumping, EditMatches <- Lenient
StrictPromise ==
  INSTANCE FewestErrors WITH ErrorWeight <- 0, MayJump <- TRUE,
                             jumping <- Jumping, EditMatches <- Strict
(* At least it is as long as no request for the sentence has failed, which *)
(* with MainCaitra none does (NeverInVain): what a failed search leaves    *)
(* behind is never cleared.                                                *)
ReplyWhenClear ==
  pc = "search" /\ Len(back[0]) = 1 =>
    IF method = "MainCaitra" THEN LenientPromise!FewestReply
                             ELSE StrictPromise!FewestReply
=========================================================================
