------------------------ MODULE WindowAlignment -------------------------
(***************************************************************************)
(* What editDistance and string_edit_distance of CaitraWithWindow are for, *)
(* without a table and without phrases: the words of a translation are     *)
(* laid against the tokens of the prefix one to one, and may be moved, as  *)
(* long as no word goes WindowSize or more tokens past a later one.        *)
(***************************************************************************)
EXTENDS DecoderGraph, FiniteSets, FiniteSetsExt

CONSTANT WindowSize

(* Word w may stand for token k of prefix p for free. *)
Agree(p, k, w, part) == p[k] = w \/ (k = Len(p) /\ w \in part)

(* The ways to lay words against p: for each word the number of its token, *)
(* or 0 if it has none.  Only words from number last on, those of the last *)
(* phrase, may have the last token.                                        *)
Alignments(p, words, last) ==
  { a \in [DOMAIN words -> 0 .. Len(p)] :
      \A i, j \in DOMAIN words :
        /\ i < j /\ a[i] # 0 /\ a[j] # 0 => a[i] # a[j] /\ a[i] - a[j] < WindowSize
        /\ a[i] = Len(p) => i >= last }

(* Words without a token, tokens without a word and wrong words. *)
Errors(p, words, part, a) ==
  Cardinality({ i \in DOMAIN words : a[i] = 0 })
    + Cardinality({ k \in DOMAIN p : \A i \in DOMAIN words : a[i] # k })
    + Cardinality({ i \in DOMAIN words : a[i] # 0 /\ ~Agree(p, a[i], words[i], part) })

(* The least number of errors with which words, of which those from last   *)
(* on are in the last phrase, stand for the whole of p.                    *)
Distance(p, words, last, part) ==
  Min({ Errors(p, words, part, a) : a \in Alignments(p, words, last) })

(* Every translation in the graph, stopped at every word that may be the   *)
(* last one the prefix stands for: words before the last phrase, that      *)
(* phrase up to its word number tm, and the rest.                          *)
Ways(g, p, sp, part) ==
  LET paths[s \in States(g)] ==
        UNION { LET t == g.trans[s][k]
                IN  { [score |-> t.score + g.fscore[t.to], before |-> << >>,
                       phrase |-> t.output, tm |-> tm, to |-> t.to]
                      : tm \in { x \in DOMAIN t.output : sp \/ t.output[x] \in part } }
                    \cup { [w EXCEPT !.score = @ + t.score, !.before = t.output \o @]
                           : w \in paths[t.to] }
                : k \in DOMAIN g.trans[s] }
  IN  { [score |-> w.score,
         error |-> Distance(p, w.before \o SubSeq(w.phrase, 1, w.tm),
                            Len(w.before) + 1, part),
         last |-> w.phrase[w.tm],
         suffix |-> SubSeq(w.phrase, w.tm + 1, Len(w.phrase)) \o ForwardWords(g)[w.to]]
        : w \in paths[0] }
=========================================================================
