------------------------- MODULE MCSearchObject -------------------------
(* Small instances of the classes. *)
EXTENDS SearchObject, SmallGraphs

CONSTANT MaxTokens

MCPlainErrorWeight == -2
MCMinScore == -1000
RequestsOver(words) ==
  [tokens : UNION { [1 .. k -> words] : k \in 1 .. MaxTokens }, space : BOOLEAN]
MCPlainRequests == RequestsOver({Wa, Wab, Wb})
MCWordRequests  == RequestsOver({Wa, Wb, Wc})

(* Scores that outweigh several errors. *)
Tenfold(g) ==
  [g EXCEPT !.trans = [s \in DOMAIN @ |->
                         [k \in DOMAIN @[s] |-> [@[s][k] EXCEPT !.score = 10 * @]]],
            !.fscore = [s \in DOMAIN @ |-> 10 * @[s]]]

MCWindowGraphs == { Tenfold(Diamond), Chain, LongPhrases }

(* A graph that lacks a word, so that a prefix may add it to the lexicon. *)
Unaware ==
  [n |-> 3,
   trans |-> 0 :> << T(1, -1, <<Wb>>), T(2, -5, <<Wab, Wb>>) >>
             @@ 1 :> << T(2, -1, <<Wb, Wab>>), T(2, -2, <<Wc, Wc>>) >>
             @@ 2 :> << >>,
   forward |-> 0 :> 1 @@ 1 :> 2 @@ 2 :> -1,
   fscore |-> 0 :> -2 @@ 1 :> -1 @@ 2 :> 0]

MCWordVecGraphs == {Diamond, LongPhrases, Unaware}
MCSimilarity ==
  [p \in MCWords \X MCWords |->
     IF p[1] = p[2] THEN 10
     ELSE CASE {p[1], p[2]} = {Wa, Wc}  -> 6
            [] {p[1], p[2]} = {Wab, Wc} -> 4
            [] {p[1], p[2]} = {Wb, Wc}  -> 9
            [] OTHER -> 1]
MCAlphabet == << Wa, Wab, Wb, Wc >>
MCOrders   == { MCAlphabet, << Wc, Wb, Wa, Wab >> }

MCLevelGraphs == MCGraphs \cup {LongPhrases}

(* Graphs over the letters a and b.  A transition has a text.              *)
S(to, score, text) == [to |-> to, score |-> score, text |-> text]

(* Two transitions lead from 1 to 2; the one of the hypothesis comes first *)
(* and is the better one.                                                  *)
Parallel ==
  [n |-> 4,
   trans |-> 0 :> << S(1, -1, <<"a">>), S(3, -6, <<"b", "a">>) >>
             @@ 1 :> << S(2, -1, <<"a", "b">>), S(2, -2, <<"b">>) >>
             @@ 2 :> << S(3, -1, <<"b", "b">>) >>
             @@ 3 :> << >>,
   forward |-> 0 :> 1 @@ 1 :> 2 @@ 2 :> 3 @@ 3 :> -1,
   back    |-> 0 :> -1 @@ 1 :> 0 @@ 2 :> 1 @@ 3 :> 2,
   bscore  |-> 0 :> 0 @@ 1 :> -1 @@ 2 :> -2 @@ 3 :> -3,
   fscore  |-> 0 :> -3 @@ 1 :> -2 @@ 2 :> -1 @@ 3 :> 0]

(* A hypothesis that extends 2 was recombined with 3, which extends 1.     *)
Recombined ==
  [n |-> 4,
   trans |-> 0 :> << S(1, -1, <<"a">>), S(2, -2, <<"b">>) >>
             @@ 1 :> << S(3, -1, <<"b">>) >>
             @@ 2 :> << S(3, -1, <<"a">>) >>
             @@ 3 :> << >>,
   forward |-> 0 :> 1 @@ 1 :> 3 @@ 2 :> 3 @@ 3 :> -1,
   back    |-> 0 :> -1 @@ 1 :> 0 @@ 2 :> 0 @@ 3 :> 1,
   bscore  |-> 0 :> 0 @@ 1 :> -1 @@ 2 :> -2 @@ 3 :> -2,
   fscore  |-> 0 :> -2 @@ 1 :> -1 @@ 2 :> -1 @@ 3 :> 0]

MCECGraphs == {Parallel, Recombined}
MCTyped == UNION { [1 .. k -> {"a", "b", " "}] : k \in 0 .. 4 }
MCErrorCost(error, len) == -2 * error
=========================================================================
