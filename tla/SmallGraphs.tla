-------------------------- MODULE SmallGraphs --------------------------
(* Two search graphs over four words, for model checking. *)
EXTENDS Integers, TLC

CONSTANTS Wa, Wab, Wb, Wc

MCWords  == {Wa, Wab, Wb, Wc}
MCPartOf == {<<Wa, Wab>>}

T(to, score, output) == [to |-> to, score |-> score, output |-> output]

(* A diamond with a bypass.  State 2 is reached from 0 and from 1 by paths *)
(* of different length; two transitions share their end points.           *)
Diamond ==
  [n |-> 4,
   trans |-> 0 :> << T(1, -1, <<Wab>>), T(2, -4, <<Wa, Wb>>), T(1, -2, <<Wb>>) >>
             @@ 1 :> << T(2, -1, <<Wb>>), T(3, -5, <<Wc, Wab>>) >>
             @@ 2 :> << T(3, -1, <<Wc>>) >>
             @@ 3 :> << >>,
   forward |-> 0 :> 1 @@ 1 :> 2 @@ 2 :> 3 @@ 3 :> -1,
   fscore |-> 0 :> -3 @@ 1 :> -2 @@ 2 :> -1 @@ 3 :> 0]

(* A longer chain of one-word phrases with two ends. *)
Chain ==
  [n |-> 6,
   trans |-> 0 :> << T(1, -1, <<Wb>>) >>
             @@ 1 :> << T(2, -1, <<Wc>>), T(3, -3, <<Wab>>) >>
             @@ 2 :> << T(3, -1, <<Wab>>) >>
             @@ 3 :> << T(4, -1, <<Wa, Wb>>), T(5, -2, <<Wc>>) >>
             @@ 4 :> << >>
             @@ 5 :> << >>,
   forward |-> 0 :> 1 @@ 1 :> 2 @@ 2 :> 3 @@ 3 :> 4 @@ 4 :> -1 @@ 5 :> -1,
   fscore |-> 0 :> -4 @@ 1 :> -3 @@ 2 :> -2 @@ 3 :> -1 @@ 4 :> 0 @@ 5 :> 0]

(* Phrases that are longer than a prefix. *)
LongPhrases ==
  [n |-> 3,
   trans |-> 0 :> << T(1, -1, <<Wb, Wc, Wab>>) >>
             @@ 1 :> << T(2, -1, <<Wab, Wb>>), T(2, -3, <<Wa>>) >>
             @@ 2 :> << >>,
   forward |-> 0 :> 1 @@ 1 :> 2 @@ 2 :> -1,
   fscore |-> 0 :> -2 @@ 1 :> -1 @@ 2 :> 0]

MCGraphs == {Diamond, Chain}
=========================================================================
