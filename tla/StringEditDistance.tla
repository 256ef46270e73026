----------------------- MODULE StringEditDistance -----------------------
(***************************************************************************)
(* How one phrase of the search graph is laid against what is left of the  *)
(* user's prefix: string_edit_distance of the prefix searches (the Caitra  *)
(* classes of FinalCAT/CAT).                                               *)
(*                                                                         *)
(* A word is a vocabulary number; only equality and the relation "may be   *)
(* the completion of" matter, and the latter reaches these operators as    *)
(* the set part (partially_matches_last_token).                            *)
(*                                                                         *)
(*   p       the tokens of the prefix                                      *)
(*   done    how many of them earlier phrases have matched                 *)
(*   out     the words of the phrase                                       *)
(*   part    the words that the last token of p may be the beginning of    *)
(*   space   the prefix ends with a space: its last token is complete      *)
(***************************************************************************)
EXTENDS Integers, Sequences, FiniteSetsExt

(* A word of the phrase stands for token number k of the prefix for free   *)
(* when they are the same word, or when k is the last token and the word   *)
(* is one of part.                                                         *)
Agree(p, k, w, part) ==
  \/ p[k] = w
  \/ k = Len(p) /\ w \in part

(* The cost table: how many words must be deleted, inserted or replaced    *)
(* (error_unit = 1 each) to turn the next i tokens of the prefix into the  *)
(* first j words of the phrase.                                            *)
CostTable(p, done, out, part) ==
  LET cost[c \in (0 .. Len(p) - done) \X (0 .. Len(out))] ==
        LET i == c[1]
            j == c[2]
        IN  IF i = 0 \/ j = 0
              THEN i + j
              ELSE Min({ cost[<< i - 1, j >>] + 1,
                         cost[<< i, j - 1 >>] + 1,
                         cost[<< i - 1, j - 1 >>]
                           + (IF Agree(p, done + i, out[j], part) THEN 0 ELSE 1) })
  IN  cost

(* One way to use the phrase: the errors it costs, how much of the prefix  *)
(* is matched afterwards and how many words of the phrase that took.       *)
Match(error, prefixMatched, transitionMatched) ==
  [error |-> error, pm |-> prefixMatched, tm |-> transitionMatched]

(* Mutant of MatchEnds: a space does not complete the last token. *)
MatchEndsUnspaced(out, part, space) ==
  LET ends[j \in 0 .. Len(out)] ==
        IF j = 0 THEN << >>
        ELSE IF out[j] \in part THEN Append(ends[j - 1], j)
        ELSE ends[j - 1]
  IN  ends[Len(out)]

(* Where a match that consumes the prefix may end, in the order of the     *)
(* loop: the last matched word must be a possible completion of the last   *)
(* token unless a space has completed it.                                  *)
MatchEnds(out, part, space) ==
  LET ends[j \in 0 .. Len(out)] ==
        IF j = 0 THEN << >>
        ELSE IF space \/ out[j] \in part THEN Append(ends[j - 1], j)
        ELSE ends[j - 1]
  IN  ends[Len(out)]

(* Matches that consume the rest of the prefix. *)
PrefixConsumed(p, done, out, part, space) ==
  LET cost == CostTable(p, done, out, part)
      ends == MatchEnds(out, part, space)
  IN  [x \in 1 .. Len(ends) |->
         Match(cost[<< Len(p) - done, ends[x] >>], Len(p), ends[x])]

(* Matches that consume the whole phrase and leave something of the prefix. *)
TransitionConsumed(p, done, out, part) ==
  LET cost == CostTable(p, done, out, part)
  IN  [i \in 1 .. Len(p) - done - 1 |->
         Match(cost[<< i, Len(out) >>], done + i, Len(out))]

string_edit_distance(p, done, out, part, space) ==
  PrefixConsumed(p, done, out, part, space)
    \o TransitionConsumed(p, done, out, part)

(* MainCaitra's: a phrase that consumes the prefix may end with any word   *)
(* but stops before its own end, or else it consumes both.                 *)
LenientPrefixConsumed(p, done, out, part) ==
  LET cost == CostTable(p, done, out, part)
  IN  [j \in 1 .. Len(out) - 1 |-> Match(cost[<< Len(p) - done, j >>], Len(p), j)]

(* Mutant of LenientTransitionConsumed: not the rest of the prefix. *)
LenientTransitionConsumedLess(p, done, out, part) ==
  LET cost == CostTable(p, done, out, part)
  IN  [i \in 1 .. Len(p) - done - 1 |->
         Match(cost[<< i, Len(out) >>], done + i, Len(out))]

LenientTransitionConsumed(p, done, out, part) ==
  LET cost == CostTable(p, done, out, part)
  IN  [i \in 1 .. Len(p) - done |->
         Match(cost[<< i, Len(out) >>], done + i, Len(out))]

lenient_edit_distance(p, done, out, part) ==
  LenientPrefixConsumed(p, done, out, part)
    \o LenientTransitionConsumed(p, done, out, part)
=========================================================================
