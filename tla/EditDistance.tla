-------------------------- MODULE EditDistance --------------------------
(***************************************************************************)
(* editdistance.h: the edit distances over characters and over words that  *)
(* the error-correction model and the online learner use.  A text is a     *)
(* sequence of characters.                                                 *)
(***************************************************************************)
EXTENDS Integers, Sequences, FiniteSets, FiniteSetsExt, SequencesExt

(* getEditDistance_CharLevel: the costs of turning the first j characters  *)
(* of p into the first i of s, when the costs dis of the first row stand   *)
(* for what comes before s.                                                *)
CharCosts(dis, s, p) ==
  LET cost[c \in (0 .. Len(s)) \X (0 .. Len(p))] ==
        LET i == c[1]
            j == c[2]
        IN  IF i = 0 THEN dis[j + 1]
            ELSE IF j = 0 THEN cost[<< i - 1, 0 >>] + 1
            ELSE Min({ cost[<< i - 1, j >>] + 1,
                       cost[<< i, j - 1 >>] + 1,
                       cost[<< i - 1, j - 1 >>] + (IF s[i] = p[j] THEN 0 ELSE 1) })
  IN  cost

(* For every i the cost of the whole of p against the first i characters   *)
(* of s, and for every j that of the first j of p against the whole of s.  *)
PrefixConsumed(dis, s, p) ==
  LET cost == CharCosts(dis, s, p) IN [i \in 1 .. Len(s) + 1 |-> cost[<< i - 1, Len(p) >>]]
StateConsumed(dis, s, p) ==
  LET cost == CharCosts(dis, s, p) IN [j \in 1 .. Len(p) + 1 |-> cost[<< Len(s), j - 1 >>]]

(* Mutant of SameWord: the last word has to be the same, too. *)
SameWordWhole(s, p, i, j, hasPartial) == s[i] = p[j]

(* getEditDistance_wordLevel over the words s and p.  With has_partial the *)
(* last word of p stands for any word that begins with it.                 *)
SameWord(s, p, i, j, hasPartial) ==
  IF hasPartial /\ j = Len(p) THEN IsPrefix(p[j], s[i]) ELSE s[i] = p[j]

WordCosts(s, p, hasPartial) ==
  LET cost[c \in (0 .. Len(s)) \X (0 .. Len(p))] ==
        LET i == c[1]
            j == c[2]
        IN  IF i = 0 \/ j = 0
              THEN i + j
              ELSE Min({ cost[<< i - 1, j >>] + 1,
                         cost[<< i, j - 1 >>] + 1,
                         cost[<< i - 1, j - 1 >>]
                           + (IF SameWord(s, p, i, j, hasPartial) THEN 0 ELSE 1) })
  IN  cost

WordPrefixConsumed(s, p, hasPartial) ==
  LET cost == WordCosts(s, p, hasPartial)
  IN  [i \in 1 .. Len(s) + 1 |-> cost[<< i - 1, Len(p) >>]]

-------------------------------------------------------------------------
(* For reference, with no table: x and y are laid side by side by pairing  *)
(* some positions of x with positions of y, without crossings; a[i] is the *)
(* position that i is paired with, or 0.  The distance is the least number *)
(* of positions that are left alone or paired with something else.         *)
Pairings(x, y) ==
  { a \in [1 .. Len(x) -> 0 .. Len(y)] :
      \A i, k \in 1 .. Len(x) : i < k /\ a[i] # 0 /\ a[k] # 0 => a[i] < a[k] }

Paired(a) == { i \in DOMAIN a : a[i] # 0 }

Distance(x, y) ==
  Min({ Len(x) + Len(y) - 2 * Cardinality(Paired(a))
          + Cardinality({ i \in Paired(a) : x[i] # y[a[i]] }) : a \in Pairings(x, y) })
=========================================================================
