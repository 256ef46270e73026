---------------------------- MODULE MCLearner ---------------------------
(* Small instances.  One is about judging: any text against any reference, *)
(* of up to three words of one or two letters; the letter e stands for one *)
(* that takes three bytes.  The others are about learning: two sentences,    *)
(* lists of three translations with two features.                          *)
EXTENDS OnlineLearner

MCWords == { <<"a">>, <<"e">>, <<"a", "b">> }
MCBytes(t) == Len(t) + 2 * Cardinality({ k \in DOMAIN t : t[k] = "e" })

MCTexts ==
  UNION { { Joined(<< >>, w) : w \in [1 .. n -> MCWords] } : n \in 1 .. 3 }

Path(text, features) == [text |-> text, features |-> features]

Judged ==
  { << [paths |-> { Path(t, << 0, 0 >>) }, ref |-> r] >> : t \in MCTexts, r \in MCTexts }

A  == <<"a">>
AB == <<"a", "b">>
AE == <<"a", " ", "e">>
Vectors == { << 0, 0 >>, << 1, 0 >>, << 0, 8 >>, << -1, 2 >> }

Learnt ==
  { << [paths |-> { Path(A, v[1]), Path(AB, v[2]), Path(AE, v[3]) }, ref |-> r],
       [paths |-> { Path(A, << 2, 0 >>), Path(AE, u) }, ref |-> AE] >> :
    v \in [1 .. 3 -> Vectors], u \in Vectors, r \in { AB, AE } }

MCLessons == Judged \cup Learnt

MCInitialWeights == << 1, 1 >>
=========================================================================
