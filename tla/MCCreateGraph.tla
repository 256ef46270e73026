------------------------- MODULE MCCreateGraph -------------------------
(* Small instance: all lattices of up to H hypotheses (and the empty one)  *)
(* over Cover source words, the phrases being worth -1 or -3; hypotheses   *)
(* are numbered stack by stack, since numbers do nothing but name them.    *)
EXTENDS CreateGraph, TLC

CONSTANTS H, Cover

Lattice(p, c, w, g) ==
  [prev |-> 0 :> 0 @@ p, cover |-> 0 :> 0 @@ c, win |-> 0 :> 0 @@ w, gain |-> 0 :> 0 @@ g]

Prevs(h)  == { p \in [1 .. h -> 0 .. h - 1] : \A i \in 1 .. h : p[i] < i }
Covers(h) == { c \in [1 .. h -> 1 .. Cover] : \A i \in 2 .. h : c[i - 1] <= c[i] }
Wins(h, c) ==
  { w \in [1 .. h -> 1 .. h] : \A i \in 1 .. h : w[w[i]] = w[i] /\ c[w[i]] = c[i] }

Shapes(h) ==
  { l \in UNION { { Lattice(p, c, w, [i \in 1 .. h |-> 0]) : w \in Wins(h, c) }
                  : p \in Prevs(h), c \in Covers(h) } : LatticeOK(l) }

Weighted(h) ==
  UNION { { [l EXCEPT !.gain = 0 :> 0 @@ g] : g \in [1 .. h -> {-1, -3}] }
          : l \in Shapes(h) }

MCLattices == { l \in UNION { Weighted(h) : h \in 0 .. H } : LatticeOK(l) }
=========================================================================
