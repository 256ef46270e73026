--------------------------- MODULE MCWeighted ---------------------------
(* Small instance: two graphs over four words. *)
EXTENDS WeightedCaitraWithJump, SmallGraphs

SED == INSTANCE StringEditDistance

CONSTANT MaxTokens

MCErrorWeight == -2
MCMinScore == -1000
MCRequests ==
  [tokens : UNION { [1 .. k -> {Wa, Wab, Wb}] : k \in 1 .. MaxTokens }, space : BOOLEAN]
MCEditMatches(p, done, out, part, sp) == SED!string_edit_distance(p, done, out, part, sp)
=========================================================================
