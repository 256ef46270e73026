-------------------------- MODULE FewestErrors --------------------------
(***************************************************************************)
(* What the searches by number of errors promise: like BestCompletion, but *)
(* errors are not weighed against scores.  The answer has the fewest       *)
(* errors, and of those completions the highest score.  A translation that *)
(* takes more errors than the prefix has tokens is no answer.              *)
(***************************************************************************)
EXTENDS BestCompletion

VARIABLE jumping    \* phrases may be jumped over

Acceptable(ways, p) ==
  { w \in ways : w.error <= Len(p) /\ (jumping \/ w.jumped = << >>) }

Fewest(ways) ==
  { w \in ways : \A v \in ways :
      \/ w.error < v.error
      \/ w.error = v.error /\ w.score >= v.score }

FewestReply ==
  /\ pc = "search"
  /\ LET ways == Acceptable(Ways(graph, prefix, space, partial), prefix)
     IN  IF ways = {}
           THEN answer' = None
           ELSE \E w \in Fewest(ways) : answer' \in Suggestions(w, space, partial)
  /\ pc' = "idle"
  /\ UNCHANGED << graph, prefix, space, partial >>

FewestNext == NewSentence \/ Ask \/ FewestReply

FewestSpec == Init /\ [][FewestNext]_vars
=========================================================================
