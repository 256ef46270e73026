-------------------------- MODULE OrderedOutput --------------------------
(***************************************************************************)
(* What a user of the command line decoder sees: sentences go in one after *)
(* the other, their translations come out in the same order, none twice,   *)
(* and when the program ends in peace all have come out.                   *)
(***************************************************************************)
EXTENDS Integers, Sequences

VARIABLES accepted, printed, ended

vars == << accepted, printed, ended >>

Init == accepted = 0 /\ printed = << >> /\ ended = FALSE

Accept == ~ended /\ accepted' = accepted + 1 /\ UNCHANGED << printed, ended >>

(* One translation or several. *)
PutOut ==
  /\ Len(printed) < accepted
  /\ \E n \in Len(printed) + 1 .. accepted : printed' = [i \in 1 .. n |-> i - 1]
  /\ UNCHANGED << accepted, ended >>

End == Len(printed) = accepted /\ ended' = TRUE /\ UNCHANGED << accepted, printed >>

Next == Accept \/ PutOut \/ End

Spec == Init /\ [][Next]_vars
=========================================================================
