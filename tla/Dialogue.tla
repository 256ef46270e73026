---------------------------- MODULE Dialogue ----------------------------
(***************************************************************************)
(* What a session is for, with no messages in it: a user translates one    *)
(* sentence after the other, is offered continuations of what has been     *)
(* typed so far, types on, and gives up the finished translation, from     *)
(* which the system learns before it turns to the next sentence.           *)
(***************************************************************************)
EXTENDS Integers

CONSTANTS N, RefLen, Learning

VARIABLES
  sentence,  \* the number of the sentence
  length,    \* how much of its translation is typed
  offer,     \* for what the last offer was made: <<sentence, length>>, or none
  learnt     \* from how many sentences the system has learnt

vars == << sentence, length, offer, learnt >>

NoOffer == << 0, 0 >>

Init == sentence = 1 /\ length = 0 /\ offer = NoOffer /\ learnt = 0

(* An offer is for what has been typed of the sentence at hand. *)
Offer ==
  /\ length < RefLen[sentence]
  /\ offer' = << sentence, length >>
  /\ UNCHANGED << sentence, length, learnt >>

(* The user types on, accepting part of an offer if there is one. *)
Type ==
  /\ length < RefLen[sentence]
  /\ length' \in length + 1 .. IF offer = NoOffer THEN length + 1 ELSE RefLen[sentence] + 1
  /\ UNCHANGED << sentence, offer, learnt >>

Learn ==
  /\ Learning /\ length >= RefLen[sentence] /\ learnt = sentence - 1
  /\ learnt' = sentence
  /\ UNCHANGED << sentence, length, offer >>

Turn ==
  /\ length >= RefLen[sentence] /\ sentence < N
  /\ Learning => learnt = sentence
  /\ sentence' = sentence + 1 /\ length' = 0 /\ offer' = NoOffer
  /\ UNCHANGED learnt

Next == Offer \/ Type \/ Learn \/ Turn

Finished ==
  /\ sentence = N /\ length >= RefLen[N]
  /\ Learning => learnt = N

Spec == Init /\ [][Next]_vars

(* Nobody is left without the means to finish. *)
Ends == <>[]Finished
=========================================================================
