--------------------------- MODULE KeyStrokes ---------------------------
(***************************************************************************)
(* OnlineLearner::GetKSMR: how many keys a user would press who turns the  *)
(* hypothesis hyp into the reference ref with the system's help.  The user *)
(* is offered a continuation (getBestSuffix), accepts as much of it as     *)
(* agrees with the reference with one action, and types the next letter.   *)
(* The learner takes the hypothesis that needs the least for the oracle    *)
(* when --metric is KSMR.                                                  *)
(*                                                                         *)
(* Texts are sequences of characters; one round of the loop is a step.     *)
(***************************************************************************)
EXTENDS EditDistance

CONSTANTS
  Texts,   \* the texts that are hypotheses (and then end with a space) or
           \* references: words with single spaces between them
  Space,
  Bytes(_) \* how many bytes a text takes

Spaces(t) ==
  LET spaces[k \in 0 .. Len(t)] ==
        IF k = 0 THEN << >>
        ELSE IF t[k] = Space THEN Append(spaces[k - 1], k)
        ELSE spaces[k - 1]
  IN  spaces[Len(t)]

(* The positions before, between and after the words. *)
Cuts(t) == << 0 >> \o Spaces(t) \o << Len(t) + 1 >>

Words(t) ==
  [k \in 1 .. Len(Cuts(t)) - 1 |-> SubSeq(t, Cuts(t)[k] + 1, Cuts(t)[k + 1] - 1)]

ASSUME TextsAssumption ==
  \A t \in Texts :
    /\ t \in Seq({ t[k] : k \in DOMAIN t }) \ {<< >>}
    /\ \A k \in DOMAIN Words(t) : Words(t)[k] # << >>

ASSUME BytesAssumption == \A t \in Texts : Bytes(t) \in Nat /\ Bytes(t) >= Len(t)

VARIABLES hyp, ref, idx, ks, ma, pc
userVars == << hyp, ref, idx, ks, ma >>

-------------------------------------------------------------------------
(* The words of the prefix; nothing follows a last space.                  *)
Typed(prefix) == LET p == Words(prefix) IN IF Last(p) = << >> THEN Front(p) ELSE p

HasPartial(prefix) == Last(prefix) # Space

Costs(prefix) == WordPrefixConsumed(Words(hyp), Typed(prefix), HasPartial(prefix))

(* How many words of hyp the prefix may stand for: when its last word is   *)
(* not finished it must begin the last of them.                            *)
Ends(prefix) ==
  LET h == Words(hyp)
      p == Typed(prefix)
  IN  { n \in 0 .. Len(h) :
          /\ HasPartial(prefix) => n > 0 /\ IsPrefix(Last(p), h[n])
          /\ Costs(prefix)[n + 1] < Len(h) + Len(p) }

Joined(begun, words) ==
  FoldLeft(LAMBDA text, w : IF text = << >> THEN w ELSE text \o << Space >> \o w,
           begun, words)

(* The rest of the last word and the words after it, for the first of the  *)
(* ends that cost least.                                                   *)
getBestSuffix(prefix) ==
  IF prefix = << >> THEN hyp
  ELSE IF Ends(prefix) = {} THEN << >>
  ELSE LET h     == Words(hyp)
           least == Min({ Costs(prefix)[n + 1] : n \in Ends(prefix) })
           n     == Min({ m \in Ends(prefix) : Costs(prefix)[m + 1] = least })
           begun == IF HasPartial(prefix)
                      THEN SubSeq(h[n], Len(Last(Typed(prefix))) + 1, Len(h[n]))
                      ELSE << >>
       IN  Joined(begun, SubSeq(h, n + 1, Len(h)))

(* What is typed so far (idx may be past the end). *)
Prefix == SubSeq(ref, 1, Min({idx, Len(ref)}))

Agreement(s) ==
  Max({ n \in 0 .. Max({0, Len(ref) - idx}) :
          1 .. n \subseteq DOMAIN s /\ \A k \in 1 .. n : ref[idx + k] = s[k] })

(* Mutant of Round: accepting what does not agree at all counts, too. *)
RoundAlways ==
  /\ pc = "typing" /\ idx < Bytes(ref)
  /\ LET n == Agreement(getBestSuffix(Prefix))
     IN  /\ idx' = idx + n + 1
         /\ ks'  = ks + 1
         /\ ma'  = ma + 1
  /\ UNCHANGED << hyp, ref, pc >>

(* The loop runs up to the length of ref in bytes, but idx counts letters. *)
Round ==
  /\ pc = "typing" /\ idx < Bytes(ref)
  /\ LET n == Agreement(getBestSuffix(Prefix))
     IN  /\ idx' = idx + n + 1
         /\ ks'  = ks + 1
         /\ ma'  = IF n > 0 THEN ma + 1 ELSE ma
  /\ UNCHANGED << hyp, ref, pc >>

(* The result is (ks + ma) / Len(ref). *)
Result ==
  /\ pc = "typing" /\ idx >= Bytes(ref)
  /\ pc' = "done"
  /\ UNCHANGED << hyp, ref, idx, ks, ma >>

(* The user at work, for the learner to wait for. *)
Types == Round \/ Result

-------------------------------------------------------------------------
(* The help never costs more than typing the reference letter by letter    *)
(* and ending it with one key more; letters of several bytes may cost a    *)
(* key for each byte instead, as the loop goes on to the length in bytes,  *)
(* but none is charged twice and nothing is accepted past the end.         *)
NoWorseThanTyping ==
  pc = "done" => ks + ma <= Max({Len(ref) + 1, Bytes(ref)})

(* The table over words computes the distance of the prefix from the words *)
(* of the hypothesis, the word that is not finished being free to become   *)
(* any word that begins with it.                                           *)
CostsTrue ==
  pc = "typing" /\ Prefix # << >> =>
    LET h == Words(hyp)
        p == Typed(Prefix)
        finished == { p[Len(p)] } \cup
          { h[k] : k \in { x \in DOMAIN h : HasPartial(Prefix) /\ IsPrefix(Last(p), h[x]) } }
    IN  \A n \in 0 .. Len(h) :
          Costs(Prefix)[n + 1] =
            Min({ Distance(SubSeq(h, 1, n), [p EXCEPT ![Len(p)] = w]) : w \in finished })
=========================================================================
