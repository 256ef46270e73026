---------------------------- MODULE MCDecoder ----------------------------
(* Small instances: sentences of four words with walls and zones, decoded  *)
(* without scores; and sentences of three words with options of different  *)
(* scores and lengths, under several settings of the decoder.              *)
EXTENDS Decoder

O(from, to, out, score) == [from |-> from, to |-> to, out |-> out, score |-> score]

(* Scores of all sizes, so that few hypotheses are as good as each other. *)
MCLanguageModel == [x \in (0 .. 3) \X (1 .. 3) |-> -((7 * x[1] + 5 * x[2]) % 13)]

Unlimited ==
  [maxDistortion |-> -1, weightDistortion |-> 1, maxPhraseLength |-> 3,
   maxHypoStackSize |-> Infinity, minHypoStackDiversity |-> 0, beamWidth |-> -Infinity,
   earlyDiscardingThreshold |-> 0, disableDiscarding |-> FALSE,
   nBestIsEnabled |-> FALSE, nBestSize |-> 0, nBestFactor |-> 1,
   distinctNBest |-> FALSE, hasTimeout |-> FALSE]

-------------------------------------------------------------------------
Zones4 == { [start |-> x[1], end |-> x[2]] : x \in { y \in (0 .. 3) \X (0 .. 3) : y[1] < y[2] } }

Sentences4 ==
  { [size |-> 4,
     options |-> << O(0, 0, 0, 0), O(1, 1, 0, 0), O(1, 2, 0, 0), O(2, 2, 0, 0), O(3, 3, 0, 0) >>,
     punctuation |-> p, walls |-> w, zones |-> z] :
    p \in {{}, {2}}, w \in {{}, {0}, {1}, {0, 2}},
    z \in {<< >>} \cup { << x >> : x \in Zones4 }
           \cup { q \in Zones4 \X Zones4 : q[1] # q[2] } }

ConstraintCases ==
  { [source |-> s, param |-> [Unlimited EXCEPT !.maxDistortion = d]] :
    s \in Sentences4, d \in -1 .. 3 }

-------------------------------------------------------------------------
Sentence(options) ==
  [size |-> 3, options |-> options, punctuation |-> {}, walls |-> {}, zones |-> << >>]

Sentences3 ==
  { Sentence(<< O(0, 0, 1, -12), O(0, 0, 2, -7), O(0, 1, 3, -22), O(1, 1, 2, -9),
                O(1, 1, 0, -16), O(2, 2, 3, -4) >>),
    Sentence(<< O(0, 0, 1, -6), O(1, 1, 2, -3), O(1, 1, 1, -5), O(1, 2, 3, -11),
                O(2, 2, 1, -8), O(2, 2, 2, -10) >>),
    Sentence(<< O(0, 0, 3, -1), O(0, 0, 1, -6), O(0, 0, 2, -9), O(1, 1, 3, -3),
                O(1, 1, 1, -3), O(2, 2, 3, -2) >>),
    Sentence(<< O(0, 0, 2, -2), O(0, 1, 2, -10), O(1, 1, 1, -2), O(2, 2, 1, -4) >>) }

Listing(n, factor, distinct) ==
  [Unlimited EXCEPT !.nBestIsEnabled = TRUE, !.nBestSize = n, !.nBestFactor = factor,
                    !.distinctNBest = distinct]

Settings ==
  {Unlimited,
   [Unlimited EXCEPT !.maxDistortion = 1],
   [Unlimited EXCEPT !.weightDistortion = 2],
   [Listing(6, 1, FALSE) EXCEPT !.maxDistortion = 0],
   [Unlimited EXCEPT !.hasTimeout = TRUE],
   [Unlimited EXCEPT !.earlyDiscardingThreshold = -5, !.beamWidth = -9],
   [Unlimited EXCEPT !.earlyDiscardingThreshold = -20, !.minHypoStackDiversity = 1,
                     !.maxDistortion = 1, !.maxHypoStackSize = 2],
   Listing(2, 1, FALSE), [Listing(4, 2, FALSE) EXCEPT !.maxDistortion = 2],
   Listing(3, 4, TRUE), [Listing(3, 1, TRUE) EXCEPT !.maxDistortion = 1],
   [Unlimited EXCEPT !.maxHypoStackSize = 2, !.beamWidth = -9],
   [Unlimited EXCEPT !.maxHypoStackSize = 1, !.beamWidth = -12],
   [Unlimited EXCEPT !.maxHypoStackSize = 2, !.minHypoStackDiversity = 1, !.maxDistortion = 0],
   [Unlimited EXCEPT !.maxHypoStackSize = 1, !.minHypoStackDiversity = 1, !.maxDistortion = 1,
                     !.beamWidth = -12],
   [Listing(2, 1, FALSE) EXCEPT !.maxHypoStackSize = 2, !.beamWidth = -9,
                                !.disableDiscarding = TRUE]}

MCCases ==
  ConstraintCases \cup { [source |-> s, param |-> p] : s \in Sentences3, p \in Settings }

(* Early discarding. *)
DiscardingCases == { c \in MCCases : c.param.earlyDiscardingThreshold < 0 }
=========================================================================
