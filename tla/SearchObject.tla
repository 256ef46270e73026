-------------------------- MODULE SearchObject ---------------------------
(***************************************************************************)
(* The server's searchGraph, for every class its option --Method may name  *)
(* but the default one (WeightedCaitraWithJump): CaitraSearchGraph         *)
(* ("WeightedCaitra"), CaitraWithWindow ("Window"), CaitraWordVec,         *)
(* MainCaitra ("Caitra"), ModifiedCaitra, CaitraWithJump and               *)
(* ECModelSearchGraph ("ECModel").  The main loop calls the object through *)
(* its base class, the same way whatever the class is: createGraph for a   *)
(* sentence, then getPrefix for every prefix.                              *)
(*                                                                         *)
(* The classes have most of their members in common; the members of the    *)
(* classes that were not chosen do not change.                             *)
(***************************************************************************)
EXTENDS DecoderGraph

CONSTANTS
  Classes,     \* what --Method may name
  WindowGraphs, WordVecGraphs, LevelGraphs, ECGraphs,   \* Graphs, for the classes
  PlainRequests, WindowRequests, WordVecRequests, LevelRequests,  \* Requests
  MaxFailures, LevelFailures,          \* bounds: failed requests in a row
  PlainErrorWeight, MinScore,          \* of CaitraSearchGraph
  WindowErrorWeight, WindowSize,       \* of CaitraWithWindow
  WordVecErrorWeight, WordVecMethods, StopWords, Unit, StopWordsError,
  Similarity, Alphabet, Orders,        \* of CaitraWordVec
  Typed, Space, ErrorCost(_, _)        \* of ECModelSearchGraph

VARIABLES
  class,
  graph, prefix, space, partial, back, best, pc, answer, cur,
  bestScore,                           \* of CaitraSearchGraph
  errorAllowed,                        \* of CaitraWithWindow
  method, surface, wordsSimilarity,    \* of CaitraWordVec
  level,                               \* of ErrorLevelSearch
  link, prefixCost, stateCost, mark, queue, i    \* of ECModelSearchGraph

plainMembers  == bestScore
windowMembers == errorAllowed
vectorMembers == << method, surface, wordsSimilarity >>
levelMembers  == level
ecMembers     == << link, prefixCost, stateCost, mark, queue, i >>

vars == << class, graph, prefix, space, partial, back, best, pc, answer, cur,
           plainMembers, windowMembers, vectorMembers, levelMembers, ecMembers >>

(* The classes that search once for every number of errors. *)
LevelClasses == Classes \cap {"MainCaitra", "ModifiedCaitra", "CaitraWithJump"}

Plain  == INSTANCE CaitraSearchGraph
            WITH Requests <- PlainRequests, ErrorWeight <- PlainErrorWeight
Window == INSTANCE CaitraWithWindow
            WITH Graphs <- WindowGraphs, Requests <- WindowRequests,
                 ErrorWeight <- WindowErrorWeight
Vector == INSTANCE CaitraWordVec
            WITH Graphs <- WordVecGraphs, Requests <- WordVecRequests,
                 ErrorWeight <- WordVecErrorWeight, Methods <- WordVecMethods
Level  == INSTANCE ErrorLevelSearch
            WITH Graphs <- LevelGraphs, Requests <- LevelRequests,
                 MaxFailures <- LevelFailures, Methods <- LevelClasses, method <- class
EC     == INSTANCE ECModelSearchGraph WITH Graphs <- ECGraphs

ASSUME ClassesAssumption ==
  /\ Classes \ LevelClasses \subseteq {"WeightedCaitra", "Window", "WordVec", "ECModel"}
  /\ \A g \in WindowGraphs \cup WordVecGraphs \cup LevelGraphs :
       GraphType(g) /\ Ordered(g) /\ ForwardBest(g)
  /\ Plain!RequestsAssumption /\ Plain!NumbersAssumption /\ Plain!MinScoreAssumption
  /\ Window!RequestsAssumption /\ Window!NumbersAssumption
  /\ Vector!RequestsAssumption /\ Vector!PricesAssumption /\ Vector!OrdersAssumption
  /\ Level!RequestsAssumption /\ Level!NumbersAssumption
  /\ EC!GraphsAssumption /\ EC!TypedAssumption /\ EC!CostAssumption

NoPlain  == bestScore = MinScore
NoWindow == errorAllowed = 0
NoVector == method = "" /\ surface = << >> /\ wordsSimilarity = << >>
NoLevel  == level = 0
NoEC     == /\ link = << >> /\ prefixCost = << >> /\ stateCost = << >>
            /\ mark = {} /\ queue = << >> /\ i = 0

-------------------------------------------------------------------------
Init ==
  /\ class \in Classes
  /\ \/ class = "WeightedCaitra" /\ Plain!Init  /\ NoWindow /\ NoVector /\ NoLevel /\ NoEC
     \/ class = "Window"         /\ Window!Init /\ NoPlain  /\ NoVector /\ NoLevel /\ NoEC
     \/ class = "WordVec"        /\ Vector!Init /\ NoPlain  /\ NoWindow /\ NoLevel /\ NoEC
     \/ class \in LevelClasses   /\ Level!Init  /\ NoPlain  /\ NoWindow /\ NoVector /\ NoEC
     \/ class = "ECModel"        /\ EC!Init     /\ NoPlain  /\ NoWindow /\ NoVector /\ NoLevel
                                 /\ space = FALSE /\ partial = {} /\ back = << >> /\ cur = << >>

PlainNext  == class = "WeightedCaitra" /\ Plain!Next
                /\ UNCHANGED << class, windowMembers, vectorMembers, levelMembers, ecMembers >>
WindowNext == class = "Window" /\ Window!Next
                /\ UNCHANGED << class, plainMembers, vectorMembers, levelMembers, ecMembers >>
VectorNext == class = "WordVec" /\ Vector!Next
                /\ UNCHANGED << class, plainMembers, windowMembers, levelMembers, ecMembers >>
LevelNext  == class \in LevelClasses /\ Level!Next
                /\ UNCHANGED << plainMembers, windowMembers, vectorMembers, ecMembers >>
ECNext     == class = "ECModel" /\ EC!Next
                /\ UNCHANGED << class, space, partial, back, cur, plainMembers,
                                windowMembers, vectorMembers, levelMembers >>

Next == PlainNext \/ WindowNext \/ VectorNext \/ LevelNext \/ ECNext

(* A search is a loop of a single thread.  (Of WeightedCaitra alone here;  *)
(* the loops of the other classes are the same.)                           *)
PlainStep == class = "WeightedCaitra" /\ Plain!Step
                /\ UNCHANGED << class, windowMembers, vectorMembers, levelMembers, ecMembers >>

Spec == Init /\ [][Next]_vars /\ WF_vars(PlainStep)

-------------------------------------------------------------------------
(* Every variable keeps to its type, whatever the class, and what is       *)
(* recorded belongs to the graph at hand and can be followed back, also    *)
(* after failed requests and after other sentences.                        *)
TypeOK ==
  /\ class = "WeightedCaitra" => Plain!TypeOK
  /\ class = "Window"         => Window!TypeOK
  /\ class = "WordVec"        => Vector!TypeOK
  /\ class \in LevelClasses   => Level!TypeOK
  /\ class = "ECModel"        => EC!TypeOK

(* WeightedCaitra: whatever was asked before, a request is answered with a *)
(* completion that is worth most, and with none only if there is none.     *)
PlainKeepsPromise ==
  /\ class = "WeightedCaitra" => Plain!Promise!Init
  /\ [][class = "WeightedCaitra" => Plain!Promise!Next]_(Plain!Promise!vars)

(* Window: the search ends with the fewest errors with which any           *)
(* translation, its words moved within the window, stands for the prefix.  *)
WindowFindsFewest == class = "Window" => Window!FindsFewest

(* Window: the answer is one of the translations and is worth no less than *)
(* the best of those with the fewest errors.                               *)
WindowKeepsPromise ==
  [][class = "Window" /\ pc = "search" /\ pc' = "idle" => Window!Reply]_vars

(* WordVec: the answer is a completion that is worth most, whatever was    *)
(* given up, whatever other sentences the object has served.               *)
VectorKeepsPromise ==
  [][class = "WordVec" /\ pc = "search" /\ pc' = "idle" /\ Vector!PricesStand
       => Vector!Reply]_vars

(* WeightedCaitra: every request is answered: the loops, whose lists grow  *)
(* while they run through them, come to an end.                            *)
PlainAnswered == class = "WeightedCaitra" /\ pc = "search" ~> pc = "idle"

(* MainCaitra, ModifiedCaitra, CaitraWithJump: the search does not run out *)
(* of errors as long as some phrase can be laid against the whole prefix,  *)
(* after which two of them would fail and MainCaitra would answer with a   *)
(* completion that was never written.                                      *)
LevelNeverInVain == class \in LevelClasses => Level!NeverInVain

(* MainCaitra, ModifiedCaitra, CaitraWithJump: a path is final by the time *)
(* the pass for its number of errors comes to it ("only need to process    *)
(* back transitions with current error level").                            *)
LevelProcessedIsFinal ==
  [][(class \in LevelClasses) => Level!ProcessedStay]_vars

(* The same classes, as long as no request for the sentence has failed:    *)
(* the answer is the best of the completions with the fewest errors.       *)
LevelKeepsPromiseWhenClear ==
  [][(class \in LevelClasses) => Level!ReplyWhenClear
    ]_<< graph, prefix, space, partial, pc, answer >>

(* The same classes, also after failed requests: what is answered is "the  *)
(* best completion" (ModifiedCaitra.cpp:209) for the prefix.               *)
LevelKeepsPromise ==
  /\ class \in LevelClasses => Level!StrictPromise!Init
  /\ [][(class \in LevelClasses) => Level!StrictPromise!FewestNext]_(Level!StrictPromise!vars)

(* ECModel: the costs carried from state to state are those of the whole   *)
(* text against the prefix, and the state and alignment chosen by them are *)
(* worth most of all.                                                      *)
ECChoiceIsBest == class = "ECModel" => EC!CostsTrue /\ EC!ChoiceIsBest

(* ECModel: "get the suffix in the best path from states[stateId]"         *)
(* (ECModelSearchGraph.cpp:181).                                           *)
ECSuffixOnBestPath == class = "ECModel" => EC!SuffixOnBestPath
=========================================================================
