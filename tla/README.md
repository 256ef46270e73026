# Verification of InteractiveMT

InteractiveMT is a server for interactive machine translation. It decodes a
source sentence with Moses, keeps the decoder's search graph, and while a
translator types answers every prefix with a continuation. After each sentence
it may learn from the finished translation. Its own code is in
`src/FinalCAT/CAT` (server and searches) and `src/FinalCAT/CAT-client` (a client
that simulates a user); `src/FinalCAT/moses` is the decoder, and
`src/FinalCAT/moses-cmd` the program that decodes a whole file with several
threads.

The project here models the decoder from translation options to search graph
and n-best list, the construction of the graph the server's searches work on,
all of these searches, the metric that counts a user's keys, the session between
client and server, and the batch program with its thread pool and its outputs.
It checks them with TLC on small instances. With TLAPS it proves, for all
inputs: that the decoder keeps its reordering constraints, never gets into a dead
end, prunes only what may be pruned, leaves a sound search graph, and finds the best
translation there is whenever no limit is reached; that `createGraph` makes of any such graph one with exactly the decoder's
derivations, as the searches take for granted; and that on any such graph the
deployed search answers every request, also after failed ones, with a completion worth
most while the user only extends the prefix, and so does its variant without jumps whatever
the user types. The assumptions of one link of this chain are the theorems of the one
before. It also proves that the batch program implements an output in the
order of the inputs, and the session a dialogue without messages; that the
learner's metrics are the distances they stand for and its updates go where they
should; and that the searches by number of errors never reconsider what they have
passed and, where there is no upper bound on errors, always come to an answer.

Contents: 1 inventory, 2 modules, 3 runs and bounds, 4 fairness, 5 proofs,
6 findings and observations, 7 abstractions, 8 plan.

## 1. Inventory

### Components

| Component | State | Operations | Model |
|---|---|---|---|
| `Manager::GetSearchGraph` | none (reads the stacks of hypotheses) | list of nodes with forward scores and forward pointers | `CreateGraph` |
| `createGraph` (same code in all searches) | `states`, maps `hypId2stateId`, `recombination` | nodes to states, then pointers to state numbers | `CreateGraph`; its result is `DecoderGraph` |
| `WeightedCaitraWithJump` (deployed, `RunServer.sh:11`) | `states[].back`, `best[]`, `best_Score`, partial matches | `createGraph`, `getPrefix` | `WeightedCaitraWithJump` |
| `MainCaitra`, `ModifiedCaitra`, `CaitraWithJump` | the same without `best_Score` | the same, one pass per number of errors | `ErrorLevelSearch` |
| `CaitraWithWindow` | paths with bit masks | the same, words may change places | `CaitraWithWindow` |
| `CaitraWordVec` ("StopWords", "WordVector", "both") | single completion, similarities; one object for all sentences | the same, errors have prices | `CaitraWordVec` |
| `ECModelSearchGraph` | edit costs per state, over letters | breadth-first along the best ways | `ECModelSearchGraph` |
| `CaitraSearchGraph` ("WeightedCaitra") | as the weighted search, without jump states | `createGraph`, `getPrefix` | `CaitraSearchGraph` |
| `CAT-Server.cpp`, main loop | manager, task, search graph, weights | `new_sentence`, `prefix`, `no-prefix`, `update`, `close` | `Session` |
| `cat-client` | sentence, position in the reference | the dialogue, one request at a time | `Session`, `Dialogue` |
| `Server`, `Client` (sockets) | one TCP stream each way | `get_message`, `set_message` | `Session` |
| `OnlineLearner` | weights, n-best list | `RunMIRA`, `RunPerceptron`, `RunPA2`; metrics | rules and metrics: `OnlineLearner`, `KeyStrokes`; when it runs: `Session` |
| `ReorderingConstraint`, distortion limits | walls, local walls, zones of a sentence | `InitializeWalls`, `FinalizeWalls`, `Check` | `ReorderingConstraint` |
| `SearchNormal`, `HypothesisStackNormal`, `Hypothesis` | a stack of hypotheses per number of words, with scores and arcs | `ProcessSentence`, `ExpandHypothesis`, `AddPrune`, `PruneToSize`, `Recombine` | `Hypothesis`, `HypothesisStackNormal`, `SearchNormal` |
| `Manager::CalcNBest`, `TrellisPath`, `TrellisPathCollection` | contenders, list | take the best, make its deviations, cut | `NBestList` |
| `ThreadPool` | queue, `m_stopping`, `m_stopped`, the threads | `Submit`, `Execute`, `Stop` | `ThreadPool` |
| `OutputCollector` | `m_nextOutput`, `m_outputs` | `Write` | `OutputCollector` |
| `moses-cmd`, main loop and `TranslationTask` | reading, submitting, one task per sentence | `ReadInput`, `Submit`, `Run`, `Stop` | `BatchTranslation` |
| back-off, BLEU, TER, MIRA, n-best search, word vectors, console client, the rest of Moses | | | not modelled, see 7 and 8 |

### Interaction

    cat-client  <-- one TCP connection, no framing -->  server loop
                                                          |  new_sentence
                       Manager (decoder) <----------------+----> OnlineLearner
                          | GetSearchGraph                |        ^ update
                          v                               v        |
                       createGraph  --->  search object   getPrefix(prefix)

The server is one thread: it reads a command, then the command's text, and
finishes it before it reads again. The search object is deleted and made anew
for each sentence, except `CaitraWordVec`, which is reused. Between two requests
for one sentence the object keeps whatever `getPrefix` did not clear.

    translation options --> SearchNormal --> stacks, arcs --> GetSearchGraph
                              ^                    |
                     ReorderingConstraint          +-------> CalcNBest

    main thread --Submit--> ThreadPool --> TranslationTask::Run --> OutputCollector
    (ReadInput)  <--wait--  (N threads)      (any order)             (input order)

The server calls the decoder in its only thread. The batch program `moses-cmd`
calls it in the threads of a pool, each task with a decoder of its own; what the
threads share is the queue and the collectors.

### What is hard about it, and what makes each part correct

* **State that outlives a request.** A search that finds no completion returns
  before the lines that clear it. The next request searches on a graph full of
  old paths. *Correct:* the answer does not depend on what was asked before.
* **Loops over lists they extend.** The main loop walks vectors of paths while
  matches append to, and overwrite, vectors of paths further on. *Correct:* what
  it has passed never changes, so no path is continued with an outdated value,
  and pruning by the best completion so far loses nothing.
* **Back links by situation, not by identity.** The answer is put together by
  looking up a path with the right number of matched tokens and jump state at
  the previous state. If none is there the lookup runs off the vector.
  *Correct:* one is there, and it is the path the score was computed from.
* **References resolved through maps whose `operator[]` inserts zero.** One
  missing entry silently means the empty hypothesis. *Correct:* nothing is
  guessed, the graph has the decoder's derivations and no others.
* **Messages without boundaries.** *Correct:* answers are for the prefix and the
  sentence at hand, learning uses the right pair, nobody waits for good.
* **Metrics by dynamic programming** over words with an unfinished last one, in
  bytes in one place and letters in another.

* **A search that forgets.** The decoder discards, recombines and prunes while it
  runs. *Correct:* what is dropped could not have mattered, or is outside the
  limits one asked for; what is kept is a graph without loose ends, and no
  hypothesis gets where the reordering limits allow no way on.
* **Threads that wait with `if`, notify without the lock and read a flag without
  it.** *Correct:* every task runs exactly once, outputs come in order, and the
  program ends, also when reading fails.

There is no concurrency inside the server and nothing is persisted, so there is
no crash recovery to model. `PROJECT.json` lists every hazard with its line and
the properties that cover it.

## 2. Modules

| Module | What it is |
|---|---|
| `DecoderGraph` | The graph as searches see it, and the assumptions on it (`GraphType`, `Ordered`, `ForwardBest`). `CreateGraph` checks that `createGraph` delivers them (`GraphAsAssumed`). |
| `StringEditDistance` | `string_edit_distance`: the cost table and the two kinds of matches it returns, in a strict (all classes) and a lenient form (MainCaitra accepts an unmatched last word). |
| `WeightedCaitraWithJump` | The deployed search, one loop body per step. |
| `CaitraSearchGraph` | The weighted search without jumps; one transition per step. |
| `BestCompletion` | What both promise: a completion that is worth most, with no search in it. `MayJump` says whether phrases may be left out. |
| `WeightedCaitraProofs` | The proofs about the deployed search: its invariants, and that it implements `BestCompletion`. |
| `SearchProofs` | The proofs about the searches by number of errors, `ECModelSearchGraph` and `CaitraSearchGraph`. |
| `ErrorLevelSearch` / `FewestErrors` | The three searches by number of errors (`method` says which), and their promise. |
| `CaitraWithWindow` / `WindowAlignment` | The search in which words may change places, and a definition of its error count by alignments: no table, no phrases, no masks. |
| `CaitraWordVec` | The search with prices. Its reference (`Price`, `Ways`) enumerates alignments and translations. |
| `EditDistance`, `ECModelSearchGraph` | The search over letters and the library it uses (`editdistance.h`). |
| `KeyStrokes` | The learner's simulated user: `GetKSMR` and `getBestSuffix`. |
| `OnlineLearner` | The learner: a list of translations judged one by one (by KSMR, that is by the user of `KeyStrokes`, or by word errors), then one of three rules that move the weights. |
| `HypothesisLattice` | What the decoder leaves (`LatticeOK`) and the best ways forward in it: pure operators, shared by `CreateGraph` and `Decoder`. |
| `CreateGraph` | From the decoder's hypotheses to the graph. |
| `CreateGraphProofs` | The proofs about it. |
| `Session` / `Dialogue` | Client, server and stream, every read and write a step; and what a session is for, with no messages. |
| `SearchObject` | The search object of the server for every class but the deployed one: which class it is is chosen at the start, then it serves sentence after sentence. |
| `ReorderingConstraint` | Pure: the walls of a sentence made final, and whether a phrase may come next. |
| `Hypothesis` | A hypothesis as the sequence of options it is made of; its coverage, scores, future scores and what is compared for recombination. |
| `HypothesisStackNormal` | The operations of a stack, as functions from a stack to the stacks that may come out (sorting leaves equals in any order). |
| `SearchNormal` | The search as a state machine: a stack is pruned, a hypothesis picked, one extension made. |
| `NBestList` | The list as a state machine: a path taken per step. |
| `Decoder` | Search and list together, and their properties. |
| `ThreadPool` | Pool and the client that fills and stops it; every lock, wait, notification and unlocked read a step. |
| `OutputCollector` | Write now, write later, follow up. |
| `BatchTranslation` / `OrderedOutput` | The program made of both; and what its user sees: a file that grows in the order of the inputs. |
| `BatchProofs`, `SessionProofs` | The proofs about the batch program and about the session. |
| `DecoderProofs`, `LearnerProofs` | The proofs about the decoder and about the learner: its metrics, its simulated user, its updates. |
| `Extremes` | What the proofs need to know of numbers: `Min` and `Max`, induction and recursion, sums and combinations of them, the first few of a set of numbers; what a table of edit costs computes (the least cost of a pairing); values gathered in a list. |
| `SmallGraphs`, `MC*` | Instances for TLC. |

How state and actions correspond to the code, using the weighted search as the
example (the other searches follow the same pattern; `PROJECT.json` "map" has
the lines of every definition):

| Model | `WeightedCaitraWithJump.cpp` |
|---|---|
| `graph` | `states` without `back`, `lexicon` |
| `back[s]` | `states[s].back`, in order |
| `best` | `best[error]`, a function on the errors whose `from_state` is set |
| `cur` = `st, bi, ti, mi` | the loop variables `state`, `back`, `transition`, `match`; `mi = 0` is the jump that comes before the matches |
| `getPrefix` | lines up to the search and the initial path; `Len(back[0]) > 1` says that a request has failed |
| `process_jump`, `process_match` | the functions of that name for one transition, one match |
| `NextTransition`, `NextBack`, `NextState` | the ends of the loop bodies; `NextBack` also for a path that is given up |
| `Answer`, `Fail` | the rest of `getPrefix`: with the clearing, and the early return without it |

A definition called a *Mutant* is a plausible wrong version of the one after it.
It is used nowhere; it is there to be put in the place of the right one, and
then the run must find the property violated.

## 3. Runs

All sizes are chosen so that every action, pruning, replacement of a path,
jumping, failed requests followed by longer ones, and a second sentence happen.

| Run | Instance | Properties and what they show |
|---|---|---|
| `weighted` | two graphs, prefixes of up to three tokens that only grow, 1 failed request, jump limits 2 (a restriction) and 10 (none here, as is the default of 10000) | `TypeOK`; `BackLinked` (a recorded path can be followed back); `ScoreLinked` (its score is that of what it came from, plus the phrase); `NoRivals`; `JumpsBounded` (no path leaves out more phrases than the limit allows); `Settled` (what the loop has reached does not change); `KeepsPromise` (refines `BestCompletion`: the answer is one worth most, whatever failed before; claimed where the limit does not cut runs of jumps short, since a path within the limit may be displaced by a better one at it); `Answered` (every request is, liveness) |
| `weighted_space` | as `weighted`, two tokens | *violated*, see 6 |
| `searches` | seven classes, each with two or three graphs and prefixes of up to three tokens (letters: four); 1 failed request, 2 for the searches by number of errors | `TypeOK` (for every class, with links that can be followed back, and nothing of the last sentence left) and the properties below, named after the class |
| | CaitraSearchGraph | `PlainKeepsPromise` (refines `BestCompletion` without jumps); `PlainAnswered` (liveness) |
| | CaitraWithWindow, the code's window of 3 | `WindowFindsFewest` (laying phrase after phrase with open tokens finds the fewest errors of whole translations); `WindowKeepsPromise` |
| | CaitraWordVec, its three methods, one stop word, words more and less similar, one object for all sentences, two orders of the lexicon | `VectorKeepsPromise` (pruning by value and keeping a single completion lose nothing) |
| | MainCaitra, ModifiedCaitra, CaitraWithJump | `LevelProcessedIsFinal` (a path is final before the pass for its number of errors); `LevelNeverInVain` (something is found within as many errors as there are tokens, whenever one phrase can be laid against the whole prefix at once); `LevelKeepsPromiseWhenClear` (the answer has fewest errors, then the highest score, as long as no request has failed) |
| | ECModelSearchGraph | `ECChoiceIsBest` (costs carried along are the true edit distances, and the choice made by them is the best) |
| `errors_stale` | ModifiedCaitra, 1 failed request | *violated*: without the exception, see 6 |
| `ec_suffix` | ECModelSearchGraph | *violated*, see 6 |
| `learner` | all pairs of texts of up to three words over an alphabet with a three-byte letter, for judging; two sentences with lists of two out of three translations, two features, three rules and two metrics, for learning | `NoWorseThanTyping`; `CostsRight` (the table over words, with an unfinished last one, is the true distance, and so are the word errors); `LearnsTheOracle` (an update brings what costs least nearer to what was preferred, or leaves the order of all translations as it is) |
| `session` | three sentences, references of 2, 1 and 2 letters; the network keeps messages apart, merges them or cuts them anywhere | `NotStuck`; `AnswersMatch`; `ObjectsExist`; `LearnsBeforeNext`; `KeepsDialogue` (refines `Dialogue`); `Completes` (liveness) |
| `create_graph` | all lattices of up to four hypotheses over two source words, all orders of the list | `GraphAsAssumed`; `SameTranslations` (exactly the decoder's derivations); `ForwardIsBest` |
| `decoder` | all sentences of four words with up to two zones, four sets of walls, with and without punctuation, distortion limits none and 0 to 3; four scored sentences of three words under sixteen settings of pruning, diversity, lists and timeout | `NoDeadEnd` (the limits on reordering leave a way on from wherever they let one go); `ConstraintsHold` (walls and zones are kept, whatever the order of the checks); `PruningJust` (what a stack refuses is outside the beam or bettered by enough others); `GraphSound` (predecessors and arcs are where the graph and the list look for them, and the finished stacks satisfy `LatticeOK`, which `CreateGraph` starts from: decoder, graph and searches fit together); `FindsBest` (without pruning the best of all derivations is found, though hypotheses are recombined); `ListRight` (the n-best list has the n best derivations, each once, in order, or the n best surfaces) |
| `decoder_discard` | the settings with early discarding | *violated*, see 6 |
| `batch` | three threads, up to four sentences, reading that may fail, queue limit none and 1, two collectors | `OnePlace` (a sentence is in one place: nothing runs twice or is lost); `TranslationsMove` (an output is kept only while one before it is missing); `PutsOutInOrder` (refines `OrderedOutput`); `Finishes` (the program ends, liveness) |
| `batch_lost` | two threads, a sentence without translation | *violated*, see 6 |

Bounds, all of them constants of an instance:

* `MaxFailures`, failed requests in a row. One suffices to leave paths behind;
  a second one finds leftovers of the first. The searches do not count them.
* `MaxTokens`, tokens in a prefix. Two make a phrase end in the middle of the
  prefix, three let two phrases do so with competing ways in between.
* The graphs: `Diamond` has two ways of different length to a state and parallel
  transitions; `Chain` is long enough for a run of jumped phrases and has two
  ends; `LongPhrases` has phrases longer than a prefix; `Unaware` (in
  `MCSearchObject`) lacks a word that a prefix may then add to the lexicon.
* `Growing` is `TRUE` in the runs: the client of the repository only extends a
  prefix. The proofs cover both values, and say where they differ (`PromiseKept`).
* Decoder instances: four words are enough for two zones to be nested, apart or
  crossed with a wall inside, and for a gap that is too far behind; three words
  with up to six options give up to six hypotheses per coverage, and stacks of
  one or two make every kind of pruning happen. `Infinity` stands for no limit.
* Batch instances: three threads leave one with the last task while two race for
  the end; four sentences let two outputs wait for a third. `NoTask` is NULL.
* Learner instance: two features suffice for translations to be apart, equal or
  opposed, two sentences for the weights of one update to be the start of the
  next. `Clip = 1`, `Damping = 3` stand for 1000 and 100 and keep the fractions
  within TLC's integers; with them and the vectors chosen both bounds of
  `RunMIRA`'s step occur.
* `MaxRead`, pieces that a read can hold: smaller than what may be on the way.

`CHECK_DEADLOCK FALSE` is used where the program ends: `learner`,
`create_graph` and `session` (`decoder` and `batch` have an explicit last step
instead; a session with merged messages may also stop for
good, which `NotStuck` is about).

## 4. Fairness

* `weighted`, and CaitraSearchGraph in `searches`: `WF_vars(Step)`. The search is a loop in a single thread,
  which nothing but the operating system suspends. Requests and new sentences
  are not fair: users may stop.
* `session`: `WF_vars(Client)` and `WF_vars(Server)`, one for each process. Weak
  fairness is enough because a read, once something has arrived, stays possible
  until it is done. `Completes` claims an end only for connections that keep
  messages apart.
* `batch`: weak fairness for the main thread and for each thread of the pool.
  Each is a thread of the operating system. A step that waits is not one of
  them: a waiting thread steps again only when it is notified (or wakes for no
  reason, which is modelled and not fair), so `Finishes` relies on no
  notification that the code does not send. Reading may end or fail at any point
  and must end some time, which `MaxInputs` sees to.

Everything else is safety and needs none.

## 5. Proofs

### The deployed search

`WeightedCaitraProofs` proves about the deployed search, for every vocabulary,
every set of graphs that `DecoderGraph` admits, all requests, error weights and
jump limits (`JumpLens`), and *any* matching of phrases that consumes at least one token:

* `TypeCorrect`, `BackAlwaysLinked`, `NeverRivals`: `Spec => []...` for `TypeOK`,
  `BackLinked`, `NoRivals`;
* `SettledStates`: the action property `Settled`;
* `ScoresLinked`: `ScoreLinked`.

The assumptions are those of the modules: `GraphsAssumption` (which is what
`GraphAlwaysAsAssumed` proves of `createGraph`), `RequestsAssumption`,
`NumbersAssumption`, and `MatchesAssumption`, that a match consumes a token and
no more than there are. TLC evaluates all of them on the instances.

None of these invariants is inductive alone. The inductive invariant is

    IInv == TypeOK /\ Quiet /\ Open /\ BackLinked /\ NoRivals

* `Quiet`: between requests there are no completions and the loop is at its
  start; without it a new request could begin with a completion that the new
  prefix does not know.
* `Open`: every recorded path has a token left to match, also with the *next*
  prefix, which is why prefixes must not shrink.
* `BackLinked` needs `NoRivals`: when a path is overwritten in place, every link
  to it must still find a path of that situation; it does because the new one
  has the same key. It also needs that a transition leads to a later state, so
  that what is overwritten is not what is being read.
* `Settled` follows from the same: a step changes only the paths of the state
  the transition leads to, which is later than the loop.

`ScoreLinked` needs one thing more: that in a search from a cleared graph a path
is only linked to by states the loop has passed (`Fresh`). Then overwriting it
cannot orphan a descendant. After a failed search this is false, and so is
`ScoreLinked`, which is why it is stated for `Len(back[0]) = 1`.

Each proof has one lemma per action (`InitStep`, `NewSentenceStep`,
`RequestStep`, `JumpStep`, `MatchStep`, `PositionStep`, `FailStep`,
`AnswerStep`). The two steps that record a path share the lemma `Extend`, which
rests on `RecordShape`: recording leaves every path in place or puts the new one
there, and appends at most that.

### The deployed search keeps its promise

`WeightedCaitraProofs` also proves that the search implements `BestCompletion`, step by step:

* `PromiseKept`: a request is answered with a completion worth most, or with none
  if there is none, wherever `jumpLenThreshold >= graph.n`, so that the limit cuts no
  run of jumps short (the default is 10000). This holds for every request that
  finds the search cleared (the first one for a sentence, and every one after an
  answer), and, while the user only extends what was typed (`Growing`), also for one
  that finds what any number of failed requests have left;
* `PromiseAlwaysKept`: `Spec => KeepsPromise` where the user only extends, or where no
  request follows a failed one for the same sentence (`MaxFailures = 0`). Without either
  it is false, see 6;
* `JumpsStayBounded`: from a cleared graph `JumpsBounded` holds, for any limit.

To the assumptions above come four more, which TLC evaluates on the instances too:

* `ErrorWeight <= 0` (an error is no gain; the server passes -0.5), without which
  pruning would be wrong;
* `MinScoreAssumption`: no completion is worth as little as the value the search
  starts with (-1000000 in the code);
* `MatchesDifferAssumption`: of the matches of one phrase that leave some of the prefix
  open, no two consume the same number of tokens (`string_edit_distance` makes one
  per column of its cost table);
* `WholeMatchesAssumption`: what matches before the last token of a prefix depends
  neither on that token nor on what is typed after it (only the last token may be the
  beginning of a word). It is what makes old paths worth something for the next request.

The invariant is

    LoopInv == IInv /\ (Fresh /\ ScoreLinked) /\ SInv /\ HInv /\ Unanswered
    SInv    == Begun /\ Exact /\ Topped /\ Short /\ Shaped /\ Rested /\ Worthwhile /\ Explored

* `Exact`: a completion is what `process_match` would make of the path that is *now*
  where it says it came from.
* `Topped`: the value used for pruning is that of a recorded completion.
* `Explored`: for every position the loop has passed, what is made there is
  recorded, or something as good is, or it is hopeless because its forward score
  plus its own is below the best completion. At the end of the loop it gives
  `NothingBetter`, by induction over the ways from a state backwards from the end of
  the graph.
* `Short` bounds the run of jumps by the number of transitions, which is where
  `jumpLenThreshold >= graph.n` is used. `Begun`, `Shaped`, `Rested` and `Worthwhile`
  are what the others need of the form of a path and of the loop's position.

The converse of `NothingBetter` is that nothing is offered that does not exist: every
path that may matter (`HopefulExact`) is one that `process_jump` or `process_match`
makes of the path that is now where it says it came from, so that it is a way of
`BestCompletion` (`PathsAreWays`, `EndsAreWays`). From a cleared graph this holds at
every step. After a failed search it does not: the new search replaces an old path by
one worth the same, and what was made of the old one by jumping stays, linked to
a path it was not made of. It holds again when the loop is through, for a reason
that spans two searches:

* `Fixed` is what a failed search leaves. Every path is one the loop makes
  (`AllOffered`); whatever the loop makes is recorded, or something as good
  (`AllKept`); and what is recorded for a situation was the last offer of its
  worth (`AllLast`). By `FixedStands`, all three stand for the next request, if it
  goes on where the last one has stopped.
* `Grown` relates the search that runs to what it has found. An old path stays in
  its place, at most replaced by one with the same key and worth (`Inherited`,
  since by `AllKept` nothing better is made); what replaced it is made by the loop
  (`Renewed`); and what is recorded is the last of its worth among what the loop has
  passed (`LastSoFar`).
* The new search makes the same offers in the same order. So when it has come past
  everything, the last offer for a situation has won again: if that was the old
  path, it is back (`SettledPaths`), and so is what it was made of
  (`SettledOffered`, by induction over the states; `HistoryExact`).
* `HInv` says that `Grown` holds in a search for some `old`, and `Fixed` after a failed
  one; `RequestHistory`, `JumpHistory`, `MatchHistory`, `MoveHistory` and
  `FailHistory` are its steps.

`PromiseStep` puts both directions together.

### Graph construction

`CreateGraphProofs` proves all three properties of the run `create_graph`, for
every lattice the decoder may leave (`LatticesAssumption`: `LatticeType` and
`LatticeOK`) and every order of the node list:

* `GraphAlwaysAsAssumed` (`GraphAsAssumed`): the finished graph is one that
  `DecoderGraph` admits. This discharges `GraphsAssumption` of the searches.
* `TranslationsAlwaysSame` (`SameTranslations`): the ways through the graph are the
  decoder's derivations, those of recombined hypotheses included, and no others.
* `ForwardAlwaysBest` (`ForwardIsBest`): the words along the forward pointers are
  worth the forward score.

The inductive invariant is

    IInv == Typed /\ StackByStack /\ Numbered /\ StatesRight

`StackByStack`: nodes are handled in the order of the words they cover. `Numbered`:
`hypId2stateId` numbers the winners that were handled, one to one and in the order
of what they cover (and by `Typed` `recombination` leads from each loser to its
winner).
`StatesRight`: a state has a transition for each hypothesis made from its own, and
is resolved or not yet. Hence no reference is looked up through a missing entry,
where `operator[]` would silently give the empty hypothesis (`Numbered` says that
what a pointer names is there by then). The theorem about derivations goes through
`Chains`, sequences of hypotheses that lead from one to the end, which are
prefixed one hypothesis at a time on both sides. The forward score of a state is
the largest sum of the gains on the ways from it, since it is computed from the
states after it, which come later in the order.

### The batch program

`BatchProofs` proves, for any set of threads, any number of sentences, any limits
of the queue (also none) and any first number, of the program with its two
collectors:

* `TypeCorrect`; `OnePlaceEach` and `KeptWithReason`, for the invariants
  `OnePlace` and `TranslationsMove` of the run `batch` (the latter, as the refinement
  below, where the numbers begin with 0: with another first number nothing is written);
* `ImplementsOrderedOutput`: `Spec => PutsOutInOrder`, the refinement of
  `OrderedOutput` for the first number 0. Every step is a sentence accepted, a gapless run of outputs put
  out, the end, or nothing a user sees.

The assumption is `InputsAssumption`: the bounds are naturals, the numbers of all
sentences lie within `Last`, and `NoTask` is none of them. The inductive invariant is

    IInv == TypeOK /\ Queued /\ Running /\ KeptAhead /\ Written /\ Somewhere /\ Stopping

and its idea is one number, `Taken`, the first sentence that is still in the
queue (`lineCount - Len(m_tasks)`). `Queued`: the queue holds the numbers from
`Taken` on, in order. `Running`: what runs is below `Taken`, no two threads run
the same, and it is neither written nor kept. `Written` and `KeptAhead`: what is
out is `0 .. m_nextOutput - 1` and what is kept lies between `m_nextOutput` and
`Taken`. `Somewhere` is the converse: every number below `Taken` is out, kept or
running, so nothing is lost. `Stopping` is needed for the end: `m_stopped` is set
after the queue was drained unless reading has failed, so that a thread that sees
it leaves no task behind.

The proof has a lemma for each way in which sentences move: `Submitted` (into the
queue), `TakenOne` (to a thread), `BestKept` and `BestWritten` (to the collector
or the file, with everything that follows it there); all other steps move none
(`Quiet`).

### The session

`SessionProofs` proves all safety properties of the run `session`, for any number
of sentences, any lengths of references and any messages that may be cut:

* `TypeCorrect` and `NeverWithoutObjects` (`ObjectsExist`) for every delivery, the
  one that cuts messages anywhere included;
* `AnswersAlwaysMatch`, `AlwaysLearnsBeforeNext`, `NeverBothWait` (`NotStuck`) and
  `ImplementsDialogue` (`KeepsDialogue`, the refinement of `Dialogue`).

Besides `SessionAssumption` the second group assumes `MaxRead >= 4`: a read has
room for two messages of two pieces, all that can have arrived (the buffer has
5000 bytes; the model's cuts are at most one per message). It is needed: with less
room a read cuts a message by itself. `NeverBothWait` also assumes that no source
and no reference is empty, since an empty one puts nothing on the wire and both
sides then wait, which the model shows.

`ObjectsExist` rests on `Objects`: while nothing is made, the server is at its
command with nothing written back, and all that can be on its way to it is
`new_sentence`, in pieces; so no other command can be recognised. The other
theorems rest on

    IInv == TypeOK /\ (Uncut => Phase /\ Offered /\ LearntSoFar)

* `Phase` lists where client and server can be together, and what is in the two
  streams then. At most two messages are ever in one stream: a source with the
  command after it, or an `ok` with the answer to an empty prefix. The first pair
  read as one makes both wait (`Lost`); the second leaves the client without an
  answer, which it takes for an empty one.
* `Offered`: an answer the client holds is for its sentence, and while it compares,
  for its prefix.
* `LearntSoFar`: one pair per finished sentence, and the weights a sentence was
  decoded with are as many as the sentences before it.

That a merged text is no single message, that a read of one message returns it,
and that a read of two returns the first or both are lemmas of their own
(`TwoNotOne`, `ReadOne`, `ReadTwo`); each action has one (`AskPhase`, ...).

### The decoder

`DecoderProofs` proves five of the six properties of the run `decoder`, for every
sentence with any walls, zones and punctuation, every set of options and every
setting of the limits, pruning, diversity, lists, early discarding and timeout:

* `ConstraintsAlwaysHold` (`ConstraintsHold`): a hypothesis that is extended keeps
  the walls and has no zone that was begun, left and not finished;
* `NeverADeadEnd` (`NoDeadEnd`): some option can always follow until the sentence
  is covered, if zones are nested or apart;
* `GraphAlwaysSound` (`GraphSound`): stacks and arcs are a graph without loose ends,
  and in the end one as `CreateGraph` takes for granted (`LatticeOK`). This
  discharges `LatticesAssumption`;
* `PruningAlwaysJust` (`PruningJust`): what a stack refuses is outside the beam or
  bettered by as many as it may hold;
* `BestAlwaysFound` (`FindsBest`): a search that reaches no limit ends with the best
  of all derivations.

Assumptions. `CasesAssumption`: options lie within the sentence, every word has an
option of its own (`ProcessUnknownWord` sees to that), zones are spans.
`SettingsAssumption` and `LanguageModelAssumption`: settings and scores are
numbers, sizes are not 0. `NoHypothesisAssumption`: the sentinel is no hypothesis.
`InfinityAssumption`: the bound is a number. `BeamAssumption`: the beam threshold
is less than 1, so that its logarithm is negative; with 1 or more pruning drops
even the best hypothesis (see 6), and `PruningJust` is false.

**Constraints and dead ends.** The inductive invariant is

    IInv == InputsKept /\ StacksSound /\ HypothesisSound

`InputsKept`: the constraint in force is that of the sentence. `StacksSound` and
`HypothesisSound`: what is on any stack, and what is being extended, meets the
constraints and is within reach of its first gap (`Reaches`); the extensions still
to be made are among those `Extends` allows.

* `ExtensionMeets`: a phrase that `Extends` allows leads from a hypothesis that
  meets the constraints to one that does. `Check` looks at the first gap, the last
  covered word and the phrase only; `FirstGap` and `LastPos` say what these tell
  about all words, and from them follow `GlobalWallKept`, `LocalWallKept` (walls
  inside a zone) and `ZoneNotLeft`, the last one by the ways in which a phrase and a
  zone can lie (`ZoneCases`).
* The operations of a stack (`PruneTakesAway`, `CleanupKeeps`, `AddAddsOne`,
  `AddPruneAddsOne`) only take hypotheses away or add the one just built, whatever
  the scores are.
* `ReachKept`: the two limits that `TooFar` asks for keep the words covered, the end
  of the last phrase and the end of every half done zone within the distortion
  limit of the first gap. Constraints alone are not enough for a way on: this is
  what is needed besides.
* `SomeWordMayFollow` names the word that can follow: the first gap, or the first
  missing word of the innermost zone that is half done. `FinalizedWell` is what
  makes a wall no obstacle there: the walls made final are local to the innermost
  zone around them.

**The search graph.** On top of `IInv`, `LinksInvariance` proves `LinksSound`:

* `StackGood`: no two hypotheses of a stack are recombinable; an arc can be
  exchanged for its hypothesis, which is no worse; all cover as many words as the
  stack is for.
* `Linked`: what a hypothesis or arc was made from is on its stack, and that stack
  is done or at hand; and it is not made a second time. On the stack at hand
  hypotheses are visited in the order of `RecombineLess`, so what was made came from
  an earlier one, or from the one at hand by an option that is no longer to do.
  Without this a recombination loser could come back and an arc belong to two
  hypotheses.

Then the graph of the finished search is a lattice: `Number` tells hypotheses apart
and grows with them; the recursion of `Connected`, from the last stack back, finds
a predecessor on each earlier stack; every hypothesis listed but the complete ones
is the predecessor of another; and arcs gain no more than their hypothesis.

**Pruning.** `JustStack` is the invariant of a stack:

* `BestThere`: the best score is that of a hypothesis still there;
* `WorstEarned`: the worst score lies below the beam, or there is a set `K` of as
  many hypotheses as the stack may hold (`Enough`) that are at least as good, but
  for hypotheses of a coverage of which `K` has no more than are to be kept. A set,
  not the stack itself, since a hypothesis may be replaced by a better one
  (exchanged in `K`), and since with diversity the hypotheses kept for their
  coverage may be worse than the worst score. When a stack is cut `K` is chosen to
  lose the fewest, and exchanged one by one for what the cut keeps (`CutJust`);
* `DiversityEarned`: the same for each coverage.

`CutIs` says what `PruneToSize` leaves, by cases of whether the best ones or the
diverse ones fill the stack, and `CutJust`, `InsertedJust`, `AddPruneJust` and
`CleanupJust` that each operation keeps `JustStack`.

**The best translation.** `FindsBest` is about searches that reach no limit
(`Unpruned`: time is not up, early discarding is off, and the partial translations
of every number of words fit on a stack and lie within the beam of each other).
Even then hypotheses are dropped: of those that can be recombined only one stays.

* `SameFuture` says why nothing is lost: two hypotheses that compare equal
  (`RecombineKey`: the words covered, the end of the last phrase, the last word of
  the translation) allow the same next phrases, and what a next phrase adds to the
  score is the same for both. So whatever follows
  one may follow the other, for the same gain.
* `BestKept` is the invariant, `AllKept` for the stacks as they are: every extension
  of a hypothesis on a stack is still to be made (`Due`), or is `Kept`: on its stack
  is a hypothesis that compares equal and is no worse. Adding to a stack keeps what
  is there or replaces it by something no worse (`AddPruneKeeps`), and the pruning
  removes nothing within the limits (`NothingCut`).
* At the end nothing is due, and by induction over the partial translations
  (`PartialsInduction`, whose set is defined by recursion) each of them is
  represented (`AllRepresented`). That there is a complete one is proved too
  (`SomeTranslation`): word by word, from left to right.

### The searches by number of errors

`SearchProofs` proves about MainCaitra, ModifiedCaitra and CaitraWithJump, as the
server's search object and with the edit distance as it is, for every set of graphs,
all requests and any number of failed ones:

* `NeverInVain` (`LevelNeverInVain`): each of the three finds something within as
  many errors as the prefix has tokens if one phrase from the empty hypothesis can be
  laid against the whole prefix at once (`EndsAtOnce`), whatever failed requests have
  left. For MainCaitra that is every phrase: it answers with a `Best` that was never
  written only if the decoder delivered none. For the other two the phrase needs,
  among as many words as the prefix has tokens, one the prefix may end with. After a
  space that is any, so that no request with a final space fails as long as there is a
  phrase; else it is one that the last token may begin, so that requests fail only for
  tokens that no such phrase continues. That they do fail then, if no later phrase
  helps either, is how the code behaves, and is what `MaxFailures` bounds;
* `ProcessedIsFinal` (`LevelProcessedIsFinal`, an action property): a path is not
  replaced, and no path comes to stand beside it, once the pass for its number of
  errors has come to its state.

The assumptions are those of `DecoderGraph`, and `ClassesAssumption` about the sets
of graphs and prefixes. The inductive invariant `LevelInv` says the types, that back
links lead to recorded paths (`PathsIn`, `EndsIn`), that every recorded path has a
token left to match (`OpenIn`), and that nothing is left of the loop between
requests (`Restful`); it has that part of `SearchObject!TypeOK` that is about these
classes among its parts (`LevelTyped`).

* For `NeverInVain` it is strengthened by `Hopeful`: in the first pass and at the
  empty hypothesis, a phrase of `EndsAtOnce` or the match of it that consumes the
  whole prefix is still to come (`ToCome`), or a completion is recorded, with no fewer
  errors than the present pass and no more than there are tokens (`Came`). That there
  is such a match is a fact about the edit distance (`LenientReaches` and
  `StrictReaches`): a row of the table is bounded by the number of tokens as long as
  no more words of the phrase are taken than there are tokens (`CostsBounded`), and
  the strict one lists all places where it may end (`AllEnds`).
* `ProcessedIsFinal` follows from two facts: what is recorded has at least as many
  errors as the pass, and lies at a later state (`RecordedLater`); and recording
  replaces a path only by one with fewer errors or a higher score at equal ones, so
  that what is replaced was not processed either.

### The search over letters

`SearchProofs` also proves `ChoiceAlwaysBest` (`ECChoiceIsBest`), for all graphs in
which a hypothesis extends an earlier one by a transition between the two
(`EC!GraphsAssumption`) and all prefixes: every cost that the breadth-first search
leaves with a state is the edit distance between the prefix and the whole text of the
state's way, up to that letter, and the state and the alignment chosen are worth most
of all. The first part compares with `Distance`, which is defined by pairings and
knows neither tables nor states. The inductive invariant is `ECInv`:

* `CostsAt`, for every state that is marked: the row left for the states after it
  (`FullRow`) and the costs of the letters of its last phrase (`CostsIn`) are those of
  its whole text. `CarriedOn` is the reason that this is kept: a table that is begun
  with the last row of the table for a text, instead of 0, 1, 2, ..., goes on like
  the table for that text with the phrase after it; with `RowsCarried` once for the
  space and once for the phrase (`CostsFollow`). A new link changes no text of a
  state that is marked already, since the way to it is marked, too (`WholeSame`).
* `Reached` and `Followed`: with a state the one before it is marked, and the states
  that extend a marked one are marked or the marked one is still in the queue. When
  the queue is empty all states are marked (`AllMarked`).
* `Chosen`: among the states looked at so far nothing is worth more.

The choice tries one alignment per state, the first with the fewest errors, and is
right only if more errors are never worth more. This is the hypothesis `ErrorsCost`.
It is what the code's numbers give for prefixes of up to 199 letters; see section 6
for longer ones.

### The weighted search without jumps

`SearchProofs` proves `PlainPromiseKept` (`PlainKeepsPromise`): CaitraSearchGraph
implements `BestCompletion`. Every request, *also one that finds what failed requests
have left behind*, is answered with a completion worth most of all ways through the
graph, or with none if there is none, for all graphs, prefixes and negative prices of
errors. The assumptions are those of `DecoderGraph`, `NumbersAssumption`, and
`MinScoreAssumption`: no completion is worth as little as the value that `best_Score`
starts with (-1000000 in the code). The inductive invariant is

    PlainInv == PlainTyped /\ PlainOpen /\ PlainLeads
                /\ (pc = "search" => Topped /\ PlainEnds /\ PlainExplored
                                     /\ PlainBegun /\ PlainAt)

* `PlainLeads`, about every recorded path: whatever is typed next, as long as the
  tokens that the path has matched stay what they are, any way on from its state,
  added to the path, is a way from the beginning. The invariants of the deployed
  search speak of the link from a path to the one it was made from. Here that would
  not do: the earlier path may since have been replaced by a better one, in this
  request or in one before. What lies behind a path is needed only as the *ways* it
  stands for, and those do not change. With every new request `PlainLeads` carries
  over since a request continues the one before, all but its last token, and a path
  has a token left to match (`PlainOpen`). It rests on `MatchStands`: a match that
  does not consume the prefix is a match for every prefix that begins with the same
  tokens, whatever comes after them and whether or not a space is typed.
* `PlainEnds`: a completion of this request is the end of a way, so nothing is
  offered that does not exist; `Topped`: `best_Score` is the worth of one.
* `PlainExplored` is the converse. Of every path and transition the loop has come by,
  the path was given up, and nothing made of it is worth more than `best_Score`
  (`WaysBounded`: no way scores more than the forward score); or each match has led
  to a path with as much worth, or to a completion with no more than `best_Score`.
  From it `NothingBeats` follows, by induction backwards from the last state, and with
  the path that every request begins with (`PlainBegun`) that no way is worth more.

### The learner

`LearnerProofs` proves all three properties of the run `learner`, for all texts,
lists of translations, features, lessons, rules and metrics:

* `HelpNeverHarms` (`NoWorseThanTyping`): with the system's help a user needs at most
  one action more than there are letters or, for a reference with letters of several
  bytes, as many as it has bytes. It is claimed for all texts, whatever the encoding
  (`BytesAssumption`: a text has no more letters than bytes);
* `CostsAreDistances` (`CostsRight`): the table that is carried from prefix to prefix
  holds the least edit distance between the words of a translation and those typed,
  the unfinished one finished in the best way; and the cost of a translation under
  WER is its distance to the reference;
* `UpdatesLearn` (`LearnsTheOracle`): an update leaves the order as it is when the
  decoder's best costs least, and else brings one that costs least nearer to it.

`TextsAssumption` says that texts are not empty and have no empty word,
`LessonsAssumption` that translations and references are texts, `WeightsAssumption`
and `NumbersAssumption` that the numbers are numbers. `UpdatesLearn` has one
hypothesis more, `Rate > 1 \/ "Perceptron" \notin Methods`: the rate is one part in
`Rate`, and with a learning rate of 1 the perceptron keeps nothing of the old weights
and with them no order. The server's is 0.2 (`CAT-Server.cpp:285`). The inductive
invariant is

    IInv == lessons \in Seq(Lesson) /\ m_method \in Methods
            /\ weights \in [num : Vectors, den : Nat \ {0}] /\ Judged
            /\ (pc # "idle" => ref \in Texts /\ Ranked(nBestList, weights))
            /\ (pc \in {"typing", "done"} => Counted /\ Trying)

* `Counted`: keys and mouse actions together are never more than the position in the
  reference, which passes the end by one at most or is within the number of bytes.
* `Judged`: the costs are those of the first so many translations, and under WER they
  are the distances; `Trying`: what is typed for is a listed translation with the
  space that `getBestSuffix` puts at its end; `Ranked`: the list begins with the
  decoder's best.

`CostsAreDistances` has three steps. *Words*: where the spaces of a text are, so that
the words of a text and a space are the words of the text (`SpaceAddsSpace`,
`SpaceAddsWord`, `FilledText`). *Table*: `Extremes` proves that a table of edit costs
holds in each cell the least cost of a pairing, a set of pairs of positions that do
not cross (`WordCostsLeast`); `Distance`, the reference, is defined by pairings and
has no table in it. *The unfinished word*: the table counts it as equal to every word
it begins, the reference lets it be finished to any one word: one pairing uses it
once, so both are the same (`FinishedNoNearer`, `FinishedAsNear`).

`UpdatesLearn` is about three rules. The lead that a translation has over the
decoder's best is the inner product of the weights with the difference of their
features. It is linear (`NewLead`), so that a rule which adds a multiple of a
direction to the weights adds that multiple of the direction's product with the
difference. For MIRA and PA2 the direction is the difference itself, for the
perceptron its signs; both products are positive unless the features are equal
(`ProductPositive`). It remains to see that the multiple is positive, or that the
rule did not fire since the order was right (`MIRAMoves`, `PA2Moves`).

### Induction over data

The provers cannot instantiate the library's induction theorems, which take an
operator as a parameter. `Extremes` states induction for sets instead
(`Induction`: a set of naturals with 0 and the successors of its members has all
of them; `StrongInduction`), from the fact that a set of naturals has a smallest
element (`WFMin`), and `Recursion`, that a recursive function satisfies its
equation when its value depends on smaller arguments only. A proof gives the set
`{n \in Nat : ...}` and uses one of the two. What the proofs need of recursive
functions and folds (`ForwardWords`, `Paths`, the future scores, sorting a stack,
the numbers of hypotheses, `Connected`, `Jumps`, `Partials`) is obtained in this way.
`SortedLists`, `SearchGraph`, the tables of `EditDistance` and `StringEditDistance`
(functions on pairs, filled in the order of their sum), `MatchEnds`, `Spaces` and
`Filled` are written as functions for the same reason. `Extremes` states what such
forms compute once for all of them: `TableEquation` and `LeastCost` for tables,
`GatheringEquation` for lists that are gathered one position at a time.

### What is only model-checked

* `JumpsBounded` after failed requests.
* Of the other searches: that the searches by number of errors answer with a
  completion of fewest errors (`LevelKeepsPromiseWhenClear`), all properties of
  CaitraWithWindow and CaitraWordVec, and with them `SearchObject!TypeOK` as a
  whole. (Of it, `LevelTyped` and `PlainTyped` are proved as parts of invariants.)
* The decoder's `ListRight`: it compares with all derivations and with the order in
  which deviations are made.
* All liveness: fairness and `ENABLED` are out of the provers' reach.

## 6. Findings and observations

Five runs refute what the repository says about the code:

1. `weighted_space`: the set of words that the last token may begin is recomputed
   only when no space follows the token (`WeightedCaitraWithJump.cpp:120`) but is
   used in both cases (539-541). After "a " the word "ab" still stands for "a" at
   no cost, if "a" was asked for before.
2. `errors_stale`: in ModifiedCaitra a failed search leaves `best[error]` set for
   more errors than its prefix has tokens. A longer prefix allows that many, and
   is answered with a completion that matches the shorter one only.
3. `ec_suffix`: `getBestSuffix` follows `forward` but takes the phrase of the
   forward state's *best backward* transition. Where hypotheses were recombined
   that one starts elsewhere, and the answer is on no path of the graph.
4. `decoder_discard`: with early discarding switched on, `ExpandHypothesis` builds
   the hypothesis "without scoring" (`SearchNormal.cpp:318`) and never scores it.
   Everything on the stacks has the score 0 and is recombined by coverage alone.
5. `batch_lost`: the alignment of a sentence goes to its collector only if there
   is a translation (`moses-cmd/Main.cpp:308`). After a sentence without one the
   alignments of all later sentences are kept until the program ends and are
   never written.

Observed while modelling, with no run of their own:

* Two messages that are written back to back (source and next command,
  `CAT-Client.cpp:27` and 41) and read as one leave both sides waiting: the
  command is taken for part of the source. `NeverStuck` in `Session` says this
  cannot happen; it holds only for connections that keep messages apart, which is
  what `NotStuck` states.
* With prefixes that are changed rather than extended, old paths left by a
  failed weighted search make the answer worse than promised (`Growing = FALSE`
  and `KeepsPromise`).
* A zone whose "span" attribute lies beyond the end of the sentence is accepted:
  `XmlOption.cpp:290` asks only that it has a word. It can then never be
  finished, and the sentence has no translation; `NoDeadEnd` excepts such zones
  (`WellNested`).
* `--jumpLen 0` still lets a path leave out one phrase (line 408 tests only
  further ones), hence `Max({1, jumpLenThreshold})` in `JumpsBounded`.
* `CaitraWordVec` stores similarities in alphabetical order of the words and
  looks them up by word number (`CaitraWordVec.cpp:173` and 605, 615):
  `SimilaritiesRight` does not hold unless words come up in alphabetical order.
  A prefix word that is new to the lexicon shifts them, and a failed request
  then leaves paths with prices that no longer hold; `VectorKeepsPromise` excepts
  this.
* `CaitraWordVec` subtracts the error weight where the other classes add it, but
  the server passes all of them the same number, -0.5 unless told otherwise
  (`CAT-Server.cpp:286` and 529). With it an error is a gain, and
  `VectorKeepsPromise` fails; the runs give `CaitraWordVec` a positive weight.
* `ECModelSearchGraph` looks at the alignment with the fewest errors only, and weighs
  its errors with the logarithm of a binomial term (`editdistance.h:114-125`). With an
  error probability of 0.005 one error is worth more than none as soon as the prefix
  has 200 letters (there are so many places for it), and the choice need not be the
  best then. `ErrorsCost`, the hypothesis of the proof, excepts such prefixes.
* The window search may report more errors than its answer has, and it may miss
  one with more errors that is worth more, because it gives up paths with more
  errors than the best completion so far. `WindowKeepsPromise` claims no more.
* `GetKSMR` ends its loop at the length in bytes and counts in letters, so that it
  may count a key for each byte more; and the learner's `getBestSuffix` omits the
  space after the last letter of a word. `NoWorseThanTyping` bounds what the first
  adds and allows for the second.
* In back-off methods 4 and 5 the assignment `totalScore = bestNGramScore;`
  (`CAT-Server.cpp:808`) is the wrong way round: a word that the language model
  proposes never raises the bar, so that the last acceptable one is offered and
  not the best. The back-off is not modelled.
* `RunPerceptron` takes signs for as many indices as there are core and sparse
  features together (`OnlineLearner.cpp:333`, `FVector::size`), but the index is
  one of core features: it reads past their end when a translation has sparse
  features, and those are never brought to signs. The model has core features.
* In `TERCalc.cpp:431` all non-empty words are equal, so that TER is the
  difference of the lengths over the length of the reference.

Hazards that no property covers, each with its line:

* Server: an empty prefix makes `getPrefix` index before the string
  (`WeightedCaitraWithJump.cpp:115`; the client never sends one, and
  `RequestsAssumption` excludes it). When the client goes away without `close`,
  every read returns the empty text and the loop spins (`CAT-Server.cpp:558`).
  With both search graph and n-best list on, `nbestSearch` is NULL when the list
  is stored (`TranslationTask.cpp:181`).
* Decoder, numbers: `GetIDPlus` takes the position after the added span for the
  first gap even if it is covered (`WordsBitmap.h:233`; modelled as it is, and it
  matters only with early discarding). `m_minHypoStackDiversity` is shifted by
  the distortion limit, which is -1 when there is none
  (`HypothesisStackNormal.cpp:78`). With a beam threshold of 1 or more the beam width is 0 or
  more (`StaticData.cpp:352`) and pruning drops even the best hypothesis
  (line 194); `BeamAssumption` excludes it. With lattice samples but no n-best list arcs are cut
  at one before their beginning (`Hypothesis.cpp:337`).
* Decoder, time: when time is up before the first stack is done, the best
  hypothesis is read from a pointer that was never set (`SearchNormal.cpp:66`);
  after any interruption the stacks that were not cleaned up have arcs without a
  winning hypothesis, which `TrellisPath.cpp:46` follows. `moses-cmd` resets the
  timer between sentences only if it is verbose (`Main.cpp:725`).
* Decoder, zones: zones that cross each other are accepted
  (`ReorderingConstraint.cpp:97`) and may leave no way on; `NoDeadEnd` is about
  zones that are nested or apart.
* Batch: with a first number other than 0 (`Main.cpp:723`) nothing is written at
  all, since collectors wait for number 0; the properties are stated for 0.
  `Submit` looks at `m_stopping` only before it waits (`ThreadPool.cpp:70`); no
  program submits from a thread other than the one that stops the pool. No program
  calls `SetQueueLimit`; both limits are checked all the same.

## 7. Abstractions and what is not modelled

* Words are model values, and what the code asks of their letters is a relation:
  `PartOf` (a proper beginning, ignoring case). Where letters matter
  (`ECModelSearchGraph`, `KeyStrokes`) texts are sequences of them.
* Scores and weights are integers; the floating-point numbers of the code are
  compared and added only. Prices are in fractions of `Unit`, and `ErrorWeight`
  keeps the sign it has in the respective class. Scores are above -999 and
  phrases are not empty, as the decoder delivers them.
* The layout of the answer is left out: what it completes and which words follow
  are kept. Whether jumped words come before or after the others is decided by
  a language model, here a free choice.
* `max_time` is 0 in every constructor, so that no search stops early; the
  optional matching modes (approximate, suffix-insensitive,
  case-insensitive, last-word window) are off in every constructor and left out.
* MainCaitra reads an unwritten `Best` when the decoder delivered no phrase at
  all: undefined, not modelled (`NeverInVain` says when it does not happen).
  In that situation `forward[0]` is 0, which `operator[]` puts there
  (`Manager.cpp:660`), where the model has -1; no phrase leaves the empty hypothesis
  then, nothing is completed, and no property depends on it.
* `Session` abstracts texts to what they are about, keeps one connection, and
  takes the search's answer, or that of the back-off, as one message.
* Learner: features are integers and weights exact fractions, where the code has
  floating point; `sqrt` is rounded up to an integer, so that it is 0 only for 0.
  The list of translations comes sorted from the decoder and is not empty. BLEU
  (logarithms) and TER are left out, and with them OldMira.
* Not modelled: the numerical optimiser behind OldMira (Hildreth), and pure input
  and output. The n-best search's calls are commented
  out. For `CreateGraph` the decoder's hypotheses are an input, constrained by
  `LatticeOK`; that the decoder's own satisfy it is `GraphSound`, checked on the
  sentences of run `decoder` and proved for all.
* Decoder: a target phrase is one word or none, the features are a distortion
  cost, a bigram model and the options' own scores. Scores of minus infinity, word
  lattices and confusion networks, continued partial translations, the early
  distortion cost and the language model's end of sentence are left out, and
  `nBestFactor` 0 (which stands for 1000 in one place and no limit in another).
  How options are found in a phrase table is an input (`Cases`); every word has
  an option, as `ProcessUnknownWord` sees to.
* Batch: a task is its number, an output is the number too. Whether a sentence
  has a translation is a free choice. Exceptions other than one while reading are
  not modelled.
* Of the rest of the repository (chart decoding, phrase tables, language models,
  training scripts, vendored build tools) nothing is modelled: data structures
  and file formats, other decoders, or not part of the running system.

## 8. Plan

Done: the deployed search with its abstract specification; the graph it stands
on; the session; all other searches behind one search object; the learner with
the rules but OldMira; the stack decoder with reordering constraints and n-best
list, and its composition with the search graph; the batch program with its
thread pool. Proved: the chain from the decoder (constraints, no dead ends, sound
graph, pruning) over graph construction to the promise of the deployed search;
that the batch program implements an ordered output and the session the
dialogue; the best translation found where no limit is reached; the learner's user,
metrics and rules; two of the three properties of the searches by number of errors;
the choice of the search over letters; the promises of the deployed search and of the
weighted search without jumps, both also after failed requests.

Next, in this order:

1. Proofs: the promise of `ErrorLevelSearch` when no request has failed, from
   `ProcessedIsFinal`.
2. `JumpsBounded` after failed requests: the length of the run of jumps along paths
   that two searches have made.
3. TER and BLEU as pure algorithms against their definitions.
4. The back-off (`CAT-Server.cpp:670-846`) as the second stage of an answer.
