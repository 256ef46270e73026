---------------------------- MODULE NBestList ----------------------------
(***************************************************************************)
(* The n-best list (Manager::CalcNBest): from the stacks and the arcs of   *)
(* the search the best paths are taken one after the other.  A path that   *)
(* is taken leaves its deviations, each with one hypothesis replaced by an *)
(* arc, among the contenders.                                              *)
(*                                                                         *)
(* A path is a record [m_path, m_prevEdgeChanged]: its hypotheses from the *)
(* last to the empty one, and the index of the one replaced last (0: none, *)
(* the path is a hypothesis of the last stack with its predecessors).      *)
(***************************************************************************)
EXTENDS SearchNormal

VARIABLES
  listing,     \* "not begun", "running" or "done"
  contenders,  \* a sequence of paths, sorted
  ret,         \* the list
  iteration

listVars == << listing, contenders, ret, iteration >>

ListInit ==
  listing = "not begun" /\ contenders = << >> /\ ret = << >> /\ iteration = 0

(* A hypothesis and its predecessors. *)
Backwards(h) == [i \in 1 .. Len(h) + 1 |-> SubSeq(h, 1, Len(h) + 1 - i)]

(* The stack a hypothesis is on, or whose arc it is. *)
StackOf(h) == m_hypoStackColl[Cardinality(GetWordsBitmap(h))]

(* SetWinningHypo, as CleanupArcList left it. *)
GetWinningHypo(h) ==
  CHOOSE w \in Hypos(StackOf(h)) : h = w \/ h \in StackOf(h).m_hypos[w]

GetArcList(h) == IF h \in Hypos(StackOf(h)) THEN StackOf(h).m_hypos[h] ELSE {}

(* What the path says: the options in the order of translation. *)
Options(p) == LET edges == Front(p.m_path) IN [i \in DOMAIN edges |-> Last(Reverse(edges)[i])]
GetSurfacePhrase(p) ==
  SelectSeq([i \in DOMAIN Options(p) |-> Option(Options(p)[i]).out], LAMBDA w : w # 0)

(* InitScore: the last winner's score, corrected for each hypothesis that  *)
(* is not a winner. *)
PathScore(p) ==
  GetTotalScore(GetWinningHypo(p.m_path[1]))
    + MapThenSumSet(LAMBDA i : GetTotalScore(p.m_path[i])
                                 - GetTotalScore(GetWinningHypo(p.m_path[i])),
                    DOMAIN p.m_path)

CreateDeviantPaths(p) ==
  UNION { { [m_path |-> SubSeq(p.m_path, 1, i - 1) \o Backwards(arc), m_prevEdgeChanged |-> i]
            : arc \in GetArcList(p.m_path[i]) }
          : i \in p.m_prevEdgeChanged + 1 .. Len(p.m_path) }

(* The paths in order, those that come later behind their equals. *)
Insert(sorted, p) ==
  LET before == Cardinality({ i \in DOMAIN sorted : PathScore(sorted[i]) >= PathScore(p) })
  IN  InsertAt(sorted, before + 1, p)

InsertAll(sorted, paths) ==
  { FoldLeft(Insert, sorted, q) : q \in SortedLists(paths, PathScore) }

Prune(sorted, newSize) == SubSeq(sorted, 1, Min({newSize, Len(sorted)}))

StartList ==
  /\ Over /\ listing = "not begun"
  /\ listing' = "running"
  /\ \E q \in BestFirst(Hypos(m_hypoStackColl[source.size])) :
       contenders' = [i \in DOMAIN q |-> [m_path |-> Backwards(q[i]), m_prevEdgeChanged |-> 0]]
  /\ UNCHANGED << inputVars, searchVars, ret, iteration >>

Surfaces == { GetSurfacePhrase(ret[i]) : i \in DOMAIN ret }

Wanted ==
  /\ Len(ret) < param.nBestSize
  /\ contenders # << >>
  /\ iteration < param.nBestSize * param.nBestFactor

NextBest ==
  /\ listing = "running" /\ Wanted
  /\ LET path == Head(contenders)
     IN  /\ ret' = IF param.distinctNBest /\ GetSurfacePhrase(path) \in Surfaces
                     THEN ret ELSE Append(ret, path)
         /\ \E q \in InsertAll(Tail(contenders), CreateDeviantPaths(path)) :
              contenders' = Prune(q, IF param.distinctNBest
                                       THEN param.nBestSize * param.nBestFactor
                                       ELSE param.nBestSize)
  /\ iteration' = iteration + 1
  /\ UNCHANGED << inputVars, searchVars, listing >>

EndList ==
  /\ listing = "running" /\ ~Wanted
  /\ listing' = "done"
  /\ UNCHANGED << inputVars, searchVars, contenders, ret, iteration >>

ListNext == StartList \/ NextBest \/ EndList
=========================================================================
