-------------------------- MODULE SearchNormal --------------------------
(***************************************************************************)
(* The decoder's search: stack by stack every hypothesis is extended by    *)
(* every translation option that may come next, and what comes out goes to *)
(* the stack for the number of words it covers.  One step prunes a stack,  *)
(* picks a hypothesis, or makes one extension.                             *)
(***************************************************************************)
EXTENDS HypothesisStackNormal

CONSTANT NoHypothesis

ASSUME NoHypothesisAssumption == NoHypothesis \notin Seq(Nat)

VARIABLES
  m_hypoStackColl,   \* 0 .. size -> stack
  iterStack,         \* the stack at hand; size + 1: the search is over
  iterHypo,          \* its hypothesis at hand, or NoHypothesis
  todo,              \* the options it is still to be extended with
  actual_hypoStack,  \* the last stack that was done, NOT_FOUND: not set
  interrupted_flag

searchVars ==
  << m_hypoStackColl, iterStack, iterHypo, todo, actual_hypoStack, interrupted_flag >>

SearchInit ==
  \E c \in Cases :
    /\ source = c.source /\ param = c.param
    /\ m_reorderingConstraint = Constraint(source)
    /\ m_futureScore = FutureScoreMatrix(source)
    /\ m_hypoStackColl = [k \in 0 .. source.size |->
                            IF k = 0 THEN Inserted(EmptyStack, EmptyHypothesis, {})
                                     ELSE EmptyStack]
    /\ iterStack = 0 /\ iterHypo = NoHypothesis /\ todo = {}
    /\ actual_hypoStack = NOT_FOUND /\ interrupted_flag = FALSE

Over == iterStack > source.size \/ interrupted_flag

-------------------------------------------------------------------------
(* ProcessOneHypothesis: the options that may come next.                   *)
MayExtend(h, i) ==
  ~IsComplete(h)
  /\ Option(i).to - Option(i).from < param.maxPhraseLength
  /\ Extends(m_reorderingConstraint, GetWordsBitmap(h), source.size, LastEnd(h),
             Option(i).from, Option(i).to, param.maxDistortion)

Extensions(h) == { i \in DOMAIN source.options : MayExtend(h, i) }

(* The next hypothesis is the first of some in the order of the set. *)
Visit(hypos) ==
  IF hypos = {}
    THEN /\ iterHypo' = NoHypothesis /\ todo' = {}
         /\ actual_hypoStack' = iterStack
         /\ iterStack' = iterStack + 1
    ELSE /\ \E h \in hypos :
              /\ \A g \in hypos \ {h} : RecombineLess(h, g)
              /\ iterHypo' = h
              /\ todo' = Extensions(h)
         /\ UNCHANGED << actual_hypoStack, iterStack >>

(* A stack is cut back before its hypotheses are extended. *)
StartStack ==
  /\ ~Over /\ iterHypo = NoHypothesis
  /\ \E s \in PruneToSize(m_hypoStackColl[iterStack], param.maxHypoStackSize) :
       \E t \in CleanupArcList(s) :
         /\ m_hypoStackColl' = [m_hypoStackColl EXCEPT ![iterStack] = t]
         /\ Visit(Hypos(t))
  /\ UNCHANGED << inputVars, interrupted_flag >>

(* Decoding is out of time. *)
TimeOut ==
  /\ param.hasTimeout
  /\ ~Over /\ iterHypo = NoHypothesis
  /\ interrupted_flag' = TRUE
  /\ UNCHANGED << inputVars, m_hypoStackColl, iterStack, iterHypo, todo, actual_hypoStack >>

NextHypothesis ==
  /\ ~Over /\ iterHypo # NoHypothesis /\ todo = {}
  /\ Visit({ h \in Hypos(m_hypoStackColl[iterStack]) : RecombineLess(iterHypo, h) })
  /\ UNCHANGED << inputVars, m_hypoStackColl, interrupted_flag >>

(* Early discarding: what the hypothesis may come to is compared with what *)
(* its stack allows at the moment. *)
NotBuilt(h, i) ==
  LET o       == Option(i)
      covered == GetWordsBitmap(h) \cup o.from .. o.to
      stack   == m_hypoStackColl[Cardinality(covered)]
      allowed == IF param.minHypoStackDiversity = 0
                   THEN stack.m_worstScore
                   ELSE Min({stack.m_worstScore,
                             GetWorstScoreForBitmap(stack,
                               GetIDPlus(GetWordsBitmap(h), o.from, o.to))})
  IN  /\ EarlyDiscarding
      /\ GetScore(h) + CalcFutureScore(covered) + o.score
           < allowed + param.earlyDiscardingThreshold

(* The options are taken in the order of their spans, in which the list of *)
(* options is given. *)
ExpandHypothesis ==
  /\ ~Over /\ todo # {}
  /\ LET i == Min(todo)
         h == Append(iterHypo, i)
         k == Cardinality(GetWordsBitmap(h))
     IN  /\ IF NotBuilt(iterHypo, i)
              THEN UNCHANGED m_hypoStackColl
              ELSE \E s \in AddPrune(m_hypoStackColl[k], h) :
                     m_hypoStackColl' = [m_hypoStackColl EXCEPT ![k] = s]
         /\ todo' = todo \ {i}
  /\ UNCHANGED << inputVars, iterStack, iterHypo, actual_hypoStack, interrupted_flag >>

SearchNext == StartStack \/ TimeOut \/ NextHypothesis \/ ExpandHypothesis
=========================================================================
