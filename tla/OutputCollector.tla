------------------------- MODULE OutputCollector -------------------------
(***************************************************************************)
(* Class OutputCollector: brings the outputs of tasks, which end in any    *)
(* order, into the order of their numbers.  An output that comes too early *)
(* is kept until all before it have come.  An output is stood for by its   *)
(* number; the debug texts go the same way as the outputs.                 *)
(***************************************************************************)
EXTENDS Integers, Sequences

CONSTANTS
  Collectors,  \* the collectors of a program
  Last         \* bound: the highest number of an output

VARIABLES
  m_nextOutput,
  m_outputs,   \* the numbers of the outputs that are kept
  m_outStream  \* what has been written

collectorVars == << m_nextOutput, m_outputs, m_outStream >>

CollectorInit ==
  /\ m_nextOutput = [c \in Collectors |-> 0]
  /\ m_outputs = [c \in Collectors |-> {}]
  /\ m_outStream = [c \in Collectors |-> << >>]

(* The numbers from .. to, in order. *)
Count(from, to) == [i \in 1 .. to - from + 1 |-> from + i - 1]

(* With output n the kept ones up to number `to` can be written. *)
Follow(c, n, to) ==
  /\ n + 1 .. to \subseteq m_outputs[c]
  /\ to + 1 \notin m_outputs[c]

(* The expected output is written, with those that were waiting for it. *)
WriteNow(c, sourceId) ==
  /\ sourceId = m_nextOutput[c]
  /\ \E to \in sourceId .. Last :
       /\ Follow(c, sourceId, to)
       /\ m_nextOutput' = [m_nextOutput EXCEPT ![c] = to + 1]
       /\ m_outputs' = [m_outputs EXCEPT ![c] = @ \ (sourceId + 1 .. to)]
       /\ m_outStream' = [m_outStream EXCEPT ![c] = @ \o Count(sourceId, to)]

WriteLater(c, sourceId) ==
  /\ sourceId # m_nextOutput[c]
  /\ m_outputs' = [m_outputs EXCEPT ![c] = @ \cup {sourceId}]
  /\ UNCHANGED << m_nextOutput, m_outStream >>

(* Mutant of Write: outputs that wait are left to wait. *)
WriteOne(c, sourceId) ==
  \/ WriteLater(c, sourceId)
  \/ /\ sourceId = m_nextOutput[c]
     /\ m_nextOutput' = [m_nextOutput EXCEPT ![c] = @ + 1]
     /\ m_outStream' = [m_outStream EXCEPT ![c] = Append(@, sourceId)]
     /\ UNCHANGED m_outputs

Write(c, sourceId) == WriteNow(c, sourceId) \/ WriteLater(c, sourceId)

CollectorTypeOK ==
  /\ m_nextOutput \in [Collectors -> Nat]
  /\ m_outputs \in [Collectors -> SUBSET (0 .. Last)]
  /\ m_outStream \in [Collectors -> Seq(0 .. Last)]
=========================================================================
