--------------------------- MODULE BatchProofs ---------------------------
(***************************************************************************)
(* Proofs about the batch decoder, for any number of threads and of        *)
(* sentences, any limit of the queue, and any first number.                *)
(*                                                                         *)
(* The numbers start .. Taken - 1 have been taken from the queue, which    *)
(* holds Taken .. lineCount - 1 in order.                                  *)
(***************************************************************************)
EXTENDS BatchTranslation, SequenceTheorems, TLAPS

Taken == lineCount - Len(m_tasks)

Next0 == m_nextOutput["translation"]
Kept  == m_outputs["translation"]
Out   == m_outStream["translation"]

Queued ==
  /\ start <= Taken
  /\ \A i \in DOMAIN m_tasks : m_tasks[i] = Taken + i - 1

Running ==
  /\ \A w \in Threads : worker[w] = "run" =>
       task[w] \in start .. Taken - 1 /\ task[w] \notin Kept /\ Next0 <= task[w]
  /\ \A v, w \in Threads : worker[v] = "run" /\ worker[w] = "run" /\ task[v] = task[w] => v = w

KeptAhead == \A id \in Kept : id \in start .. Taken - 1 /\ Next0 < id

Written ==
  /\ Len(Out) = Next0 /\ \A i \in 1 .. Next0 : Out[i] = i - 1
  /\ Next0 <= Taken
  /\ start > 0 => Next0 = 0

Somewhere ==
  \A id \in start .. Taken - 1 :
    id < Next0 \/ id \in Kept \/ \E w \in Threads : worker[w] = "run" /\ task[w] = id

Stopping ==
  /\ m_stopped => owner \in {"tell", "join", "gone"}
  /\ owner \in {"halt", "tell", "join", "gone"} /\ input = "end" => m_tasks = << >>

IInv == TypeOK /\ Queued /\ Running /\ KeptAhead /\ Written /\ Somewhere /\ Stopping

-------------------------------------------------------------------------
(* NULL is not a task. *)
LEMMA NoTaskIsNone == NoTask \notin 0 .. Last
BY InputsAssumption

(* The initial state. *)
LEMMA InitIInv == Init => IInv
<1> SUFFICES ASSUME Init PROVE IInv
  OBVIOUS
<1> USE DEF Init, PoolInit, CollectorInit
<1>0. start \in Nat /\ start + MaxInputs <= Last /\ MaxInputs \in Nat /\ Last \in Nat
  BY InputsAssumption
<1>1. PoolTypeOK(0 .. Last)
  <2>1. m_tasks \in Seq(0 .. Last)
    OBVIOUS
  <2>2. QED
    BY <2>1 DEF PoolTypeOK, WorkerStates, OwnerStates
<1>2. CollectorTypeOK
  BY DEF CollectorTypeOK
<1>3. TypeOK
  BY <1>0, <1>1, <1>2 DEF TypeOK
<1>4. "translation" \in Collectors
  BY InputsAssumption
<1>5. Taken = start /\ Next0 = 0 /\ Kept = {} /\ Out = << >>
  BY <1>0, <1>4 DEF Taken, Next0, Kept, Out
<1>6. QED
  BY <1>0, <1>3, <1>5 DEF IInv, Queued, Running, KeptAhead, Written, Somewhere, Stopping
-------------------------------------------------------------------------
(* Types: the steps of the pool, of the collectors, and all of them. *)
PoolUnchanged == UNCHANGED poolVars

(* Every step of the pool keeps its types, whatever its tasks are. *)
LEMMA PoolTypes ==
  ASSUME NEW Tasks, PoolTypeOK(Tasks),
         \/ PoolUnchanged
         \/ SubmitWaits \/ Drain \/ Halt \/ Tell \/ Join \/ Stop(TRUE) \/ Stop(FALSE)
         \/ WakeOwner
         \/ \E w \in Threads : Wait(w) \/ Find(w) \/ Notify(w) \/ Loop(w) \/ Delete(w)
                                \/ WakeWorker(w)
         \/ \E t \in Tasks : Submit(t)
  PROVE  PoolTypeOK(Tasks)'
<1> USE DEF PoolTypeOK, WorkerStates, OwnerStates, Available, Needed
<1>1. CASE PoolUnchanged
  BY <1>1 DEF PoolUnchanged, poolVars
<1>2. CASE SubmitWaits \/ Drain \/ Halt \/ Join \/ Stop(TRUE) \/ Stop(FALSE) \/ WakeOwner
  BY <1>2 DEF SubmitWaits, Drain, Halt, Join, Stop, WakeOwner
<1>3. CASE Tell
  BY <1>3 DEF Tell
<1>4. ASSUME NEW w \in Threads, Wait(w) \/ Notify(w) \/ Loop(w) \/ Delete(w) \/ WakeWorker(w)
      PROVE  PoolTypeOK(Tasks)'
  BY <1>4 DEF Wait, Notify, Loop, Delete, WakeWorker
<1>5. ASSUME NEW w \in Threads, Find(w)
      PROVE  PoolTypeOK(Tasks)'
  <2>1. Take(w)
    BY <1>5 DEF Find
  <2>2. CASE ~m_stopped /\ m_tasks # << >>
    <3>1. Head(m_tasks) \in Tasks /\ Tail(m_tasks) \in Seq(Tasks)
      BY <2>2
    <3>2. QED
      BY <2>1, <2>2, <3>1 DEF Take
  <2>3. CASE ~(~m_stopped /\ m_tasks # << >>)
    BY <2>1, <2>3, <1>5 DEF Take, Find
  <2>4. QED
    BY <2>2, <2>3
<1>6. ASSUME NEW t \in Tasks, Submit(t)
      PROVE  PoolTypeOK(Tasks)'
  BY <1>6 DEF Submit
<1>7. QED
  BY <1>1, <1>2, <1>3, <1>4, <1>5, <1>6

(* OutputCollector::Write keeps the collectors' types. *)
LEMMA WriteTypes ==
  ASSUME CollectorTypeOK, NEW c \in Collectors, NEW id \in 0 .. Last, Write(c, id)
  PROVE  CollectorTypeOK'
<1> USE DEF CollectorTypeOK
<1>0. Last \in Nat
  BY InputsAssumption
<1>1. CASE WriteLater(c, id)
  BY <1>1 DEF WriteLater
<1>2. CASE WriteNow(c, id)
  <2>1. PICK to \in id .. Last :
          /\ m_nextOutput' = [m_nextOutput EXCEPT ![c] = to + 1]
          /\ m_outputs' = [m_outputs EXCEPT ![c] = @ \ (id + 1 .. to)]
          /\ m_outStream' = [m_outStream EXCEPT ![c] = @ \o Count(id, to)]
    BY <1>2 DEF WriteNow
  <2>2. Count(id, to) \in Seq(0 .. Last)
    BY <1>0 DEF Count
  <2>3. m_outStream[c] \o Count(id, to) \in Seq(0 .. Last)
    BY <2>2
  <2>4. QED
    BY <1>0, <2>1, <2>3
<1>3. QED
  BY <1>1, <1>2 DEF Write
(* What the bounds on the numbers come to. *)
LEMMA Bounds ==
  ASSUME TypeOK
  PROVE  /\ start \in Nat /\ lineCount \in Nat /\ MaxInputs \in Nat /\ Last \in Nat
         /\ start <= lineCount /\ lineCount <= start + MaxInputs /\ start + MaxInputs <= Last
         /\ "translation" \in Collectors /\ "alignment" \in Collectors
BY InputsAssumption DEF TypeOK

(* The task of a thread that runs one is a number. *)
LEMMA TaskType ==
  ASSUME TypeOK, Running, NEW w \in Threads, worker[w] = "run"
  PROVE  task[w] \in 0 .. Last
<1>1. task[w] \in start .. Taken - 1 /\ Len(m_tasks) \in Nat
  BY DEF Running, TypeOK, PoolTypeOK
<1>2. QED
  BY <1>1, Bounds DEF Taken

(* Every step of the program keeps the types. *)
LEMMA TypeStep ==
  ASSUME TypeOK, Running, [Next]_vars
  PROVE  TypeOK'
<1> USE DEF TypeOK
<1>1. CASE UNCHANGED vars
  BY <1>1 DEF vars, poolVars, collectorVars, PoolTypeOK, CollectorTypeOK
<1>2. CASE ReadAndSubmit
  <2>1. lineCount \in 0 .. Last /\ lineCount + 1 \in start .. start + MaxInputs
    BY <1>2, Bounds DEF ReadAndSubmit, InputsLeft
  <2>2. PoolTypeOK(0 .. Last)'
    BY <1>2, <2>1, PoolTypes DEF ReadAndSubmit
  <2>3. QED
    BY <1>2, <2>1, <2>2 DEF ReadAndSubmit, collectorVars, CollectorTypeOK
<1>3. CASE ReadAndWait \/ EndOfInput \/ BadInput \/ Owner \/ Spurious
  <2>1. PoolTypeOK(0 .. Last)'
    BY <1>3, PoolTypes DEF ReadAndWait, EndOfInput, BadInput, Owner, Spurious
  <2>2. QED
    BY <1>3, <2>1 DEF ReadAndWait, EndOfInput, BadInput, Owner, Spurious,
                      collectorVars, CollectorTypeOK
<1>4. ASSUME NEW w \in Threads, Execute(w)
      PROVE  TypeOK'
  <2>1. CASE /\ Wait(w) \/ Find(w) \/ Notify(w) \/ Loop(w)
             /\ UNCHANGED << collectorVars, start, lineCount, input, found >>
    <3>1. PoolTypeOK(0 .. Last)'
      BY <2>1, PoolTypes
    <3>2. QED
      BY <2>1, <3>1 DEF collectorVars, CollectorTypeOK
  <2>2. CASE ProcessSentence(w)
    <3>1. PoolTypeOK(0 .. Last)'
      BY <2>2, PoolTypes DEF ProcessSentence, PoolUnchanged
    <3>2. QED
      BY <2>2, <3>1 DEF ProcessSentence, collectorVars, CollectorTypeOK
  <2>3. CASE OutputAlignment(w)
    <3>1. PoolTypeOK(0 .. Last)'
      BY <2>3, PoolTypes DEF OutputAlignment, PoolUnchanged
    <3>2. CollectorTypeOK'
      BY <2>3, WriteTypes, TaskType, Bounds DEF OutputAlignment
    <3>3. QED
      BY <2>3, <3>1, <3>2 DEF OutputAlignment
  <2>4. CASE OutputBest(w)
    <3>1. PoolTypeOK(0 .. Last)'
      BY <2>4, PoolTypes DEF OutputBest
    <3>2. CollectorTypeOK'
      BY <2>4, WriteTypes, TaskType, Bounds DEF OutputBest
    <3>3. QED
      BY <2>4, <3>1, <3>2 DEF OutputBest
  <2>5. QED
    BY <1>4, <2>1, <2>2, <2>3, <2>4 DEF Execute, Run
<1>5. QED
  BY <1>1, <1>2, <1>3, <1>4 DEF Next, Main, Ended
-------------------------------------------------------------------------
(* Steps that leave the tasks where they are. *)
SameTasks ==
  /\ UNCHANGED << m_tasks, task, start, lineCount >>
  /\ \A w \in Threads : worker'[w] = "run" <=> worker[w] = "run"

SameOutput == Next0' = Next0 /\ Kept' = Kept /\ Out' = Out

TasksOK == Queued /\ Running /\ KeptAhead /\ Written /\ Somewhere

(* What leaves tasks and outputs where they are keeps what is known of     *)
(* them.                                                                   *)
LEMMA Quiet ==
  ASSUME TasksOK, SameTasks, SameOutput
  PROVE  TasksOK'
<1> USE DEF SameTasks, SameOutput
<1>1. Taken' = Taken
  BY DEF Taken
<1>2. Queued' /\ KeptAhead' /\ Written'
  BY <1>1 DEF TasksOK, Queued, KeptAhead, Written
<1>3. Running' /\ Somewhere'
  BY <1>1 DEF TasksOK, Running, Somewhere
<1>4. QED
  BY <1>2, <1>3 DEF TasksOK

(* A task is submitted: it is the last in the queue. *)
LEMMA Submitted ==
  ASSUME IInv, ReadAndSubmit
  PROVE  TasksOK'
<1> USE DEF IInv, TasksOK
<1>0. /\ m_tasks \in Seq(0 .. Last) /\ lineCount \in Nat /\ start \in Nat
      /\ m_tasks' = Append(m_tasks, lineCount) /\ lineCount' = lineCount + 1
      /\ UNCHANGED << task, start >>
  BY Bounds DEF ReadAndSubmit, Submit, TypeOK, PoolTypeOK
<1>1. Taken' = Taken
  BY <1>0 DEF Taken
<1>2. Queued'
  BY <1>0, <1>1 DEF Queued, Taken
<1>3. SameOutput
  BY DEF ReadAndSubmit, SameOutput, Next0, Kept, Out, collectorVars
<1>4. \A w \in Threads : worker'[w] = "run" <=> worker[w] = "run"
  BY DEF ReadAndSubmit, Submit, Needed, TypeOK, PoolTypeOK
<1>5. KeptAhead' /\ Written'
  BY <1>0, <1>1, <1>3 DEF SameOutput, KeptAhead, Written
<1>6. Running' /\ Somewhere'
  BY <1>0, <1>1, <1>3, <1>4 DEF SameOutput, Running, Somewhere
<1>7. QED
  BY <1>2, <1>5, <1>6

(* A thread takes the first task of the queue: it is number Taken. *)
LEMMA TakenOne ==
  ASSUME IInv, NEW w \in Threads, Find(w), ~m_stopped, m_tasks # << >>,
         UNCHANGED << collectorVars, start, lineCount, input, found >>
  PROVE  TasksOK'
<1> USE DEF IInv, TasksOK
<1>0. /\ m_tasks \in Seq(0 .. Last) /\ lineCount \in Nat /\ start \in Nat
      /\ worker[w] # "run"
      /\ task' = [task EXCEPT ![w] = Head(m_tasks)]
      /\ m_tasks' = Tail(m_tasks)
      /\ worker' = [worker EXCEPT ![w] = "run"]
      /\ worker \in [Threads -> WorkerStates] /\ DOMAIN task = Threads
  BY Bounds DEF Find, Take, TypeOK, PoolTypeOK
<1>1. Head(m_tasks) = Taken /\ Taken \in Nat /\ start <= Taken /\ Taken < lineCount
  BY <1>0 DEF Queued, Taken
<1>2. Taken' = Taken + 1
  BY <1>0 DEF Taken
<1>3. Queued'
  BY <1>0, <1>1, <1>2 DEF Queued
<1>4. SameOutput
  BY DEF SameOutput, Next0, Kept, Out, collectorVars
<1>5. Next0 \in Nat /\ Kept \subseteq 0 .. Last
  BY Bounds DEF TypeOK, CollectorTypeOK, Next0, Kept
<1>6. KeptAhead' /\ Written'
  BY <1>0, <1>1, <1>2, <1>4, <1>5 DEF SameOutput, KeptAhead, Written
<1>7. Running'
  <2>1. ASSUME NEW v \in Threads, worker'[v] = "run"
        PROVE  /\ task'[v] \in start .. Taken /\ task'[v] \notin Kept /\ Next0 <= task'[v]
               /\ v # w => worker[v] = "run" /\ task'[v] = task[v] /\ task[v] \in start .. Taken - 1
    <3>1. CASE v = w
      BY <3>1, <1>0, <1>1, <1>5 DEF KeptAhead, Written
    <3>2. CASE v # w
      BY <3>2, <2>1, <1>0, <1>1, <1>5 DEF Running
    <3>3. QED
      BY <3>1, <3>2
  <2>2. ASSUME NEW u \in Threads, NEW v \in Threads, worker'[u] = "run", worker'[v] = "run",
               task'[u] = task'[v]
        PROVE  u = v
    BY <2>1, <2>2, <1>0, <1>1 DEF Running
  <2>3. QED
    BY <2>1, <2>2, <1>1, <1>2, <1>4 DEF SameOutput, Running
<1>8. Somewhere'
  <2>1. ASSUME NEW id \in start .. Taken
        PROVE  id < Next0 \/ id \in Kept \/ \E v \in Threads : worker'[v] = "run" /\ task'[v] = id
    <3>1. CASE id = Taken
      BY <3>1, <1>0, <1>1
    <3>2. CASE id # Taken
      <4>1. id \in start .. Taken - 1
        BY <3>2, <1>0, <1>1
      <4>2. QED
        BY <4>1, <1>0 DEF Somewhere
    <3>3. QED
      BY <3>1, <3>2
  <2>2. QED
    BY <2>1, <1>1, <1>2, <1>4 DEF SameOutput, Somewhere
<1>9. QED
  BY <1>3, <1>6, <1>7, <1>8
-------------------------------------------------------------------------
(* A translation is handed over too early: it is kept. *)
LEMMA BestKept ==
  ASSUME IInv, NEW w \in Threads, OutputBest(w), WriteLater("translation", task[w])
  PROVE  TasksOK'
<1> USE DEF IInv, TasksOK
<1>0. /\ worker[w] = "run" /\ task' = [task EXCEPT ![w] = NoTask]
      /\ worker' = [worker EXCEPT ![w] = "notify"]
      /\ UNCHANGED << m_tasks, start, lineCount >>
      /\ worker \in [Threads -> WorkerStates] /\ DOMAIN task = Threads
  BY DEF OutputBest, Delete, TypeOK, PoolTypeOK
<1>1. Taken' = Taken /\ Queued'
  BY <1>0 DEF Taken, Queued
<1>2. task[w] # Next0 /\ Next0' = Next0 /\ Out' = Out /\ Kept' = Kept \cup {task[w]}
  BY Bounds DEF WriteLater, Next0, Out, Kept, TypeOK, CollectorTypeOK
<1>3. /\ Next0 \in Nat /\ start \in Nat /\ Taken \in Int
      /\ task[w] \in start .. Taken - 1 /\ Next0 <= task[w]
  BY <1>0, Bounds DEF Running, TypeOK, CollectorTypeOK, PoolTypeOK, Next0, Taken
<1>4. Written' /\ KeptAhead'
  BY <1>0, <1>1, <1>2, <1>3 DEF Written, KeptAhead
<1>5. \A v \in Threads : worker'[v] = "run" => v # w /\ worker[v] = "run" /\ task'[v] = task[v]
  BY <1>0
<1>6. Running'
  BY <1>0, <1>1, <1>2, <1>5 DEF Running
<1>7. Somewhere'
  <2>1. \A v \in Threads : v # w => worker'[v] = worker[v] /\ task'[v] = task[v]
    BY <1>0
  <2>2. ASSUME NEW id \in start .. Taken - 1
        PROVE  \/ id < Next0 \/ id \in Kept \cup {task[w]}
               \/ \E v \in Threads : worker'[v] = "run" /\ task'[v] = id
    BY <2>1 DEF Somewhere
  <2>3. QED
    BY <2>2, <1>0, <1>1, <1>2 DEF Somewhere
<1>8. QED
  BY <1>1, <1>4, <1>6, <1>7

(* The translation that is due is handed over: it is written, with the     *)
(* ones up to number `to` that were waiting for it.                        *)
LEMMA BestWritten ==
  ASSUME IInv, NEW w \in Threads, OutputBest(w), WriteNow("translation", task[w])
  PROVE  /\ TasksOK' /\ start = 0
         /\ Next0 < Next0' /\ Next0' <= Taken
<1> USE DEF IInv, TasksOK
<1>0. /\ worker[w] = "run" /\ task' = [task EXCEPT ![w] = NoTask]
      /\ worker' = [worker EXCEPT ![w] = "notify"]
      /\ UNCHANGED << m_tasks, start, lineCount >>
      /\ worker \in [Threads -> WorkerStates] /\ DOMAIN task = Threads
  BY DEF OutputBest, Delete, TypeOK, PoolTypeOK
<1>1. Taken' = Taken /\ Queued'
  BY <1>0 DEF Taken, Queued
<1>2. /\ Next0 \in Nat /\ start \in Nat /\ Taken \in Int /\ Last \in Nat
      /\ task[w] = Next0 /\ Next0 \in start .. Taken - 1
      /\ Kept \subseteq 0 .. Last /\ Out \in Seq(0 .. Last)
  BY <1>0, Bounds
     DEF Running, TypeOK, CollectorTypeOK, PoolTypeOK, Next0, Kept, Out, Taken, WriteNow
<1>3. start = 0
  BY <1>2 DEF Written
<1>4. PICK to \in Next0 .. Last :
        /\ Next0 + 1 .. to \subseteq Kept /\ to + 1 \notin Kept
        /\ Next0' = to + 1 /\ Kept' = Kept \ (Next0 + 1 .. to)
        /\ Out' = Out \o Count(Next0, to)
  <2>1. PICK k \in task[w] .. Last :
          /\ Follow("translation", task[w], k)
          /\ m_nextOutput' = [m_nextOutput EXCEPT !["translation"] = k + 1]
          /\ m_outputs' = [m_outputs EXCEPT !["translation"] = @ \ (task[w] + 1 .. k)]
          /\ m_outStream' = [m_outStream EXCEPT !["translation"] = @ \o Count(task[w], k)]
    BY DEF WriteNow
  <2>2. Next0' = k + 1 /\ Kept' = Kept \ (task[w] + 1 .. k) /\ Out' = Out \o Count(task[w], k)
    BY <2>1, Bounds DEF Next0, Kept, Out, TypeOK, CollectorTypeOK
  <2>3. task[w] + 1 .. k \subseteq Kept /\ k + 1 \notin Kept
    BY <2>1 DEF Follow, Kept
  <2>4. QED
    BY <2>1, <2>2, <2>3, <1>2
<1>5. to < Taken
  <2>1. CASE to = Next0
    BY <2>1, <1>2
  <2>2. CASE to # Next0
    <3>1. to \in Kept
      BY <2>2, <1>2, <1>4
    <3>2. QED
      BY <3>1, <1>2, <1>4 DEF KeptAhead
  <2>3. QED
    BY <2>1, <2>2
<1>6. KeptAhead'
  <2>1. ASSUME NEW id \in Kept \ (Next0 + 1 .. to)
        PROVE  id \in start .. Taken - 1 /\ to + 1 < id
    BY <1>2, <1>4 DEF KeptAhead
  <2>2. QED
    BY <2>1, <1>0, <1>1, <1>4 DEF KeptAhead
<1>7. Written'
  <2>1. Count(Next0, to) \in Seq(0 .. Last) /\ Len(Count(Next0, to)) = to - Next0 + 1
        /\ \A i \in 1 .. to - Next0 + 1 : Count(Next0, to)[i] = Next0 + i - 1
    BY <1>2, <1>4 DEF Count
  <2>2. Len(Out) = Next0 /\ \A i \in 1 .. Next0 : Out[i] = i - 1
    BY DEF Written
  <2>3. /\ Len(Out') = to + 1
        /\ \A i \in 1 .. to + 1 :
             Out'[i] = IF i <= Next0 THEN Out[i] ELSE Count(Next0, to)[i - Next0]
    <3> DEFINE C == Count(Next0, to)
    <3>1. Out \in Seq(0 .. Last) /\ C \in Seq(0 .. Last)
      BY <1>2, <2>1
    <3> HIDE DEF C
    <3>2. /\ Len(Out \o C) = Len(Out) + Len(C)
          /\ \A i \in 1 .. Len(Out) + Len(C) :
               (Out \o C)[i] = IF i <= Len(Out) THEN Out[i] ELSE C[i - Len(Out)]
      BY <3>1, ConcatProperties, Zenon
    <3>3. Len(Out) = Next0 /\ Len(C) = to - Next0 + 1 /\ Out' = Out \o C
      BY <2>1, <2>2, <1>4 DEF C
    <3>4. Len(Out) + Len(C) = to + 1
      BY <3>3, <1>2, <1>4
    <3>5. QED
      BY <3>2, <3>3, <3>4 DEF C
  <2>4. \A i \in 1 .. to + 1 : Out'[i] = i - 1
    BY <1>2, <1>4, <2>1, <2>2, <2>3, SMTT(30)
  <2>5. QED
    BY <1>0, <1>1, <1>2, <1>3, <1>4, <1>5, <2>3, <2>4 DEF Written
<1>8. Running'
  <2>1. ASSUME NEW v \in Threads, worker'[v] = "run"
        PROVE  /\ worker[v] = "run" /\ task'[v] = task[v] /\ task[v] \notin Kept
               /\ to + 1 <= task[v] /\ task[v] \in start .. Taken - 1
    <3>1. v # w /\ worker[v] = "run" /\ task'[v] = task[v]
      BY <2>1, <1>0
    <3>2. /\ task[v] \in start .. Taken - 1 /\ task[v] \notin Kept /\ Next0 <= task[v]
          /\ task[v] # Next0
      BY <3>1, <1>0, <1>2 DEF Running
    <3>3. ASSUME NEW t \in Int, Next0 <= t, t # Next0, t \notin Kept
          PROVE  to + 1 <= t
      BY <3>3, <1>2, <1>4
    <3>4. QED
      BY <3>1, <3>2, <3>3, <1>2
  <2>2. QED
    BY <2>1, <1>0, <1>1, <1>4 DEF Running
<1>9. Somewhere'
  <2>1. \A v \in Threads : v # w => worker'[v] = worker[v] /\ task'[v] = task[v]
    BY <1>0
  <2>2. ASSUME NEW id \in start .. Taken - 1
        PROVE  \/ id < to + 1 \/ id \in Kept \ (Next0 + 1 .. to)
               \/ \E v \in Threads : worker'[v] = "run" /\ task'[v] = id
    <3>1. CASE \E v \in Threads : worker[v] = "run" /\ task[v] = id
      <4>1. PICK v \in Threads : worker[v] = "run" /\ task[v] = id
        BY <3>1
      <4>2. CASE v = w
        BY <4>1, <4>2, <1>2, <1>4
      <4>3. CASE v # w
        BY <4>1, <4>3, <2>1
      <4>4. QED
        BY <4>2, <4>3
    <3>2. CASE id < Next0 \/ id \in Kept
      BY <3>2, <1>2, <1>4
    <3>3. QED
      BY <3>1, <3>2 DEF Somewhere
  <2>3. QED
    BY <2>2, <1>0, <1>1, <1>4 DEF Somewhere
<1>10. QED
  BY <1>1, <1>2, <1>3, <1>4, <1>5, <1>6, <1>7, <1>8, <1>9

-------------------------------------------------------------------------
(* The queue is empty when the pool halts after the last input, and nothing *)
(* is submitted later.                                                     *)
LEMMA StoppingStep ==
  ASSUME IInv, [Next]_vars
  PROVE  Stopping'
<1> USE DEF Stopping
<1>0. Stopping /\ TypeOK
  BY DEF IInv
<1>1. CASE UNCHANGED vars
  BY <1>0, <1>1 DEF vars, poolVars
<1>2. CASE ReadAndWait \/ ReadAndSubmit
  BY <1>0, <1>2 DEF ReadAndWait, ReadAndSubmit, SubmitWaits, Submit
<1>3. CASE EndOfInput \/ BadInput
  BY <1>0, <1>3 DEF EndOfInput, BadInput, Stop
<1>4. CASE Owner
  BY <1>0, <1>4 DEF Owner, Drain, Halt, Tell, Join
<1>5. CASE Spurious
  BY <1>0, <1>5 DEF Spurious, WakeOwner, WakeWorker, Available
<1>6. ASSUME NEW w \in Threads, Execute(w)
      PROVE  Stopping'
  <2>1. CASE Wait(w) \/ Loop(w)
    BY <1>0, <1>6, <2>1 DEF Execute, Wait, Loop, Run, ProcessSentence, OutputAlignment, OutputBest
  <2>2. CASE Find(w) /\ UNCHANGED input
    BY <1>0, <2>2 DEF Find, Take
  <2>3. CASE Notify(w) /\ UNCHANGED input
    BY <1>0, <2>3 DEF Notify, Available
  <2>4. CASE Run(w)
    BY <1>0, <2>4 DEF Run, ProcessSentence, OutputAlignment, OutputBest, Delete, poolVars
  <2>5. QED
    BY <1>6, <2>1, <2>2, <2>3, <2>4 DEF Execute
<1>7. QED
  BY <1>1, <1>2, <1>3, <1>4, <1>5, <1>6 DEF Next, Main, Ended
(* Every step keeps what is known of the tasks, the kept outputs and the   *)
(* written ones.                                                           *)
LEMMA TasksStep ==
  ASSUME IInv, [Next]_vars
  PROVE  TasksOK'
<1>0. TypeOK /\ TasksOK
  BY DEF IInv, TasksOK
<1> USE DEF SameTasks, SameOutput, Next0, Kept, Out, collectorVars
<1>1. CASE UNCHANGED vars
  BY <1>0, <1>1, Quiet DEF vars, poolVars
<1>2. CASE ReadAndSubmit
  BY <1>2, Submitted
<1>3. CASE ReadAndWait \/ EndOfInput \/ BadInput
  <2>1. SameTasks /\ SameOutput
    BY <1>3 DEF ReadAndWait, SubmitWaits, EndOfInput, BadInput, Stop
  <2>2. QED
    BY <1>0, <2>1, Quiet
<1>4. CASE Owner
  <2>1. SameTasks /\ SameOutput
    BY <1>0, <1>4 DEF Owner, Drain, Halt, Tell, Join, Needed, TypeOK, PoolTypeOK
  <2>2. QED
    BY <1>0, <2>1, Quiet
<1>5. CASE Spurious
  <2>1. SameTasks /\ SameOutput
    BY <1>0, <1>5 DEF Spurious, WakeOwner, WakeWorker, TypeOK, PoolTypeOK
  <2>2. QED
    BY <1>0, <2>1, Quiet
<1>6. ASSUME NEW w \in Threads, Execute(w)
      PROVE  TasksOK'
  <2>1. CASE /\ Wait(w) \/ Notify(w) \/ Loop(w)
             /\ UNCHANGED << collectorVars, start, lineCount, input, found >>
    <3>1. SameTasks /\ SameOutput
      BY <1>0, <2>1 DEF Wait, Notify, Loop, TypeOK, PoolTypeOK
    <3>2. QED
      BY <1>0, <3>1, Quiet
  <2>2. CASE Find(w) /\ UNCHANGED << collectorVars, start, lineCount, input, found >>
    <3>1. CASE ~m_stopped /\ m_tasks # << >>
      BY <2>2, <3>1, TakenOne
    <3>2. CASE m_stopped \/ m_tasks = << >>
      <4>1. SameTasks /\ SameOutput
        BY <1>0, <2>2, <3>2 DEF Find, Take, TypeOK, PoolTypeOK
      <4>2. QED
        BY <1>0, <4>1, Quiet
    <3>3. QED
      BY <3>1, <3>2
  <2>3. CASE ProcessSentence(w)
    <3>1. SameTasks /\ SameOutput
      BY <1>0, <2>3 DEF ProcessSentence, poolVars
    <3>2. QED
      BY <1>0, <3>1, Quiet
  <2>4. CASE OutputAlignment(w)
    <3>1. SameTasks /\ SameOutput
      BY <1>0, <2>4, Bounds
         DEF OutputAlignment, Write, WriteNow, WriteLater, poolVars, TypeOK, CollectorTypeOK
    <3>2. QED
      BY <1>0, <3>1, Quiet
  <2>5. CASE OutputBest(w)
    BY <2>5, BestKept, BestWritten DEF OutputBest, Write
  <2>6. QED
    BY <1>6, <2>1, <2>2, <2>3, <2>4, <2>5 DEF Execute, Run
<1>7. QED
  BY <1>1, <1>2, <1>3, <1>4, <1>5, <1>6 DEF Next, Main, Ended

(* The invariant is inductive. *)
LEMMA StepIInv ==
  ASSUME IInv, [Next]_vars
  PROVE  IInv'
<1>1. TypeOK'
  BY TypeStep DEF IInv
<1>2. QED
  BY <1>1, TasksStep, StoppingStep DEF IInv, TasksOK

(* The inductive invariant: the tasks that are queued, that run, and the   *)
(* outputs that are kept and written are each what their numbers say.      *)
THEOREM Invariance == Spec => []IInv
<1>1. Init => IInv
  BY InitIInv
<1>2. IInv /\ [Next]_vars => IInv'
  BY StepIInv
<1>3. QED
  BY <1>1, <1>2, PTL DEF Spec

(* The variables of the pool, of the collectors and of the main thread     *)
(* keep to their types; a thread has a task only while it runs one.        *)
THEOREM TypeCorrect == Spec => []TypeOK
<1>1. IInv => TypeOK
  BY DEF IInv
<1>2. QED
  BY <1>1, Invariance, PTL

-------------------------------------------------------------------------
(* Where the translation of sentence id is. *)
LEMMA PlacesAre ==
  ASSUME IInv, NEW id \in 0 .. Last
  PROVE  IF id \in start .. lineCount - 1
           THEN \E p \in Places(id) : Places(id) = {p}
           ELSE Places(id) = {}
<1> DEFINE queue   == { k \in DOMAIN m_tasks : m_tasks[k] = id }
           threads == { v \in Threads : task[v] = id }
           written == { k \in DOMAIN Out : Out[k] = id }
<1>0. /\ m_tasks \in Seq(0 .. Last) /\ Out \in Seq(0 .. Last) /\ Next0 \in Nat
      /\ start \in Nat /\ lineCount \in Nat /\ Taken \in Int
      /\ start <= Taken /\ Taken <= lineCount /\ lineCount - Taken = Len(m_tasks)
      /\ TypeOK /\ Next0 <= Taken /\ Len(Out) = Next0 /\ (start > 0 => Next0 = 0)
  BY Bounds, SMTT(30) DEF IInv, TypeOK, PoolTypeOK, CollectorTypeOK, Next0, Out, Taken, Queued, Written
<1>1. Places(id) = { << "queue", i >> : i \in queue } \cup { << "thread", w >> : w \in threads }
                     \cup { << "kept", k >> : k \in Kept \cap {id} }
                     \cup { << "written", i >> : i \in written }
  BY DEF Places, Kept, Out
<1>2. queue = IF id \in Taken .. lineCount - 1 THEN {id - Taken + 1} ELSE {}
  BY <1>0 DEF IInv, Queued
<1>3. written = IF id < Next0 THEN {id + 1} ELSE {}
  BY <1>0 DEF IInv, Written
<1>4. ASSUME NEW w \in threads
      PROVE  /\ worker[w] = "run" /\ id \in start .. Taken - 1 /\ id \notin Kept /\ Next0 <= id
             /\ threads = {w}
  <2>1. \A v \in threads : worker[v] = "run"
    BY <1>0, NoTaskIsNone DEF TypeOK, PoolTypeOK
  <2>2. QED
    BY <2>1 DEF IInv, Running
<1>5. id \in Kept => id \in start .. Taken - 1 /\ Next0 < id
  BY DEF IInv, KeptAhead
<1>6. CASE id \in Taken .. lineCount - 1
  <2>1. threads = {} /\ id \notin Kept /\ written = {} /\ queue = {id - Taken + 1}
    BY <1>0, <1>2, <1>3, <1>4, <1>5, <1>6
  <2>2. Places(id) = {<< "queue", id - Taken + 1 >>}
    BY <1>1, <2>1
  <2>3. QED
    BY <2>2, <1>0, <1>6
<1>7. CASE id \in start .. Taken - 1
  <2>0. queue = {} /\ id \in start .. lineCount - 1
    BY <1>0, <1>2, <1>7
  <2>1. CASE id < Next0
    <3>1. threads = {} /\ id \notin Kept /\ written = {id + 1}
      BY <1>0, <1>3, <1>4, <1>5, <2>1
    <3>2. Places(id) = {<< "written", id + 1 >>}
      BY <1>1, <2>0, <3>1
    <3>3. QED
      BY <3>2, <2>0
  <2>2. CASE id \in Kept
    <3>1. threads = {} /\ written = {}
      BY <1>0, <1>3, <1>4, <1>5, <2>2
    <3>2. Places(id) = {<< "kept", id >>}
      BY <1>1, <2>0, <2>2, <3>1
    <3>3. QED
      BY <3>2, <2>0
  <2>3. CASE \E w \in Threads : worker[w] = "run" /\ task[w] = id
    <3>1. PICK w \in threads : TRUE
      BY <2>3
    <3>2. threads = {w} /\ id \notin Kept /\ written = {}
      BY <3>1, <1>0, <1>3, <1>4
    <3>3. Places(id) = {<< "thread", w >>}
      BY <1>1, <2>0, <3>2
    <3>4. QED
      BY <3>3, <2>0
  <2>4. QED
    BY <1>7, <2>1, <2>2, <2>3 DEF IInv, Somewhere
<1>8. CASE id \notin start .. lineCount - 1
  <2>1. queue = {} /\ threads = {} /\ id \notin Kept /\ written = {}
    BY <1>0, <1>2, <1>3, <1>4, <1>5, <1>8
  <2>2. QED
    BY <1>1, <1>8, <2>1
<1>9. QED
  BY <1>0, <1>6, <1>7, <1>8

(* Every translation is in exactly one place, from the moment its sentence *)
(* is submitted.                                                           *)
THEOREM OnePlaceEach == Spec => []OnePlace
<1>1. IInv => OnePlace
  BY PlacesAre DEF OnePlace
<1>2. QED
  BY <1>1, Invariance, PTL

(* The translation that the collector waits for is being worked at (the    *)
(* first sentence having number 0).                                        *)
THEOREM KeptWithReason == Spec => []TranslationsMove
<1>1. ASSUME IInv PROVE TranslationsMove
  <2>1. SUFFICES ASSUME start = 0, NEW id \in Kept
                 PROVE  Next0 < id /\ Pending(Next0)
    BY DEF TranslationsMove, KeptForReason, Kept, Next0
  <2>2. Next0 < id /\ id \in start .. Taken - 1
    BY <1>1 DEF IInv, KeptAhead
  <2>3. Next0 \in Nat /\ Taken \in Int /\ start \in Nat
    BY <1>1, Bounds DEF IInv, TypeOK, PoolTypeOK, CollectorTypeOK, Next0, Taken
  <2>4. Next0 \in start .. Taken - 1 /\ Next0 \notin Kept
    BY <2>1, <2>2, <2>3, <1>1 DEF IInv, KeptAhead
  <2>5. \E w \in Threads : task[w] = Next0
    BY <2>3, <2>4, <1>1 DEF IInv, Somewhere
  <2>6. QED
    BY <2>2, <2>5 DEF Pending
<1>2. QED
  BY <1>1, Invariance, PTL
-------------------------------------------------------------------------
(* The refinement.  A step of the program is a step of the decoder that    *)
(* the user sees: a sentence is accepted, translations are printed, the    *)
(* program ends; or nothing is seen.                                       *)
Done == owner = "gone" /\ input = "end"
SeenSame == UNCHANGED << lineCount, start, Out, Done >>

(* What the user does not see. *)
LEMMA SameIsSeen == SeenSame => UNCHANGED Seen!vars
BY DEF SeenSame, Seen!vars, Out, Done

(* A translation that is due: one or several are printed. *)
LEMMA OutputIsSeen ==
  ASSUME IInv, NEW w \in Threads, OutputBest(w), WriteNow("translation", task[w])
  PROVE  Seen!PutOut
<1>1. TasksOK' /\ start = 0 /\ Next0 < Next0' /\ Next0' <= Taken
  BY BestWritten
<1>2. UNCHANGED << lineCount, start, Done >>
  BY DEF OutputBest, Delete, Done
<1>3. TypeOK'
  BY TypeStep DEF IInv, Next, Execute, Run
<1>4. /\ Out \in Seq(0 .. Last) /\ Out' \in Seq(0 .. Last)
      /\ Next0 \in Nat /\ Next0' \in Nat
      /\ Taken \in Int /\ Taken <= lineCount /\ lineCount \in Nat
  <2>1. "translation" \in Collectors /\ lineCount \in Nat /\ Len(m_tasks) \in Nat
    BY Bounds DEF IInv, TypeOK, PoolTypeOK
  <2>2. Out \in Seq(0 .. Last) /\ Next0 \in Nat
    BY <2>1 DEF IInv, TypeOK, CollectorTypeOK, Out, Next0
  <2>3. Out' \in Seq(0 .. Last) /\ Next0' \in Nat
    BY <2>1, <1>3 DEF TypeOK, CollectorTypeOK, Out, Next0
  <2>4. QED
    BY <2>1, <2>2, <2>3 DEF Taken
<1>5. Len(Out) = Next0 /\ Len(Out') = Next0' /\ \A i \in 1 .. Next0' : Out'[i] = i - 1
  BY <1>1 DEF IInv, TasksOK, Written
<1>6. Out' = [i \in 1 .. Next0' |-> i - 1]
  <2>1. DOMAIN Out' = 1 .. Next0'
    BY <1>4, <1>5
  <2>2. Out' = [i \in DOMAIN Out' |-> Out'[i]]
    BY <1>4
  <2>3. QED
    BY <2>1, <2>2, <1>5
<1>7. Len(Out) < lineCount - start /\ Next0' \in Len(Out) + 1 .. lineCount - start
  BY <1>1, <1>4, <1>5
<1>8. QED
  BY <1>2, <1>6, <1>7 DEF Seen!PutOut, Out, Done

(* When the program ends all threads have ended, and with them all tasks.  *)
LEMMA EndIsSeen ==
  ASSUME IInv, start = 0, Owner, Join
  PROVE  Seen!End \/ UNCHANGED Seen!vars
<1>1. UNCHANGED << lineCount, start, Out >> /\ owner = "join" /\ owner' = "gone" /\ input' = input
  BY DEF Owner, Join, Out, collectorVars
<1>2. CASE input # "end"
  <2>1. ~Done /\ ~Done'
    BY <1>1, <1>2 DEF Done
  <2>2. Done' = Done
    BY <2>1 DEF Done
  <2>3. QED
    BY <1>1, <2>2, SameIsSeen DEF SeenSame
<1>3. CASE input = "end"
  <2>1. m_tasks = << >> /\ Done'
    BY <1>1, <1>3 DEF IInv, Stopping, Done
  <2>2. Next0 \in Nat /\ lineCount \in Nat /\ Taken = lineCount /\ Len(Out) = Next0 /\ Next0 <= Taken
    BY <2>1, Bounds DEF IInv, TypeOK, CollectorTypeOK, Next0, Taken, Written
  <2>3. \A w \in Threads : worker[w] # "run"
    BY DEF Join
  <2>4. ~(Next0 < lineCount)
    BY <2>2, <2>3 DEF IInv, Somewhere, KeptAhead
  <2>5. Len(Out) = lineCount - start
    BY <2>2, <2>4
  <2>6. QED
    BY <1>1, <2>1, <2>5 DEF Seen!End, Out, Done
<1>4. QED
  BY <1>2, <1>3

(* Every step maps to a step of OrderedOutput or to a stutter. *)
LEMMA StepIsSeen ==
  ASSUME IInv, [Next]_vars, start = 0
  PROVE  Seen!Next \/ UNCHANGED Seen!vars
<1> USE DEF SeenSame, Out, Done
<1>0. TypeOK
  BY DEF IInv
<1>1. CASE UNCHANGED vars
  BY <1>1, SameIsSeen DEF vars, poolVars, collectorVars
<1>2. CASE ReadAndSubmit
  <2>1. Seen!Accept
    BY <1>2, Bounds, <1>0 DEF ReadAndSubmit, Submit, Seen!Accept, collectorVars
  <2>2. QED
    BY <2>1 DEF Seen!Next
<1>3. CASE ReadAndWait \/ EndOfInput \/ BadInput
  <2>1. SeenSame
    BY <1>3 DEF ReadAndWait, SubmitWaits, EndOfInput, BadInput, Stop, collectorVars
  <2>2. QED
    BY <2>1, SameIsSeen
<1>4. CASE Owner
  <2>1. CASE Join
    BY <1>4, <2>1, EndIsSeen DEF Seen!Next
  <2>2. CASE Drain \/ Halt \/ Tell
    <3>1. SeenSame
      BY <1>4, <2>2 DEF Owner, Drain, Halt, Tell, collectorVars
    <3>2. QED
      BY <3>1, SameIsSeen
  <2>3. QED
    BY <1>4, <2>1, <2>2 DEF Owner
<1>5. CASE Spurious
  <2>1. SeenSame
    BY <1>5 DEF Spurious, WakeOwner, WakeWorker, Available, collectorVars
  <2>2. QED
    BY <2>1, SameIsSeen
<1>6. ASSUME NEW w \in Threads, Execute(w)
      PROVE  Seen!Next \/ UNCHANGED Seen!vars
  <2>1. CASE /\ Wait(w) \/ Find(w) \/ Notify(w) \/ Loop(w)
             /\ UNCHANGED << collectorVars, start, lineCount, input, found >>
    <3>1. SeenSame
      BY <2>1 DEF Wait, Find, Take, Notify, Loop, Available, collectorVars
    <3>2. QED
      BY <3>1, SameIsSeen
  <2>2. CASE ProcessSentence(w)
    <3>1. SeenSame
      BY <2>2 DEF ProcessSentence, poolVars, collectorVars
    <3>2. QED
      BY <3>1, SameIsSeen
  <2>3. CASE OutputAlignment(w)
    <3>1. SeenSame
      BY <1>0, <2>3, Bounds
         DEF OutputAlignment, Write, WriteNow, WriteLater, poolVars, TypeOK, CollectorTypeOK
    <3>2. QED
      BY <3>1, SameIsSeen
  <2>4. CASE OutputBest(w) /\ WriteNow("translation", task[w])
    BY <2>4, OutputIsSeen DEF Seen!Next
  <2>5. CASE OutputBest(w) /\ WriteLater("translation", task[w])
    <3>1. SeenSame
      BY <2>5 DEF OutputBest, WriteLater, Delete
    <3>2. QED
      BY <3>1, SameIsSeen
  <2>6. QED
    BY <1>6, <2>1, <2>2, <2>3, <2>4, <2>5 DEF Execute, Run, OutputBest, Write
<1>7. QED
  BY <1>1, <1>2, <1>3, <1>4, <1>5, <1>6 DEF Next, Main, Ended

(* The batch decoder implements the decoder of OrderedOutput: translations *)
(* come out in the order of the sentences, and all of them if the program  *)
(* ends without an exception (the first sentence having number 0).         *)
THEOREM ImplementsOrderedOutput == Spec => PutsOutInOrder
<1>1. Init => Seen!Init
  <2> SUFFICES ASSUME Init PROVE Seen!Init
    OBVIOUS
  <2>2. "translation" \in Collectors /\ start \in Nat
    BY InputsAssumption DEF Init
  <2>3. QED
    BY <2>2 DEF Init, PoolInit, CollectorInit, Seen!Init
<1>2. IInv /\ [Next]_vars => [start = 0 => Seen!Next]_(Seen!vars)
  BY StepIsSeen
<1>3. QED
  BY <1>1, <1>2, Invariance, PTL DEF Spec, PutsOutInOrder

=========================================================================
