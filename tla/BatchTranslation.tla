------------------------ MODULE BatchTranslation -------------------------
(***************************************************************************)
(* The command line decoder (moses-cmd): the main thread reads sentences   *)
(* and submits a TranslationTask for each; the threads of a pool translate *)
(* them and hand what they have to say to output collectors, one for each  *)
(* kind of output.  Two are modelled: the translations, which every task   *)
(* writes, and the word alignments, which are written only for a sentence  *)
(* that has a translation.                                                 *)
(*                                                                         *)
(* Reading may throw an exception.  Then the pool is stopped without the   *)
(* tasks that are still in its queue (by its destructor).                  *)
(***************************************************************************)
EXTENDS ThreadPool, OutputCollector

CONSTANTS
  MaxInputs,    \* bound: sentences
  StartIds,     \* GetStartTranslationId: what -start-translation-id may be
  CanFail       \* TRUE: the decoder may find no translation of a sentence

ASSUME InputsAssumption ==
  /\ MaxInputs \in Nat /\ StartIds \subseteq Nat /\ CanFail \in BOOLEAN
  /\ Collectors = {"translation", "alignment"}
  /\ Last \in Nat /\ \A s \in StartIds : s + MaxInputs <= Last
  /\ NoTask \notin 0 .. Last

VARIABLES
  start,       \* the first sentence's number
  lineCount,   \* the next sentence's number
  input,       \* what ReadInput does next
  found        \* for each thread: has its sentence a translation?

vars == << poolVars, collectorVars, start, lineCount, input, found >>

Init ==
  /\ PoolInit /\ CollectorInit
  /\ start \in StartIds /\ lineCount = start
  /\ input = "more"
  /\ found = [w \in Threads |-> "unknown"]

-------------------------------------------------------------------------
(* The main thread. *)
InputsLeft == lineCount < start + MaxInputs

ReadAndWait ==
  /\ input = "more" /\ InputsLeft
  /\ SubmitWaits
  /\ UNCHANGED << collectorVars, start, lineCount, input, found >>

ReadAndSubmit ==
  /\ input = "more" /\ InputsLeft
  /\ Submit(lineCount)
  /\ lineCount' = lineCount + 1
  /\ UNCHANGED << collectorVars, start, input, found >>

(* There is no more input: pool.Stop(true).  An exception: Stop(false). *)
EndOfInput ==
  /\ input = "more"
  /\ input' = "end"
  /\ Stop(TRUE)
  /\ UNCHANGED << collectorVars, start, lineCount, found >>

BadInput ==
  /\ input = "more" /\ InputsLeft
  /\ input' = "bad"
  /\ Stop(FALSE)
  /\ UNCHANGED << collectorVars, start, lineCount, found >>

Owner ==
  /\ Drain \/ Halt \/ Tell \/ Join
  /\ UNCHANGED << collectorVars, start, lineCount, input, found >>

-------------------------------------------------------------------------
(* TranslationTask::Run in thread w.  ProcessSentence needs nobody else.   *)
ProcessSentence(w) ==
  /\ worker[w] = "run" /\ found[w] = "unknown"
  /\ \E f \in IF CanFail THEN {"yes", "no"} ELSE {"yes"} :
       found' = [found EXCEPT ![w] = f]
  /\ UNCHANGED << poolVars, collectorVars, start, lineCount, input >>

OutputAlignment(w) ==
  /\ worker[w] = "run" /\ found[w] = "yes"
  /\ Write("alignment", task[w])
  /\ found' = [found EXCEPT ![w] = "written"]
  /\ UNCHANGED << poolVars, start, lineCount, input >>

(* The translation, or an empty line if there is none; Run ends. *)
OutputBest(w) ==
  /\ worker[w] = "run" /\ found[w] \in {"written", "no"}
  /\ Write("translation", task[w])
  /\ Delete(w)
  /\ found' = [found EXCEPT ![w] = "unknown"]
  /\ UNCHANGED << start, lineCount, input >>

Run(w) == ProcessSentence(w) \/ OutputAlignment(w) \/ OutputBest(w)

Execute(w) ==
  \/ /\ Wait(w) \/ Find(w) \/ Notify(w) \/ Loop(w)
     /\ UNCHANGED << collectorVars, start, lineCount, input, found >>
  \/ Run(w)

Spurious ==
  /\ WakeOwner \/ \E w \in Threads : WakeWorker(w)
  /\ UNCHANGED << collectorVars, start, lineCount, input, found >>

Main == ReadAndWait \/ ReadAndSubmit \/ EndOfInput \/ BadInput \/ Owner

(* The program has ended. *)
Ended == owner = "gone" /\ UNCHANGED vars

Next == Main \/ (\E w \in Threads : Execute(w)) \/ Spurious \/ Ended

(* The system runs every thread that can run, and lets every thread have   *)
(* the mutex it waits for.                                                 *)
Spec == Init /\ [][Next]_vars /\ WF_vars(Main) /\ \A w \in Threads : WF_vars(Execute(w))

-------------------------------------------------------------------------
TypeOK ==
  /\ PoolTypeOK(0 .. Last)
  /\ CollectorTypeOK
  /\ start \in StartIds /\ lineCount \in start .. start + MaxInputs
  /\ input \in {"more", "end", "bad"}
  /\ found \in [Threads -> {"unknown", "yes", "no", "written"}]

(* A sentence's translation is in exactly one place: its task is in the    *)
(* queue, or runs in one thread, or the translation waits in the           *)
(* collector, or it has been written.                                      *)
Places(id) ==
  { << "queue", i >> : i \in { k \in DOMAIN m_tasks : m_tasks[k] = id } }
    \cup { << "thread", w >> : w \in { v \in Threads : task[v] = id } }
    \cup { << "kept", k >> : k \in m_outputs["translation"] \cap {id} }
    \cup { << "written", i >> :
             i \in { k \in DOMAIN m_outStream["translation"] :
                       m_outStream["translation"][k] = id } }

OnePlace ==
  \A id \in 0 .. Last :
    IF id \in start .. lineCount - 1
      THEN \E p \in Places(id) : Places(id) = {p}
      ELSE Places(id) = {}

(* Task number id has not ended. *)
Pending(id) ==
  \/ \E i \in DOMAIN m_tasks : m_tasks[i] = id
  \/ \E w \in Threads : task[w] = id

(* A translation waits only for one that is still being worked at, or is   *)
(* in the queue: nothing is kept that nobody will fetch.  (When the first  *)
(* sentence has number 0.)                                                 *)
KeptForReason(c) ==
  \A id \in m_outputs[c] : m_nextOutput[c] < id /\ Pending(m_nextOutput[c])

TranslationsMove == start = 0 => KeptForReason("translation")

(* OutputCollector.h:93: an output that is kept is saved "for later".  So  *)
(* when the program has flushed the remaining jobs (Main.cpp:754) and      *)
(* ended, no output is still waiting to be written.                        *)
NothingKept ==
  owner = "gone" /\ input = "end" => \A c \in Collectors : m_outputs[c] = {}

(* What the user sees is a decoder that puts out in order what it took in, *)
(* and has put out everything when it ends without an exception.           *)
Seen == INSTANCE OrderedOutput
          WITH accepted <- lineCount - start,
               printed  <- m_outStream["translation"],
               ended    <- owner = "gone" /\ input = "end"
PutsOutInOrder == Seen!Init /\ [][start = 0 => Seen!Next]_(Seen!vars)

(* The program ends. *)
Finishes == <>(owner = "gone")
=========================================================================
