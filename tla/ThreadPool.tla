--------------------------- MODULE ThreadPool ----------------------------
(***************************************************************************)
(* Class ThreadPool: worker threads that take tasks from a queue.  The     *)
(* thread that made the pool, its owner, submits the tasks and stops the   *)
(* pool at the end.                                                        *)
(*                                                                         *)
(* A section of code under m_mutex is one step; wait() on a condition      *)
(* variable ends one step and begins another.  What a task does is left to *)
(* the module that extends this one: its steps are those of a worker that  *)
(* is at "run".                                                            *)
(***************************************************************************)
EXTENDS Integers, Sequences

CONSTANTS
  Threads,     \* m_threads
  QueueLimits, \* what SetQueueLimit may have been called with; 0: no limit
  NoTask       \* NULL

ASSUME LimitsAssumption == QueueLimits \subseteq Nat

VARIABLES
  m_queueLimit,
  m_tasks,     \* the queue
  m_stopping,
  m_stopped,
  worker,      \* for each thread, where in Execute it is
  task,        \* for each thread, its variable task
  synced,      \* for each thread: m_stopped was set when it last had the mutex
  owner        \* where in Submit or Stop the owner is

poolVars == << m_queueLimit, m_tasks, m_stopping, m_stopped, worker, task, synced, owner >>

PoolInit ==
  /\ m_queueLimit \in QueueLimits
  /\ m_tasks = << >>
  /\ m_stopping = FALSE /\ m_stopped = FALSE
  /\ worker = [w \in Threads |-> "find"]
  /\ task = [w \in Threads |-> NoTask]
  /\ synced = [w \in Threads |-> FALSE]
  /\ owner = "free"

(* notify_all on m_threadNeeded and on m_threadAvailable: whoever waits    *)
(* will go on when it gets the mutex.                                      *)
Needed == [w \in Threads |-> IF worker[w] = "waiting" THEN "woken" ELSE worker[w]]
Available ==
  CASE owner = "full"    -> "resubmit"
    [] owner = "waiting" -> "drain"
    [] OTHER             -> owner

-------------------------------------------------------------------------
(* Mutant of Take: the task stays in the queue. *)
TakeNoPop(w) ==
  /\ synced' = [synced EXCEPT ![w] = m_stopped]
  /\ IF ~m_stopped /\ m_tasks # << >>
       THEN /\ task' = [task EXCEPT ![w] = Head(m_tasks)]
            /\ worker' = [worker EXCEPT ![w] = "run"]
       ELSE /\ worker' = [worker EXCEPT ![w] = "notify"]
            /\ UNCHANGED task
  /\ UNCHANGED << m_queueLimit, m_tasks, m_stopping, m_stopped, owner >>

(* Execute, after the wait or without one: the task found, if any. *)
Take(w) ==
  /\ synced' = [synced EXCEPT ![w] = m_stopped]
  /\ IF ~m_stopped /\ m_tasks # << >>
       THEN /\ task' = [task EXCEPT ![w] = Head(m_tasks)]
            /\ m_tasks' = Tail(m_tasks)
            /\ worker' = [worker EXCEPT ![w] = "run"]
       ELSE /\ worker' = [worker EXCEPT ![w] = "notify"]
            /\ UNCHANGED << task, m_tasks >>
  /\ UNCHANGED << m_queueLimit, m_stopping, m_stopped, owner >>

(* Execute from the beginning of the loop. *)
Wait(w) ==
  /\ worker[w] = "find"
  /\ m_tasks = << >> /\ ~m_stopped
  /\ worker' = [worker EXCEPT ![w] = "waiting"]
  /\ synced' = [synced EXCEPT ![w] = FALSE]
  /\ UNCHANGED << m_queueLimit, m_tasks, m_stopping, m_stopped, task, owner >>

Find(w) ==
  \/ worker[w] = "find" /\ (m_tasks # << >> \/ m_stopped) /\ Take(w)
  \/ worker[w] = "woken" /\ Take(w)

(* The task has run and is deleted. *)
Delete(w) ==
  /\ worker' = [worker EXCEPT ![w] = "notify"]
  /\ task' = [task EXCEPT ![w] = NoTask]
  /\ UNCHANGED << m_queueLimit, m_tasks, m_stopping, m_stopped, synced, owner >>

(* m_threadAvailable.notify_all(), without the mutex. *)
Notify(w) ==
  /\ worker[w] = "notify"
  /\ worker' = [worker EXCEPT ![w] = "test"]
  /\ owner' = Available
  /\ UNCHANGED << m_queueLimit, m_tasks, m_stopping, m_stopped, task, synced >>

(* while (!m_stopped), read without the mutex.  A thread that has not had  *)
(* the mutex since m_stopped was set may read either value.                *)
Loop(w) ==
  /\ worker[w] = "test"
  /\ \/ ~(m_stopped /\ synced[w]) /\ worker' = [worker EXCEPT ![w] = "find"]
     \/ m_stopped /\ worker' = [worker EXCEPT ![w] = "done"]
  /\ UNCHANGED << m_queueLimit, m_tasks, m_stopping, m_stopped, task, synced, owner >>

(* wait() may return although nobody has notified. *)
WakeWorker(w) ==
  /\ worker[w] = "waiting"
  /\ worker' = [worker EXCEPT ![w] = "woken"]
  /\ UNCHANGED << m_queueLimit, m_tasks, m_stopping, m_stopped, task, synced, owner >>

WakeOwner ==
  /\ owner \in {"full", "waiting"}
  /\ owner' = Available
  /\ UNCHANGED << m_queueLimit, m_tasks, m_stopping, m_stopped, worker, task, synced >>

-------------------------------------------------------------------------
Full == m_queueLimit > 0 /\ Len(m_tasks) >= m_queueLimit

(* Submit waits while the queue is full, ... *)
SubmitWaits ==
  /\ (owner = "free" /\ ~m_stopping) \/ owner = "resubmit"
  /\ Full
  /\ owner' = "full"
  /\ UNCHANGED << m_queueLimit, m_tasks, m_stopping, m_stopped, worker, task, synced >>

(* Mutant of Submit: nobody is told. *)
SubmitQuietly(t) ==
  /\ (owner = "free" /\ ~m_stopping) \/ owner = "resubmit"
  /\ ~Full
  /\ m_tasks' = Append(m_tasks, t)
  /\ owner' = "free"
  /\ UNCHANGED << m_queueLimit, m_stopping, m_stopped, worker, task, synced >>

(* ... and then adds the task. *)
Submit(t) ==
  /\ (owner = "free" /\ ~m_stopping) \/ owner = "resubmit"
  /\ ~Full
  /\ m_tasks' = Append(m_tasks, t)
  /\ worker' = Needed
  /\ owner' = "free"
  /\ UNCHANGED << m_queueLimit, m_stopping, m_stopped, task, synced >>

(* Stop(processRemainingJobs). *)
Stop(processRemainingJobs) ==
  /\ owner = "free" /\ ~m_stopped
  /\ m_stopping' = TRUE
  /\ owner' = IF processRemainingJobs THEN "drain" ELSE "halt"
  /\ UNCHANGED << m_queueLimit, m_tasks, m_stopped, worker, task, synced >>

(* Mutant of Drain: it does not wait. *)
DrainAtOnce ==
  /\ owner = "drain"
  /\ owner' = "halt"
  /\ UNCHANGED << m_queueLimit, m_tasks, m_stopping, m_stopped, worker, task, synced >>

Drain ==
  /\ owner = "drain"
  /\ owner' = IF m_tasks # << >> /\ ~m_stopped THEN "waiting" ELSE "halt"
  /\ UNCHANGED << m_queueLimit, m_tasks, m_stopping, m_stopped, worker, task, synced >>

Halt ==
  /\ owner = "halt"
  /\ m_stopped' = TRUE
  /\ owner' = "tell"
  /\ UNCHANGED << m_queueLimit, m_tasks, m_stopping, worker, task, synced >>

Tell ==
  /\ owner = "tell"
  /\ worker' = Needed
  /\ owner' = "join"
  /\ UNCHANGED << m_queueLimit, m_tasks, m_stopping, m_stopped, task, synced >>

Join ==
  /\ owner = "join"
  /\ \A w \in Threads : worker[w] = "done"
  /\ owner' = "gone"
  /\ UNCHANGED << m_queueLimit, m_tasks, m_stopping, m_stopped, worker, task, synced >>

-------------------------------------------------------------------------
WorkerStates == {"find", "waiting", "woken", "run", "notify", "test", "done"}
OwnerStates ==
  {"free", "full", "resubmit", "drain", "waiting", "halt", "tell", "join", "gone"}

(* The pool's variables keep to their types, and a thread has a task while *)
(* it runs one and never otherwise.                                        *)
PoolTypeOK(Tasks) ==
  /\ m_queueLimit \in QueueLimits
  /\ m_tasks \in Seq(Tasks)
  /\ m_stopping \in BOOLEAN /\ m_stopped \in BOOLEAN
  /\ worker \in [Threads -> WorkerStates]
  /\ task \in [Threads -> Tasks \cup {NoTask}]
  /\ synced \in [Threads -> BOOLEAN]
  /\ owner \in OwnerStates
  /\ \A w \in Threads : worker[w] # "run" => task[w] = NoTask
=========================================================================
