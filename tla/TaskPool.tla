----------------------------- MODULE TaskPool -----------------------------
(***************************************************************************)
(* nixops/parallel.py: run_tasks.  A caller fills a queue with tasks,      *)
(* starts daemon threads that empty it, collects one result per task and   *)
(* joins the threads.  One call is modelled, with the threads interleaved  *)
(* at every access to the two queues.                                      *)
(*                                                                         *)
(* The queues are sets: the order in which tasks are submitted is that of  *)
(* a Python dict and nothing promised depends on it.                       *)
(***************************************************************************)
EXTENDS Integers, FiniteSets

CONSTANTS
  Task,         \* the tasks a call may submit
  NameOf,       \* NameOf[t]: t.name, the key exceptions are kept under
  MaxRequest,   \* bound on the requested number of workers
  NoTask        \* what a thread that is not busy holds

ASSUME PoolAssumption ==
  /\ IsFiniteSet(Task) /\ NoTask \notin Task
  /\ MaxRequest \in Nat
  /\ DOMAIN NameOf = Task

VARIABLES
  phase,        \* where the caller is in run_tasks
  tasks,        \* the submitted tasks (nr_tasks is their number)
  nrWorkers,    \* nr_workers, once -1 is resolved
  started,      \* threads started so far: the threads are 1 .. started
  thread,       \* what each thread does: "new", "idle", "busy", "exited"
  holds,        \* the task a busy thread works on
  taskQueue,    \* task_queue
  resultQueue,  \* result_queue: what the threads have put and nobody taken
  found,        \* found_results
  results,      \* the tasks whose (truthy) result is in results
  exceptions,   \* the keys of exceptions
  outcome       \* history: what worker_fun did with each task

callerVars == <<phase, started, found, results, exceptions>>
threadVars == <<thread, holds, taskQueue, outcome>>
vars == <<phase, tasks, nrWorkers, started, thread, holds, taskQueue,
          resultQueue, found, results, exceptions, outcome>>

Outcomes == {"value", "nothing", "error"}
Request  == -1 .. MaxRequest
Thread   == 1 .. (MaxRequest + Cardinality(Task))
Phases   == {"idle", "starting", "collecting", "joining",
             "returned", "raised", "rejected", "interrupted"}
Result   == [task : Task, outcome : Outcomes]

Held      == {t \in Task : \E n \in Thread : thread[n] = "busy" /\ holds[n] = t}
Delivered == {r.task : r \in resultQueue}
Finished  == {t \in Task : outcome[t] \in Outcomes}
Collected == Finished \ Delivered

TypeOK ==
  /\ phase \in Phases
  /\ tasks \in SUBSET Task
  /\ nrWorkers \in -1 .. (MaxRequest + Cardinality(Task))
  /\ started \in 0 .. (MaxRequest + Cardinality(Task))
  /\ thread \in [Thread -> {"new", "idle", "busy", "exited"}]
  /\ holds \in [Thread -> Task \cup {NoTask}]
  /\ taskQueue \in SUBSET Task
  /\ resultQueue \in SUBSET Result
  /\ found \in Nat
  /\ results \in SUBSET Task
  /\ exceptions \in SUBSET {NameOf[t] : t \in Task}
  /\ outcome \in [Task -> Outcomes \cup {"none"}]

Init ==
  /\ phase = "idle"
  /\ tasks = {} /\ taskQueue = {} /\ resultQueue = {}
  /\ nrWorkers = 0 /\ started = 0 /\ found = 0
  /\ thread = [n \in Thread |-> "new"]
  /\ holds = [n \in Thread |-> NoTask]
  /\ results = {} /\ exceptions = {}
  /\ outcome = [t \in Task |-> "none"]
-----------------------------------------------------------------------------
(* The caller.                                                             *)

Resolve(n, S) == IF n = -1 THEN Cardinality(S) ELSE n

Call(n, S) ==
  /\ phase = "idle"
  /\ tasks' = S
  /\ taskQueue' = S
  /\ nrWorkers' = Resolve(n, S)
  /\ phase' = IF S = {} THEN "returned"
              ELSE IF Resolve(n, S) < 1 THEN "rejected" ELSE "starting"
  /\ UNCHANGED <<started, thread, holds, resultQueue, found, results,
                 exceptions, outcome>>

\* Threads run as soon as they are started, while the caller starts the rest.
StartThread ==
  /\ phase = "starting"
  /\ started' = started + 1
  /\ thread' = [thread EXCEPT ![started + 1] = "idle"]
  /\ phase' = IF started + 1 = nrWorkers THEN "collecting" ELSE "starting"
  /\ UNCHANGED <<tasks, nrWorkers, holds, taskQueue, resultQueue, found,
                 results, exceptions, outcome>>

\* Seeded faults (Fault...) stand beside the definition they replace; they are
\* in no specification and only show that the properties can fail.
FaultLastErrorOnly(r) ==
  /\ exceptions' = IF r.outcome = "error" THEN {NameOf[r.task]} ELSE exceptions
  /\ results' = IF r.outcome = "value" THEN results \cup {r.task} ELSE results

\* `if exc: ... if res: ...': an exception is kept under the task's name, a
\* falsy result is dropped.
Keep(r) ==
  /\ exceptions' = IF r.outcome = "error" THEN exceptions \cup {NameOf[r.task]}
                                          ELSE exceptions
  /\ results' = IF r.outcome = "value" THEN results \cup {r.task} ELSE results

FaultCountThreads == found + 1 = nrWorkers
FaultTestBeforeCount == found = Cardinality(tasks)

\* `while found_results < nr_tasks': the loop ends after this result.
AllFound == found + 1 = Cardinality(tasks)

Collect ==
  /\ phase = "collecting"
  /\ \E r \in resultQueue : Keep(r) /\ resultQueue' = resultQueue \ {r}
  /\ found' = found + 1
  /\ phase' = IF AllFound THEN "joining" ELSE "collecting"
  /\ UNCHANGED <<tasks, nrWorkers, started>> /\ UNCHANGED threadVars

FaultManyOnly == IF Cardinality(exceptions) <= 1 THEN "returned" ELSE "raised"

Verdict == IF exceptions = {} THEN "returned" ELSE "raised"

Join ==
  /\ phase = "joining"
  /\ \A n \in 1 .. started : thread[n] = "exited"
  /\ phase' = Verdict
  /\ UNCHANGED <<tasks, nrWorkers, started, resultQueue, found, results,
                 exceptions>>
  /\ UNCHANGED threadVars

\* KeyboardInterrupt in the caller; the daemon threads are not told.
Interrupt ==
  /\ phase \in {"starting", "collecting", "joining"}
  /\ phase' = "interrupted"
  /\ UNCHANGED <<tasks, nrWorkers, started, resultQueue, found, results,
                 exceptions>>
  /\ UNCHANGED threadVars
-----------------------------------------------------------------------------
(* A thread: thread_fun.                                                   *)

Without(t) == taskQueue \ {t}

\* task_queue.get(False)
Get(n, t) ==
  /\ thread[n] = "idle"
  /\ t \in taskQueue
  /\ taskQueue' = Without(t)
  /\ thread' = [thread EXCEPT ![n] = "busy"]
  /\ holds' = [holds EXCEPT ![n] = t]
  /\ UNCHANGED callerVars /\ UNCHANGED <<tasks, nrWorkers, resultQueue, outcome>>

\* worker_fun ends, with a value or an exception, and the result is put.
Put(n, o) ==
  /\ thread[n] = "busy"
  /\ resultQueue' = resultQueue \cup {[task |-> holds[n], outcome |-> o]}
  /\ outcome' = [outcome EXCEPT ![holds[n]] = o]
  /\ thread' = [thread EXCEPT ![n] = "idle"]
  /\ holds' = [holds EXCEPT ![n] = NoTask]
  /\ UNCHANGED callerVars /\ UNCHANGED <<tasks, nrWorkers, taskQueue>>

Exit(n) ==
  /\ thread[n] = "idle"
  /\ taskQueue = {}
  /\ thread' = [thread EXCEPT ![n] = "exited"]
  /\ UNCHANGED callerVars
  /\ UNCHANGED <<tasks, nrWorkers, holds, taskQueue, resultQueue, outcome>>
-----------------------------------------------------------------------------
CallerStep == StartThread \/ Collect \/ Join
ThreadStep(n) ==
  \/ \E t \in Task : Get(n, t)
  \/ \E o \in Outcomes : Put(n, o)
  \/ Exit(n)

Next ==
  \/ \E n \in Request, S \in SUBSET Task : Call(n, S)
  \/ CallerStep
  \/ Interrupt
  \/ \E n \in Thread : ThreadStep(n)

\* The operating system runs every thread; worker_fun is taken to return.
Fairness == WF_vars(CallerStep) /\ \A n \in Thread : WF_vars(ThreadStep(n))

Spec == Init /\ [][Next]_vars
FairSpec == Spec /\ Fairness
-----------------------------------------------------------------------------
(* Properties.                                                             *)

Ended == {"returned", "raised", "rejected", "interrupted"}

(* Nothing is lost or duplicated between the two queues and the threads: a
   submitted task waits, is held by one thread, has its result waiting, or has
   been collected, and the caller's counter is the number of the last kind.
   The loop in run_tasks ends by that counter alone. *)
OnePlace ==
  /\ taskQueue \cup Held \cup Finished = tasks
  /\ taskQueue \cap Held = {}
  /\ Finished \cap (taskQueue \cup Held) = {}
  /\ \A n, k \in Thread :
       thread[n] = "busy" /\ thread[k] = "busy" /\ holds[n] = holds[k] => n = k
  /\ \A r \in resultQueue : outcome[r.task] = r.outcome
  /\ found = Cardinality(Collected)

(* When run_tasks gives control back, by its result or an exception of a task,
   every task has been run and no thread of the call is left: what the callers
   do next (upload the state, release the lock) races with none of them. *)
DoneMeansQuiet ==
  phase \in {"returned", "raised"} =>
    /\ Finished = tasks
    /\ resultQueue = {}
    /\ \A n \in Thread : thread[n] \in {"new", "exited"}

(* No failure is swallowed and none is invented: the call raises iff a task
   raised, the exception names the tasks that did, and what is returned are the
   results of the others, but for the falsy ones. *)
VerdictFits ==
  phase \in {"returned", "raised"} =>
    /\ exceptions = {NameOf[t] : t \in {u \in tasks : outcome[u] = "error"}}
    /\ results = {t \in tasks : outcome[t] = "value"}
    /\ (phase = "raised") = (\E t \in tasks : outcome[t] = "error")

(* run_tasks does not hang: neither its count of results, nor the join, waits
   for something no thread will do. *)
Terminates == phase = "starting" ~> phase \in Ended

(* run_tasks keeps its promise to its callers (ParallelMap). *)
MapStatus ==
  [t \in Task |-> IF t \in taskQueue THEN "queued"
                 ELSE IF t \in Held THEN "running"
                 ELSE IF t \in tasks THEN outcome[t] ELSE "idle"]
MapVerdict ==
  IF phase = "idle" THEN "none"
  ELSE IF phase \in {"starting", "collecting", "joining"} THEN "open"
  ELSE IF phase = "interrupted" THEN "abandoned" ELSE phase

PM == INSTANCE ParallelMap
        WITH status <- MapStatus, width <- nrWorkers, verdict <- MapVerdict
Refinement == PM!Spec
=============================================================================
