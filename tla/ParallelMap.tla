---------------------------- MODULE ParallelMap ----------------------------
(***************************************************************************)
(* What nixops.parallel.run_tasks promises its callers, without threads or *)
(* queues: every task of a call is run once, by at most `width' workers at *)
(* a time, and the caller goes on only when all of them have ended, with   *)
(* an exception if one of them raised.  TaskPool implements this, and      *)
(* DeployResources and Activation are written against it; the modules that *)
(* instantiate it assume their sets of tasks finite.                       *)
(***************************************************************************)
EXTENDS Integers, FiniteSets

CONSTANTS
  Task,         \* everything that can be submitted: machine or resource states
  MaxRequest    \* bound on the requested number of workers

VARIABLES
  status,   \* where each task of the current call is
  width,    \* the number of workers of the current call
  verdict   \* what the caller has got back from it

vars == <<status, width, verdict>>

Outcomes == {"value", "nothing", "error"}   \* truthy result, falsy result, exception
Statuses == {"idle", "queued", "running"} \cup Outcomes
Verdicts == {"none", "open", "returned", "raised", "rejected", "abandoned"}
Request  == -1 .. MaxRequest

Submitted == {t \in Task : status[t] # "idle"}
Running   == {t \in Task : status[t] = "running"}
Ended     == {t \in Task : status[t] \in Outcomes}
Failed    == {t \in Task : status[t] = "error"}

TypeOK ==
  /\ status \in [Task -> Statuses]
  /\ width \in Int
  /\ verdict \in Verdicts

Init ==
  /\ status = [t \in Task |-> "idle"]
  /\ width = 0
  /\ verdict = "none"

\* The number of threads a call uses: -1 asks for one thread per task.
Workers(n, S) == IF n = -1 THEN Cardinality(S) ELSE n

\* run_tasks(n, S, ...) is called.  No task is an empty result at once; a
\* worker count below one is an exception before anything runs.
Call(n, S) ==
  /\ verdict \in {"none", "returned"}
  /\ status' = [t \in Task |-> IF t \in S THEN "queued" ELSE "idle"]
  /\ width' = Workers(n, S)
  /\ verdict' = IF S = {} THEN "returned"
                ELSE IF Workers(n, S) < 1 THEN "rejected" ELSE "open"

\* A worker takes a task.  The threads are daemons: they go on with the queue
\* when an interrupt has taken the caller away.
Begin(t) ==
  /\ verdict \in {"open", "abandoned"}
  /\ status[t] = "queued"
  /\ Cardinality(Running) < width
  /\ status' = [status EXCEPT ![t] = "running"]
  /\ UNCHANGED <<width, verdict>>

End(t, o) ==
  /\ status[t] = "running"
  /\ status' = [status EXCEPT ![t] = o]
  /\ UNCHANGED <<width, verdict>>

\* The caller goes on: with an exception iff some task raised.
Return ==
  /\ verdict = "open"
  /\ Submitted = Ended
  /\ verdict' = IF Failed = {} THEN "returned" ELSE "raised"
  /\ UNCHANGED <<status, width>>

\* KeyboardInterrupt while the caller waits.
Abandon ==
  /\ verdict = "open"
  /\ verdict' = "abandoned"
  /\ UNCHANGED <<status, width>>

\* The calling process ends, and its daemon threads with it.
Forget ==
  /\ verdict # "none"
  /\ status' = [t \in Task |-> "idle"]
  /\ width' = 0
  /\ verdict' = "none"

Next ==
  \/ \E n \in Request, S \in SUBSET Task : Call(n, S)
  \/ \E t \in Task : Begin(t)
  \/ \E t \in Task, o \in Outcomes : End(t, o)
  \/ Return
  \/ Abandon
  \/ Forget

Spec == Init /\ [][Next]_vars
=============================================================================
