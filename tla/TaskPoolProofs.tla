-------------------------- MODULE TaskPoolProofs --------------------------
(***************************************************************************)
(* What TaskPool's runs check on three tasks, proved for every finite set  *)
(* of tasks, every naming of them and every bound on the workers.          *)
(***************************************************************************)
EXTENDS TaskPool, FiniteSetTheorems, TLAPS

(***************************************************************************)
(* OnePlace is not inductive by itself: that a counter equal to the number *)
(* of tasks means nothing is left needs the phase of the caller, and what  *)
(* has been kept so far is what the collected tasks did.                   *)
(***************************************************************************)
ThreadsInv ==
  /\ started > 0 => started <= nrWorkers
  /\ \A n \in Thread : n > started => thread[n] = "new"
  /\ \A n \in Thread : thread[n] = "busy" => holds[n] \in Task

PhaseInv ==
  /\ phase \in {"idle", "rejected"} => started = 0 /\ found = 0
  /\ phase = "idle" => tasks = {}
  /\ phase = "starting" => started < nrWorkers /\ found = 0 /\ tasks # {}
  /\ phase = "collecting" => found < Cardinality(tasks)
  /\ phase \in {"joining", "returned", "raised"} => found = Cardinality(tasks)
  /\ phase \in {"returned", "raised"} =>
       \A n \in Thread : thread[n] \in {"new", "exited"}

KeptInv ==
  /\ exceptions = {NameOf[t] : t \in {u \in Collected : outcome[u] = "error"}}
  /\ results = {t \in Collected : outcome[t] = "value"}
  /\ phase = "raised" <=> (phase \in {"returned", "raised"} /\ exceptions # {})

IInv == TypeOK /\ OnePlace /\ ThreadsInv /\ PhaseInv /\ KeptInv
-----------------------------------------------------------------------------
(* The number of threads and of tasks is a natural number. *)
LEMMA Bounds ==
  /\ Cardinality(Task) \in Nat
  /\ Thread = 1 .. (MaxRequest + Cardinality(Task))
  /\ \A S \in SUBSET Task :
       /\ IsFiniteSet(S)
       /\ Cardinality(S) \in 0 .. Cardinality(Task)
       /\ Cardinality(S) = 0 <=> S = {}
BY PoolAssumption, FS_CardinalityType, FS_Subset, FS_EmptySet DEF Thread

(* A counter equal to the number of tasks leaves none uncollected. *)
LEMMA AllCollected ==
  ASSUME TypeOK, OnePlace, found = Cardinality(tasks)
  PROVE  Collected = tasks /\ Finished = tasks /\ taskQueue = {} /\ Held = {}
         /\ resultQueue = {}
<1>1. Collected \subseteq Finished /\ Finished \subseteq tasks
  BY DEF Collected, OnePlace
<1>2. Collected = tasks
  BY <1>1, Bounds, FS_Subset DEF TypeOK, OnePlace
<1>3. Finished = tasks /\ taskQueue = {} /\ Held = {}
  BY <1>1, <1>2 DEF OnePlace
<1>4. \A r \in resultQueue : r.task \in Delivered /\ r.task \in Finished
  BY DEF OnePlace, TypeOK, Result, Delivered, Finished, Outcomes
<1>5. resultQueue = {}
  BY <1>1, <1>2, <1>3, <1>4 DEF Collected
<1> QED  BY <1>2, <1>3, <1>5
-----------------------------------------------------------------------------
LEMMA InitIInv == Init => IInv
<1> SUFFICES ASSUME Init PROVE IInv
  OBVIOUS
<1>1. Held = {} /\ Finished = {} /\ Collected = {}
  BY DEF Init, Held, Finished, Collected, Outcomes
<1>2. TypeOK
  BY Bounds, PoolAssumption DEF Init, TypeOK, Phases
<1>3. OnePlace
  BY <1>1, FS_EmptySet DEF Init, OnePlace
<1>4. ThreadsInv /\ PhaseInv
  BY <1>1, FS_EmptySet DEF Init, ThreadsInv, PhaseInv
<1>5. KeptInv
  BY <1>1 DEF Init, KeptInv
<1> QED  BY <1>2, <1>3, <1>4, <1>5 DEF IInv

LEMMA CallIInv ==
  ASSUME IInv, NEW n \in Request, NEW S \in SUBSET Task, Call(n, S)
  PROVE  IInv'
<1> USE DEF IInv
<1>1. /\ Held = {} /\ Finished = {} /\ taskQueue = {}
      /\ \A k \in Thread : thread[k] = "new"
  BY Bounds DEF Call, PhaseInv, OnePlace, ThreadsInv, TypeOK, Held
<1>2. resultQueue = {} /\ Collected = {}
  BY <1>1 DEF OnePlace, Collected, Delivered, Finished, TypeOK, Result, Outcomes
<1>3. Held' = {} /\ Finished' = {} /\ Collected' = {}
  BY <1>1, <1>2 DEF Call, Held, Finished, Collected, Delivered
<1>4. Resolve(n, S) \in -1 .. (MaxRequest + Cardinality(Task))
  BY Bounds, PoolAssumption DEF Resolve, Request
<1>5. TypeOK'
  BY <1>4 DEF Call, TypeOK, Phases
<1>6. OnePlace'
  BY <1>1, <1>2, <1>3, FS_EmptySet DEF Call, OnePlace, PhaseInv
<1>7. ThreadsInv'
  BY <1>1 DEF Call, ThreadsInv, PhaseInv, TypeOK
<1>8. PhaseInv'
  BY <1>1, <1>4, Bounds DEF Call, PhaseInv
<1>9. KeptInv'
  BY <1>1, <1>2, <1>3 DEF Call, KeptInv
<1> QED  BY <1>5, <1>6, <1>7, <1>8, <1>9

LEMMA StartThreadIInv ==
  ASSUME IInv, StartThread
  PROVE  IInv'
<1> USE DEF IInv
<1>1. started + 1 \in Thread /\ started \in Nat /\ started + 1 <= nrWorkers
  BY Bounds, PoolAssumption DEF StartThread, PhaseInv, TypeOK
<1>2. thread[started + 1] = "new"
  BY <1>1 DEF ThreadsInv
<1>3. \A k \in Thread : thread'[k] = "busy" <=> thread[k] = "busy"
  BY <1>1, <1>2 DEF StartThread, TypeOK
<1>4. Held' = Held /\ Finished' = Finished /\ Collected' = Collected
  BY <1>3 DEF StartThread, Held, Finished, Collected, Delivered
<1>5. TypeOK'
  BY <1>1, Bounds, PoolAssumption DEF StartThread, TypeOK, Phases
<1>6. OnePlace'
  BY <1>3, <1>4 DEF StartThread, OnePlace
<1>7. ThreadsInv'
  BY <1>1, <1>3 DEF StartThread, ThreadsInv, TypeOK, Thread
<1>8. PhaseInv'
  BY <1>1, Bounds DEF StartThread, PhaseInv, TypeOK
<1>9. KeptInv'
  BY <1>4 DEF StartThread, KeptInv
<1> QED  BY <1>5, <1>6, <1>7, <1>8, <1>9

LEMMA CollectIInv ==
  ASSUME IInv, Collect
  PROVE  IInv'
<1> USE DEF IInv
<1>1. PICK r \in resultQueue : Keep(r) /\ resultQueue' = resultQueue \ {r}
  BY DEF Collect
<1>2. r.task \in Task /\ outcome[r.task] = r.outcome /\ r.outcome \in Outcomes
  BY DEF OnePlace, TypeOK, Result
<1>3. \A q \in resultQueue : q.task = r.task => q = r
  BY DEF OnePlace, TypeOK, Result
<1>4. /\ Held' = Held /\ Finished' = Finished
      /\ r.task \in Finished /\ r.task \notin Collected
      /\ Collected' = Collected \cup {r.task}
  BY <1>1, <1>2, <1>3 DEF Collect, threadVars, Held, Finished, Collected, Delivered
<1>5. IsFiniteSet(Collected) /\ Collected \subseteq tasks
  BY Bounds DEF TypeOK, OnePlace, Collected, Finished
<1>6. Cardinality(Collected') = found + 1 /\ Collected' \subseteq tasks
  BY <1>4, <1>5, FS_AddElement DEF OnePlace
<1>7. TypeOK'
  BY <1>1, <1>2 DEF Collect, Keep, TypeOK, threadVars, Phases
<1>8. OnePlace'
  BY <1>1, <1>4, <1>6 DEF Collect, threadVars, OnePlace
<1>9. ThreadsInv'
  BY DEF Collect, threadVars, ThreadsInv
<1>10. PhaseInv'
  <2>1. found + 1 <= Cardinality(tasks)
    BY <1>6, Bounds, FS_Subset DEF TypeOK
  <2> QED  BY <2>1, Bounds DEF Collect, AllFound, PhaseInv, TypeOK
<1>11. KeptInv'
  BY <1>1, <1>2, <1>4 DEF Collect, threadVars, Keep, KeptInv
<1> QED  BY <1>7, <1>8, <1>9, <1>10, <1>11

LEMMA JoinIInv ==
  ASSUME IInv, Join
  PROVE  IInv'
<1> USE DEF IInv
<1>1. Held' = Held /\ Finished' = Finished /\ Collected' = Collected
  BY DEF Join, threadVars, Held, Finished, Collected, Delivered
<1>2. \A n \in Thread : thread[n] \in {"new", "exited"}
  BY Bounds DEF Join, ThreadsInv, Thread, TypeOK
<1>3. TypeOK' /\ OnePlace' /\ ThreadsInv'
  BY <1>1 DEF Join, Verdict, threadVars, TypeOK, OnePlace, ThreadsInv, Phases
<1>4. PhaseInv' /\ KeptInv'
  BY <1>1, <1>2 DEF Join, Verdict, threadVars, PhaseInv, KeptInv
<1> QED  BY <1>3, <1>4

LEMMA InterruptIInv ==
  ASSUME IInv, Interrupt
  PROVE  IInv'
<1> USE DEF IInv
<1>1. Held' = Held /\ Finished' = Finished /\ Collected' = Collected
  BY DEF Interrupt, threadVars, Held, Finished, Collected, Delivered
<1> QED
  BY <1>1 DEF Interrupt, threadVars, TypeOK, OnePlace, ThreadsInv, PhaseInv,
              KeptInv, Phases

LEMMA GetIInv ==
  ASSUME IInv, NEW n \in Thread, NEW t \in Task, Get(n, t)
  PROVE  IInv'
<1> USE DEF IInv
<1>1. \A k \in Thread : /\ thread'[k] = (IF k = n THEN "busy" ELSE thread[k])
                        /\ holds'[k] = (IF k = n THEN t ELSE holds[k])
  BY DEF Get, TypeOK
<1>2. Held' = Held \cup {t}
  BY <1>1 DEF Get, Held, TypeOK
<1>3. Finished' = Finished /\ Collected' = Collected
  BY DEF Get, Finished, Collected, Delivered
<1>4. TypeOK'
  BY DEF Get, Without, callerVars, TypeOK
<1>5. t \notin Held /\ t \notin Finished /\ t \in tasks
  BY DEF Get, OnePlace
<1>6. \A k, j \in Thread :
        thread'[k] = "busy" /\ thread'[j] = "busy" /\ holds'[k] = holds'[j] => k = j
  BY <1>1, <1>5 DEF OnePlace, Held
<1>7. OnePlace'
  BY <1>2, <1>3, <1>5, <1>6 DEF Get, Without, callerVars, OnePlace
<1>8. ThreadsInv' /\ PhaseInv' /\ KeptInv'
  BY <1>1, <1>3 DEF Get, callerVars, ThreadsInv, PhaseInv, KeptInv
<1> QED  BY <1>4, <1>7, <1>8

LEMMA PutIInv ==
  ASSUME IInv, NEW n \in Thread, NEW o \in Outcomes, Put(n, o)
  PROVE  IInv'
<1> USE DEF IInv
<1> DEFINE t == holds[n]
<1>1. t \in Held /\ t \in Task /\ t \in tasks /\ t \notin Finished
  BY DEF Put, ThreadsInv, Held, OnePlace, TypeOK
<1>2. \A k \in Thread : /\ thread'[k] = (IF k = n THEN "idle" ELSE thread[k])
                        /\ holds'[k] = (IF k = n THEN NoTask ELSE holds[k])
  BY DEF Put, TypeOK
<1>3. \A u \in Task : outcome'[u] = (IF u = t THEN o ELSE outcome[u])
  BY <1>1 DEF Put, TypeOK
<1>4. Held' = Held \ {t}
  BY <1>1, <1>2 DEF Put, Held, OnePlace
<1>5. Finished' = Finished \cup {t}
  BY <1>1, <1>3 DEF Finished
<1>6. Delivered' = Delivered \cup {t}
  <2> DEFINE put == [task |-> t, outcome |-> o]
  <2>1. put.task = t
    OBVIOUS
  <2>2. resultQueue' = resultQueue \cup {put}
    BY DEF Put
  <2> HIDE DEF put
  <2> QED  BY <2>1, <2>2 DEF Delivered
<1>7. Collected' = Collected
  BY <1>1, <1>5, <1>6 DEF Collected
<1>8. TypeOK'
  BY <1>1 DEF Put, callerVars, TypeOK, Result
<1>9. \A r \in resultQueue : r.task \in Finished
  BY DEF OnePlace, TypeOK, Result, Finished
<1>10. \A r \in resultQueue' : outcome'[r.task] = r.outcome
  BY <1>1, <1>3, <1>9 DEF Put, OnePlace, TypeOK, Result
<1>11. OnePlace'
  BY <1>1, <1>2, <1>4, <1>5, <1>7, <1>10 DEF Put, callerVars, OnePlace
<1>12. ThreadsInv' /\ PhaseInv'
  BY <1>2 DEF Put, callerVars, ThreadsInv, PhaseInv
<1>13. \A u \in Collected : outcome'[u] = outcome[u]
  BY <1>1, <1>3 DEF Collected, Finished
<1>14. KeptInv'
  BY <1>7, <1>13 DEF Put, callerVars, KeptInv
<1> QED  BY <1>8, <1>11, <1>12, <1>14

LEMMA ExitIInv ==
  ASSUME IInv, NEW n \in Thread, Exit(n)
  PROVE  IInv'
<1> USE DEF IInv
<1>1. \A k \in Thread : thread'[k] = (IF k = n THEN "exited" ELSE thread[k])
  BY DEF Exit, TypeOK
<1>2. Held' = Held /\ Finished' = Finished /\ Collected' = Collected
  BY <1>1 DEF Exit, Held, Finished, Collected, Delivered
<1>3. TypeOK' /\ OnePlace'
  BY <1>1, <1>2 DEF Exit, callerVars, TypeOK, OnePlace
<1>4. ThreadsInv' /\ PhaseInv' /\ KeptInv'
  BY <1>1, <1>2 DEF Exit, callerVars, ThreadsInv, PhaseInv, KeptInv
<1> QED  BY <1>3, <1>4

LEMMA StutterIInv == IInv /\ UNCHANGED vars => IInv'
BY DEF IInv, vars, TypeOK, OnePlace, ThreadsInv, PhaseInv, KeptInv, Held,
       Finished, Collected, Delivered

LEMMA NextIInv == IInv /\ [Next]_vars => IInv'
<1> SUFFICES ASSUME IInv, [Next]_vars PROVE IInv'
  OBVIOUS
<1>1. CASE \E n \in Request, S \in SUBSET Task : Call(n, S)
  BY <1>1, CallIInv
<1>2. CASE CallerStep
  BY <1>2, StartThreadIInv, CollectIInv, JoinIInv DEF CallerStep
<1>3. CASE Interrupt
  BY <1>3, InterruptIInv
<1>4. CASE \E n \in Thread : ThreadStep(n)
  BY <1>4, GetIInv, PutIInv, ExitIInv DEF ThreadStep
<1>5. CASE UNCHANGED vars
  BY <1>5, StutterIInv
<1> QED  BY <1>1, <1>2, <1>3, <1>4, <1>5 DEF Next

THEOREM Invariance == Spec => []IInv
BY InitIInv, NextIInv, PTL DEF Spec
-----------------------------------------------------------------------------
(* Every variable keeps its type: the caller's counters, the queues and what
   each thread holds (run_tasks, nixops/parallel.py:41). *)
THEOREM TypeCorrect == Spec => []TypeOK
<1>1. IInv => TypeOK
  BY DEF IInv
<1> QED  BY Invariance, <1>1, PTL

(* No task is lost or run twice, for any number of tasks and threads
   (nixops/parallel.py:60-74). *)
THEOREM Conservation == Spec => []OnePlace
<1>1. IInv => OnePlace
  BY DEF IInv
<1> QED  BY Invariance, <1>1, PTL

(* When run_tasks gives control back, no task is left and no thread runs
   (nixops/parallel.py:87-111). *)
THEOREM QuietReturn == Spec => []DoneMeansQuiet
<1>1. IInv => DoneMeansQuiet
  BY AllCollected DEF IInv, DoneMeansQuiet, PhaseInv
<1> QED  BY Invariance, <1>1, PTL

(* run_tasks raises iff a task raised, and returns the truthy results
   (nixops/parallel.py:97-111). *)
THEOREM RightVerdict == Spec => []VerdictFits
<1>1. ASSUME IInv, phase \in {"returned", "raised"}
      PROVE  /\ exceptions = {NameOf[t] : t \in {u \in tasks : outcome[u] = "error"}}
             /\ results = {t \in tasks : outcome[t] = "value"}
             /\ (phase = "raised") = (\E t \in tasks : outcome[t] = "error")
  <2>1. Collected = tasks
    BY <1>1, AllCollected DEF IInv, PhaseInv
  <2>2. /\ exceptions = {NameOf[t] : t \in {u \in tasks : outcome[u] = "error"}}
        /\ results = {t \in tasks : outcome[t] = "value"}
    BY <1>1, <2>1 DEF IInv, KeptInv
  <2>3. (exceptions # {}) = (\E t \in tasks : outcome[t] = "error")
    BY <2>2
  <2>4. (phase = "raised") = (exceptions # {})
    BY <1>1 DEF IInv, KeptInv
  <2> QED  BY <2>2, <2>3, <2>4
<1>2. IInv => VerdictFits
  BY <1>1 DEF VerdictFits
<1> QED  BY Invariance, <1>2, PTL
-----------------------------------------------------------------------------
(* Refinement: each step of the pool is a step of ParallelMap, or none.    *)

(* The abstract module counts with the same Cardinality. *)
LEMMA SameCardinality == \A S : PM!Cardinality(S) = Cardinality(S)
<1>1. \A S : PM!IsFiniteSet(S) <=> IsFiniteSet(S)
  BY DEF PM!IsFiniteSet, IsFiniteSet
<1> QED  BY <1>1 DEF PM!Cardinality, Cardinality

LEMMA PoolHeld ==
  ASSUME IInv
  PROVE  /\ \A t \in Held : MapStatus[t] = "running"
         /\ PM!Running = Held
         /\ \A t \in tasks : t \in taskQueue \/ t \in Held \/ outcome[t] \in Outcomes
BY DEF IInv, OnePlace, MapStatus, PM!Running, Held, Finished, Outcomes, TypeOK

(* A thread that is about to take a task leaves room for one: the busy threads
   are among the other ones started. *)
LEMMA RoomForOne ==
  ASSUME IInv, NEW n \in Thread, thread[n] = "idle"
  PROVE  Cardinality(PM!Running) < nrWorkers
<1> DEFINE others == (1 .. started) \ {n}
           f == [t \in Held |-> CHOOSE k \in Thread : thread[k] = "busy" /\ holds[k] = t]
<1>1. started \in Nat /\ n \in 1 .. started /\ started <= nrWorkers
  BY Bounds, PoolAssumption DEF IInv, TypeOK, ThreadsInv
<1>2. IsFiniteSet(others) /\ Cardinality(others) = started - 1
  <2>1. IsFiniteSet(1 .. started) /\ Cardinality(1 .. started) = started
    BY <1>1, FS_Interval, 1 \in Int, started \in Int
  <2> QED  BY <1>1, <2>1, FS_RemoveElement
<1>3. \A t \in Held : f[t] \in Thread /\ thread[f[t]] = "busy" /\ holds[f[t]] = t
  BY DEF Held
<1>4. \A t \in Held : f[t] \in others
  BY <1>3, Bounds DEF IInv, ThreadsInv, TypeOK
<1>5. f \in Injection(Held, others)
  BY <1>3, <1>4 DEF Injection, IsInjective
<1>6. IsFiniteSet(Held) /\ Cardinality(Held) <= started - 1
  BY <1>2, <1>5, FS_Injection
<1>7. Cardinality(Held) \in Nat /\ nrWorkers \in Int
  BY <1>6, FS_CardinalityType DEF IInv, TypeOK
<1> QED  BY <1>1, <1>6, <1>7, PoolHeld

LEMMA InitRefines == Init => PM!Init
BY DEF Init, PM!Init, MapStatus, MapVerdict, Held

LEMMA CallRefines ==
  ASSUME IInv, NEW n \in Request, NEW S \in SUBSET Task, Call(n, S)
  PROVE  PM!Call(n, S)
<1>1. Held' = {} /\ taskQueue' = S /\ tasks' = S
  BY Bounds DEF IInv, Call, PhaseInv, ThreadsInv, TypeOK, Held
<1>2. MapStatus' = [t \in Task |-> IF t \in S THEN "queued" ELSE "idle"]
  BY <1>1 DEF MapStatus
<1>3. MapVerdict = "none" /\ nrWorkers' = PM!Workers(n, S)
  BY SameCardinality DEF Call, MapVerdict, PM!Workers, Resolve
<1>4. MapVerdict' = IF S = {} THEN "returned"
                    ELSE IF PM!Workers(n, S) < 1 THEN "rejected" ELSE "open"
  BY SameCardinality DEF Call, MapVerdict, PM!Workers, Resolve
<1> QED  BY <1>2, <1>3, <1>4 DEF PM!Call

LEMMA JoinRefines ==
  ASSUME IInv, Join
  PROVE  PM!Return
<1>1. Collected = tasks /\ Finished = tasks /\ taskQueue = {} /\ Held = {}
  BY AllCollected DEF IInv, Join, PhaseInv
<1>2. MapStatus = [t \in Task |-> IF t \in tasks THEN outcome[t] ELSE "idle"]
  BY <1>1 DEF MapStatus
<1>3. PM!Submitted = tasks /\ PM!Ended = tasks
  BY <1>1, <1>2 DEF PM!Submitted, PM!Ended, PM!Outcomes, Finished, Outcomes,
     IInv, TypeOK
<1>4. PM!Failed = {} <=> exceptions = {}
  BY <1>1, <1>2 DEF PM!Failed, IInv, KeptInv, TypeOK
<1>5. Held' = Held /\ UNCHANGED <<MapStatus, nrWorkers>>
  BY DEF Join, threadVars, Held, MapStatus
<1>6. MapVerdict = "open" /\ MapVerdict' = (IF PM!Failed = {} THEN "returned" ELSE "raised")
  BY <1>4 DEF Join, Verdict, MapVerdict
<1> QED  BY <1>3, <1>5, <1>6 DEF PM!Return

LEMMA GetRefines ==
  ASSUME IInv, NEW n \in Thread, NEW t \in Task, Get(n, t)
  PROVE  PM!Begin(t)
<1>1. MapVerdict \in {"open", "abandoned"}
  BY Bounds DEF IInv, TypeOK, PhaseInv, ThreadsInv, Get, MapVerdict, Phases
<1>2. Cardinality(PM!Running) < nrWorkers
  BY RoomForOne DEF Get
<1>3. t \notin Held /\ t \in taskQueue /\ t \in tasks
  BY DEF IInv, OnePlace, Get
<1>4. Held' = Held \cup {t}
  BY DEF IInv, TypeOK, Get, Held
<1>5. MapStatus' = [MapStatus EXCEPT ![t] = "running"] /\ MapStatus[t] = "queued"
  BY <1>3, <1>4 DEF Get, Without, MapStatus, OnePlace, IInv
<1>6. UNCHANGED <<nrWorkers, MapVerdict>>
  BY DEF Get, callerVars, MapVerdict
<1> QED  BY <1>1, <1>2, <1>5, <1>6, SameCardinality DEF PM!Begin

LEMMA PutRefines ==
  ASSUME IInv, NEW n \in Thread, NEW o \in Outcomes, Put(n, o)
  PROVE  PM!End(holds[n], o)
<1> DEFINE t == holds[n]
<1>1. t \in Held /\ t \in Task /\ t \in tasks /\ t \notin taskQueue
  BY DEF IInv, Put, ThreadsInv, Held, OnePlace, TypeOK
<1>2. Held' = Held \ {t}
  BY <1>1 DEF IInv, TypeOK, Put, Held, OnePlace
<1>3. \A u \in Task : outcome'[u] = (IF u = t THEN o ELSE outcome[u])
  BY <1>1 DEF Put, IInv, TypeOK
<1>4. MapStatus' = [MapStatus EXCEPT ![t] = o]
  BY <1>1, <1>2, <1>3 DEF Put, MapStatus
<1>5. MapStatus[t] = "running"
  BY <1>1, PoolHeld
<1>6. UNCHANGED <<nrWorkers, MapVerdict>>
  BY DEF Put, callerVars, MapVerdict
<1> QED  BY <1>4, <1>5, <1>6 DEF PM!End

(* Starting a thread, collecting a result and a thread's exit are invisible. *)
LEMMA HiddenRefines ==
  ASSUME IInv,
         StartThread \/ Collect \/ (\E n \in Thread : Exit(n)) \/ UNCHANGED vars
  PROVE  UNCHANGED <<MapStatus, nrWorkers, MapVerdict>>
<1>1. CASE StartThread
  <2>1. started + 1 \in Thread /\ thread[started + 1] = "new"
    BY <1>1, Bounds, PoolAssumption DEF IInv, StartThread, PhaseInv, ThreadsInv, TypeOK
  <2>2. Held' = Held
    BY <1>1, <2>1 DEF IInv, TypeOK, StartThread, Held
  <2> QED  BY <1>1, <2>2 DEF StartThread, MapStatus, MapVerdict
<1>2. CASE Collect
  <2>1. Held' = Held
    BY <1>2 DEF Collect, threadVars, Held
  <2> QED  BY <1>2, <2>1 DEF Collect, threadVars, MapStatus, MapVerdict
<1>3. ASSUME NEW n \in Thread, Exit(n)
      PROVE  UNCHANGED <<MapStatus, nrWorkers, MapVerdict>>
  <2>1. Held' = Held
    BY <1>3 DEF IInv, TypeOK, Exit, Held
  <2> QED  BY <1>3, <2>1 DEF Exit, callerVars, MapStatus, MapVerdict
<1>4. CASE UNCHANGED vars
  BY <1>4 DEF vars, MapStatus, MapVerdict, Held
<1> QED  BY <1>1, <1>2, <1>3, <1>4

LEMMA InterruptRefines == IInv /\ Interrupt => PM!Abandon
<1> SUFFICES ASSUME IInv, Interrupt PROVE PM!Abandon
  OBVIOUS
<1>1. Held' = Held
  BY DEF Interrupt, threadVars, Held
<1> QED  BY <1>1 DEF Interrupt, threadVars, MapStatus, MapVerdict, PM!Abandon

LEMMA NextRefines == IInv /\ [Next]_vars => [PM!Next]_(PM!vars)
<1> SUFFICES ASSUME IInv, [Next]_vars PROVE [PM!Next]_(PM!vars)
  OBVIOUS
<1>1. CASE \E n \in Request, S \in SUBSET Task : Call(n, S)
  BY <1>1, CallRefines DEF PM!Next, PM!Request, Request
<1>2. CASE Join
  BY <1>2, JoinRefines DEF PM!Next
<1>3. CASE Interrupt
  BY <1>3, InterruptRefines DEF PM!Next
<1>4. CASE \E n \in Thread, t \in Task : Get(n, t)
  BY <1>4, GetRefines DEF PM!Next
<1>5. ASSUME NEW n \in Thread, NEW o \in Outcomes, Put(n, o)
      PROVE  PM!Next
  <2>1. holds[n] \in Task
    BY <1>5 DEF IInv, ThreadsInv, Put
  <2> QED  BY <1>5, <2>1, PutRefines DEF PM!Next, PM!Outcomes, Outcomes
<1>6. CASE StartThread \/ Collect \/ (\E n \in Thread : Exit(n)) \/ UNCHANGED vars
  BY <1>6, HiddenRefines DEF PM!vars
<1> QED  BY <1>1, <1>2, <1>3, <1>4, <1>5, <1>6 DEF Next, CallerStep, ThreadStep

(* run_tasks, with its queues and threads, keeps what ParallelMap promises the
   callers in nixops/deployment.py and nixops/script_defs.py. *)
THEOREM PoolRefinesMap == Spec => Refinement
BY InitRefines, NextRefines, Invariance, PTL DEF Spec, Refinement, PM!Spec
=============================================================================
