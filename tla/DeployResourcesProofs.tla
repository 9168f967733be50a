----------------------- MODULE DeployResourcesProofs -----------------------
(***************************************************************************)
(* The safety of DeployResources for every finite set of resources, every  *)
(* create_after relation (cyclic ones too: a cycle costs liveness only)    *)
(* and any number of commands; and, in the last four parts, the safety of  *)
(* Backups, which the passes have nothing to do with, for every set of     *)
(* machines, any number of backups and any sequence of commands.           *)
(***************************************************************************)
EXTENDS DeployResources, Backups, FiniteSetTheorems, SequenceTheorems, TLAPS

(***************************************************************************)
(* The inductive invariant.  What the command is determines which pass may *)
(* be under way; what the pool says of a task fixes what its worker does;  *)
(* and in a creation pass a resource that is no longer waited for has been *)
(* created.                                                                *)
(***************************************************************************)
CommandInv ==
  /\ command = "none" => pass = "none"
  /\ command = "deploy" => defined \subseteq known
  /\ pass = "create" => command = "deploy" /\ ~ dry
  /\ pass = "destroy" /\ command = "deploy" => kill
  /\ pass = "none" => verdict = "none"
  /\ verdict = "none" => \A r \in Resource : status[r] = "idle"
  /\ verdict = "returned" =>
       \A r \in Resource : status[r] \in {"idle", "value", "nothing"}

WorkerOK(r) ==
  /\ pc[r] # "idle" <=> status[r] = "running"
  /\ pc[r] \in {"waiting", "acting", "deleting", "raising"} => r \in ToDo
  /\ pc[r] = "acting" => waits[r] = {}
  /\ pc[r] = "deleting" => pass = "destroy" /\ r \notin exists
  /\ pc[r] = "raising" => r \in errored
  /\ r \in event <=> status[r] \in Pool!Outcomes
  /\ pass = "create" => (status[r] # "idle" <=> r \in defined)
  /\ r \in errored => r \in event \/ pc[r] \in {"ending", "raising"}
  /\ r \in errored => \E f \in Resource : pc[f] = "raising" \/ status[f] = "error"

WorkerInv == \A r \in Resource : WorkerOK(r)

OrderInv ==
  pass = "create" =>
    \A r \in Resource :
      /\ \A d \in Prerequisites(r) :
           d \in waits[r] \/ (d \in event /\ d \notin errored)
      /\ r \in ToDo /\ r \notin errored /\ (r \in event \/ pc[r] = "ending")
           => r \in exists

IInv == TypeOK /\ NothingForgotten /\ CommandInv /\ WorkerInv /\ OrderInv
-----------------------------------------------------------------------------
LEMMA InitIInv == Init => IInv
<1> SUFFICES ASSUME Init PROVE IInv
  OBVIOUS
<1>1. issued \in 0 .. MaxCommands
  BY ResourceAssumption DEF Init
<1>2. waits \in [Resource -> SUBSET Resource]
  BY DEF Init
<1>3. Pool!TypeOK
  BY DEF Init, Pool!Init, Pool!TypeOK, Pool!Statuses, Pool!Verdicts
<1>4. TypeOK
  BY <1>1, <1>2, <1>3 DEF Init, TypeOK
<1>5. NothingForgotten /\ CommandInv /\ WorkerInv /\ OrderInv
  BY DEF Init, NothingForgotten, CommandInv, WorkerInv, WorkerOK, OrderInv, Pool!Init,
     Pool!Outcomes
<1> QED  BY <1>4, <1>5 DEF IInv

LEMMA StartIInv ==
  ASSUME IInv,
         (\E D, S \in SUBSET Resource, k, d \in BOOLEAN : StartDeploy(D, S, k, d))
           \/ (\E S \in SUBSET Resource : StartDestroy(S))
  PROVE  IInv'
<1> USE DEF IInv
<1>1. pass = "none" /\ pass' = "none" /\ \A r \in Resource : pc[r] = "idle"
  BY DEF StartDeploy, StartDestroy, CommandInv, WorkerInv, WorkerOK
<1>2. TypeOK'
  <2>1. issued' \in 0 .. MaxCommands
    BY ResourceAssumption DEF StartDeploy, StartDestroy, TypeOK
  <2>2. Pool!TypeOK'
    BY DEF StartDeploy, StartDestroy, poolVars, TypeOK, Pool!TypeOK
  <2> QED  BY <2>1, <2>2 DEF StartDeploy, StartDestroy, workerVars, TypeOK
<1>3. NothingForgotten' /\ CommandInv' /\ OrderInv'
  BY <1>1 DEF StartDeploy, StartDestroy, workerVars, poolVars, NothingForgotten,
     CommandInv, OrderInv
<1>4. WorkerInv'
  BY <1>1 DEF StartDeploy, StartDestroy, workerVars, poolVars, WorkerInv, WorkerOK
<1> QED  BY <1>2, <1>3, <1>4

LEMMA PassIInv ==
  ASSUME IInv, DestroyPass \/ CreatePass
  PROVE  IInv'
<1> USE DEF IInv
<1>1. \A r \in Resource : pc[r] = "idle" /\ pc'[r] = "idle"
  BY DEF DestroyPass, CreatePass, CommandInv, WorkerInv, WorkerOK
<1>2. PICK S \in SUBSET Resource : Pool!Call(-1, S) /\ (pass' = "create" => S = defined)
  BY DEF DestroyPass, CreatePass, TypeOK
<1>3. \A r \in Resource : status'[r] = (IF r \in S THEN "queued" ELSE "idle")
  BY <1>2 DEF Pool!Call
<1>4. verdict' \in {"returned", "rejected", "open"}
      /\ (verdict' = "returned" => S = {})
  BY <1>2 DEF Pool!Call
<1>5. Pool!Workers(-1, S) \in Int
  <2>1. \A T : Pool!Cardinality(T) = Cardinality(T)
    <3>1. \A T : Pool!IsFiniteSet(T) <=> IsFiniteSet(T)
      BY DEF Pool!IsFiniteSet, IsFiniteSet
    <3> QED  BY <3>1 DEF Pool!Cardinality, Cardinality
  <2>2. Cardinality(S) \in Nat
    BY ResourceAssumption, FS_Subset, FS_CardinalityType
  <2> QED  BY <2>1, <2>2 DEF Pool!Workers
<1>6. TypeOK'
  BY <1>1, <1>2, <1>4, <1>5 DEF DestroyPass, CreatePass, commandVars, TypeOK, Dependents,
     Prerequisites, Pool!TypeOK, Pool!Call, Pool!Statuses, Pool!Verdicts
<1>7. NothingForgotten' /\ CommandInv'
  BY <1>1, <1>3, <1>4 DEF DestroyPass, CreatePass, commandVars, NothingForgotten,
     CommandInv, obsolete
<1>8. WorkerInv'
  BY <1>1, <1>2, <1>3 DEF DestroyPass, CreatePass, commandVars, WorkerInv, WorkerOK, Pool!Outcomes
<1>9. OrderInv'
  BY <1>1 DEF DestroyPass, CreatePass, commandVars, OrderInv, Prerequisites
<1> QED  BY <1>6, <1>7, <1>8, <1>9

LEMMA PassEndsIInv ==
  ASSUME IInv, PassEnds
  PROVE  IInv'
<1> USE DEF IInv
<1>1. \A r \in Resource : status[r] = "running" => FALSE
  BY DEF PassEnds, Pool!Return, Pool!Submitted, Pool!Ended, Pool!Outcomes
<1>2. verdict' = "returned" =>
        \A r \in Resource : status[r] \in {"idle", "value", "nothing"}
  BY DEF PassEnds, Pool!Return, Pool!Submitted, Pool!Ended, Pool!Failed, Pool!Outcomes
<1>3. TypeOK'
  BY DEF PassEnds, Pool!Return, commandVars, workerVars, TypeOK, Pool!TypeOK, Pool!Verdicts
<1>4. NothingForgotten' /\ WorkerInv' /\ OrderInv'
  BY DEF PassEnds, Pool!Return, commandVars, workerVars, NothingForgotten, WorkerInv, WorkerOK,
     OrderInv, ToDo, Prerequisites
<1>5. CommandInv'
  BY <1>2 DEF PassEnds, Pool!Return, commandVars, workerVars, CommandInv
<1> QED  BY <1>3, <1>4, <1>5

LEMMA GoneIInv ==
  ASSUME IInv, Finish \/ Fail \/ Die
  PROVE  IInv'
<1> USE DEF IInv
<1>1. Gone /\ result' \in {"succeeded", "failed", "died"}
  BY DEF Finish, Fail, Die
<1>2. TypeOK'
  <2>1. Pool!TypeOK'
    BY <1>1 DEF Gone, Pool!TypeOK, Pool!Statuses, Pool!Verdicts
  <2>2. waits' \in [Resource -> SUBSET Resource]
    BY <1>1 DEF Gone
  <2> QED  BY <1>1, <2>1, <2>2 DEF Gone, TypeOK
<1>3. NothingForgotten' /\ CommandInv' /\ OrderInv'
  BY <1>1 DEF Gone, NothingForgotten, CommandInv, OrderInv
<1>4. WorkerInv'
  BY <1>1 DEF Gone, WorkerInv, WorkerOK, Pool!Outcomes
<1> QED  BY <1>2, <1>3, <1>4

LEMMA TakeIInv ==
  ASSUME IInv, NEW r \in Resource, Take(r)
  PROVE  IInv'
<1> USE DEF IInv
<1>1. \A q \in Resource :
        /\ pc'[q] = IF q = r THEN (IF r \in ToDo THEN "waiting" ELSE "ending") ELSE pc[q]
        /\ status'[q] = IF q = r THEN "running" ELSE status[q]
  BY DEF Take, Pool!Begin, TypeOK, Pool!TypeOK
<1>2. status[r] = "queued" /\ pc[r] = "idle" /\ r \notin event
  BY DEF Take, Pool!Begin, WorkerInv, WorkerOK, Pool!Outcomes
<1>3. ToDo' = ToDo /\ UNCHANGED <<verdict, width>>
  BY DEF Take, Pool!Begin, commandVars, ToDo
<1>4. TypeOK'
  BY <1>3 DEF Take, Pool!Begin, commandVars, TypeOK, Pool!TypeOK, Pool!Statuses
<1>5. NothingForgotten' /\ CommandInv'
  BY <1>1, <1>3 DEF Take, Pool!Begin, commandVars, NothingForgotten, CommandInv
<1>6. WorkerInv'
  <2>1. r \notin errored /\ (r \in event <=> FALSE)
    BY <1>2 DEF WorkerInv, WorkerOK, TypeOK
  <2> QED  BY <1>1, <1>2, <1>3, <2>1 DEF Take, commandVars, WorkerInv, WorkerOK, Pool!Outcomes
<1>7. OrderInv'
  BY <1>1, <1>2, <1>3 DEF Take, commandVars, OrderInv, Prerequisites
<1> QED  BY <1>4, <1>5, <1>6, <1>7

LEMMA WaitIInv ==
  ASSUME IInv, NEW r \in Resource, NEW d \in Resource, Wait(r, d)
  PROVE  IInv'
<1> USE DEF IInv
<1>1. ToDo' = ToDo
  BY DEF Wait, commandVars, ToDo
<1>2. TypeOK'
  BY DEF Wait, commandVars, poolVars, TypeOK, Pool!TypeOK
<1>3. NothingForgotten' /\ CommandInv'
  BY DEF Wait, commandVars, poolVars, NothingForgotten, CommandInv
<1>4. r \notin event
  BY DEF Wait, WorkerInv, WorkerOK, Pool!Outcomes
<1>5. \A q \in Resource : q # r => pc'[q] = pc[q] /\ waits'[q] = waits[q]
  BY DEF Wait, TypeOK
<1>6. CASE d \in errored
  <2>1. pc'[r] = "ending" /\ errored' = errored \cup {r} /\ waits' = waits
    BY <1>6 DEF Wait, TypeOK
  <2>2. PICK f \in Resource : f # r /\ (pc[f] = "raising" \/ status[f] = "error")
    BY <1>6 DEF Wait, WorkerInv, WorkerOK
  <2>3. WorkerInv'
    BY <1>1, <1>5, <2>1, <2>2 DEF Wait, commandVars, poolVars, WorkerInv, WorkerOK
  <2>4. OrderInv'
    BY <1>1, <1>4, <1>5, <2>1 DEF Wait, commandVars, poolVars, OrderInv, Prerequisites
  <2> QED  BY <1>2, <1>3, <2>3, <2>4
<1>7. CASE d \notin errored
  <2>1. /\ pc' = pc /\ pc[r] = "waiting" /\ errored' = errored /\ d \in event
        /\ waits'[r] = waits[r] \ {d}
    BY <1>7 DEF Wait, TypeOK
  <2>2. WorkerInv'
    <3>1. \A q \in Resource : WorkerOK(q) => WorkerOK(q)'
      BY <1>1, <1>5, <2>1 DEF Wait, commandVars, poolVars, WorkerOK
    <3> QED  BY <3>1 DEF WorkerInv
  <2>3. OrderInv'
    BY <1>1, <1>5, <1>7, <2>1 DEF Wait, commandVars, poolVars, OrderInv, Prerequisites
  <2> QED  BY <1>2, <1>3, <2>2, <2>3
<1> QED  BY <1>6, <1>7

LEMMA ActIInv ==
  ASSUME IInv, NEW r \in Resource, Act(r)
  PROVE  IInv'
<1> USE DEF IInv
<1>1. \A q \in Resource : pc'[q] = IF q = r THEN "acting" ELSE pc[q]
  BY DEF Act, TypeOK
<1>2. ToDo' = ToDo /\ pc[r] = "waiting"
  BY DEF Act, commandVars, ToDo
<1>3. TypeOK'
  BY DEF Act, commandVars, poolVars, TypeOK, Pool!TypeOK
<1>4. NothingForgotten' /\ CommandInv'
  BY DEF Act, commandVars, poolVars, NothingForgotten, CommandInv
<1>5. WorkerInv'
  BY <1>1, <1>2 DEF Act, commandVars, poolVars, WorkerInv, WorkerOK
<1>6. OrderInv'
  BY <1>1, <1>2 DEF Act, commandVars, poolVars, OrderInv, Prerequisites
<1> QED  BY <1>3, <1>4, <1>5, <1>6

(* What a worker may do to a resource it acts on. *)
LEMMA ActsIInv ==
  ASSUME IInv, NEW r \in Resource, Acts(r)
  PROVE  IInv'
<1> USE DEF IInv
<1>1. PICK where \in {"ending", "deleting", "raising"} : Goes(r, where)
  BY DEF Acts, Created, Destroyed, Declined, Raises
<1>2. \A q \in Resource : pc'[q] = IF q = r THEN where ELSE pc[q]
  BY <1>1 DEF Goes, TypeOK
<1>3. /\ ToDo' = ToDo /\ pc[r] = "acting" /\ r \in ToDo /\ status[r] = "running"
      /\ r \notin event /\ r \notin errored
  BY <1>1 DEF Goes, commandVars, ToDo, WorkerInv, WorkerOK, Pool!Outcomes
<1>4. \A q \in Resource : q # r => (q \in exists' <=> q \in exists) /\ (q \in errored' <=> q \in errored)
  BY DEF Acts, Created, Destroyed, Declined, Raises, Flagged
<1>5. /\ pass = "create" => r \in defined /\ defined \subseteq known
      /\ pass = "create" /\ where = "ending" /\ r \notin errored' => r \in exists'
      /\ pass = "create" /\ r \in exists => r \in exists'
      /\ where = "deleting" => pass = "destroy" /\ r \notin exists'
      /\ r \in errored' <=> where = "raising"
      /\ r \in exists' => r \in exists \/ pass = "create"
  BY <1>1, <1>2, <1>3 DEF Acts, Created, Destroyed, Declined, Raises, Flagged, WorkerInv, WorkerOK,
     CommandInv, Goes, TypeOK
<1>6. exists' \subseteq Resource /\ errored' \subseteq Resource /\ known' = known
  BY DEF Acts, Created, Destroyed, Declined, Raises, Flagged, TypeOK
<1>7. TypeOK'
  BY <1>1, <1>6 DEF Goes, commandVars, poolVars, TypeOK, Pool!TypeOK
<1>8. NothingForgotten'
  BY <1>4, <1>5, <1>6 DEF NothingForgotten, TypeOK
<1>9. CommandInv'
  BY <1>1, <1>6 DEF Goes, commandVars, poolVars, CommandInv
<1>10. WorkerInv'
  <2>1. \A q \in Resource : q # r => WorkerOK(q)'
    <3>1. \A f \in Resource : pc[f] = "raising" \/ status[f] = "error"
                             => pc'[f] = "raising" \/ status'[f] = "error"
      BY <1>1, <1>2, <1>3 DEF Goes, poolVars
    <3> QED  BY <1>1, <1>2, <1>3, <1>4, <3>1 DEF Goes, commandVars, poolVars, WorkerInv,
                WorkerOK
  <2>2. WorkerOK(r)'
    BY <1>1, <1>2, <1>3, <1>5 DEF Goes, commandVars, poolVars, WorkerInv, WorkerOK
  <2> QED  BY <2>1, <2>2 DEF WorkerInv
<1>11. OrderInv'
  <2> SUFFICES ASSUME pass = "create"
               PROVE  OrderInv'
    BY <1>1 DEF Goes, OrderInv
  <2>1. /\ \A q \in Resource : /\ Prerequisites(q)' = Prerequisites(q)
                               /\ Prerequisites(q) \subseteq event \cup waits[q]
        /\ UNCHANGED <<waits, event, pass>>
    BY <1>1 DEF Goes, commandVars, Prerequisites, OrderInv
  <2>2. \A q \in Resource : \A d \in Prerequisites(q) :
           d \in waits'[q] \/ (d \in event' /\ d \notin errored')
    BY <1>1, <1>3, <1>4, <2>1 DEF OrderInv, TypeOK, Prerequisites
  <2>3. ASSUME NEW q \in Resource, q \in ToDo', q \notin errored',
               q \in event' \/ pc'[q] = "ending"
        PROVE  q \in exists'
    <3>1. CASE q = r
      BY <1>2, <1>3, <1>5, <2>1, <2>3, <3>1
    <3>2. CASE q # r
      BY <1>2, <1>3, <1>4, <2>1, <2>3, <3>2 DEF OrderInv
    <3> QED  BY <3>1, <3>2
  <2> QED  BY <2>1, <2>2, <2>3 DEF OrderInv
<1> QED  BY <1>7, <1>8, <1>9, <1>10, <1>11

LEMMA DeleteStateIInv ==
  ASSUME IInv, NEW r \in Resource, DeleteState(r)
  PROVE  IInv'
<1> USE DEF IInv
<1>1. \A q \in Resource : pc'[q] = IF q = r THEN "ending" ELSE pc[q]
  BY DEF DeleteState, TypeOK
<1>2. ToDo' = ToDo /\ pc[r] = "deleting" /\ pass = "destroy" /\ r \notin exists /\ r \in ToDo
  BY DEF DeleteState, commandVars, ToDo, WorkerInv, WorkerOK
<1>3. TypeOK'
  BY DEF DeleteState, commandVars, poolVars, TypeOK, Pool!TypeOK
<1>4. NothingForgotten' /\ CommandInv'
  BY <1>2 DEF DeleteState, commandVars, poolVars, NothingForgotten, CommandInv, ToDo
<1>5. WorkerInv'
  BY <1>1, <1>2 DEF DeleteState, commandVars, poolVars, WorkerInv, WorkerOK
<1>6. OrderInv'
  BY <1>2 DEF DeleteState, OrderInv
<1> QED  BY <1>3, <1>4, <1>5, <1>6

LEMMA SignalIInv ==
  ASSUME IInv, NEW r \in Resource, Signal(r)
  PROVE  IInv'
<1> USE DEF IInv
<1> DEFINE o == OutcomeOf(r)
<1>1. o \in {"nothing", "error"} /\ (o = "error" <=> pc[r] = "raising")
  BY DEF OutcomeOf
<1>2. \A q \in Resource : /\ pc'[q] = IF q = r THEN "idle" ELSE pc[q]
                          /\ status'[q] = IF q = r THEN o ELSE status[q]
  BY DEF Signal, Pool!End, TypeOK, Pool!TypeOK
<1>3. /\ ToDo' = ToDo /\ event' = event \cup {r} /\ status[r] = "running"
      /\ UNCHANGED <<verdict, width>>
  BY DEF Signal, EventsWith, Pool!End, commandVars, ToDo
<1>4. status' \in [Resource -> Pool!Statuses]
  BY <1>1 DEF Signal, Pool!End, TypeOK, Pool!TypeOK, Pool!Statuses, Pool!Outcomes
<1>5. TypeOK'
  BY <1>3, <1>4 DEF Signal, commandVars, TypeOK, Pool!TypeOK
<1>6. verdict # "returned" /\ verdict # "none"
  BY <1>3 DEF CommandInv
<1>7. NothingForgotten' /\ CommandInv'
  BY <1>3, <1>6 DEF Signal, commandVars, NothingForgotten, CommandInv
<1>8. WorkerInv'
  BY <1>1, <1>2, <1>3 DEF Signal, commandVars, WorkerInv, WorkerOK, Pool!Outcomes
<1>9. OrderInv'
  BY <1>1, <1>2, <1>3 DEF Signal, commandVars, OrderInv, WorkerInv, WorkerOK, Prerequisites
<1> QED  BY <1>5, <1>7, <1>8, <1>9

LEMMA StutterIInv == IInv /\ UNCHANGED vars => IInv'
BY DEF IInv, vars, TypeOK, Pool!TypeOK, NothingForgotten, CommandInv, WorkerInv, WorkerOK,
       OrderInv, ToDo, Prerequisites

LEMMA NextIInv == IInv /\ [Next]_vars => IInv'
<1> SUFFICES ASSUME IInv, [Next]_vars PROVE IInv'
  OBVIOUS
<1>1. CASE (\E D, S \in SUBSET Resource, k, d \in BOOLEAN : StartDeploy(D, S, k, d))
             \/ (\E S \in SUBSET Resource : StartDestroy(S))
  BY <1>1, StartIInv
<1>2. CASE CommandStep \/ Die
  BY <1>2, PassIInv, PassEndsIInv, GoneIInv DEF CommandStep
<1>3. ASSUME NEW r \in Resource, WorkerStep(r) PROVE IInv'
  BY <1>3, TakeIInv, WaitIInv, ActIInv, ActsIInv, DeleteStateIInv, SignalIInv DEF WorkerStep
<1>4. CASE UNCHANGED vars
  BY <1>4, StutterIInv
<1> QED  BY <1>1, <1>2, <1>3, <1>4 DEF Next

LEMMA Invariance == Spec => []IInv
<1>1. Init => IInv
  BY InitIInv
<1>2. IInv /\ [Next]_vars => IInv'
  BY NextIInv
<1> QED  BY <1>1, <1>2, PTL DEF Spec
-----------------------------------------------------------------------------
(* Every variable keeps its type. *)
THEOREM TypeCorrect == Spec => []TypeOK
<1>1. IInv => TypeOK
  BY DEF IInv
<1> QED  BY <1>1, Invariance, PTL

(* deployment.py never loses track of a resource that exists: creation starts
   only after the state has a row, and the row goes only after destroy(). *)
THEOREM KeepsTrack == Spec => []NothingForgotten
<1>1. IInv => NothingForgotten
  BY DEF IInv
<1> QED  BY <1>1, Invariance, PTL

(* The worker of _deploy creates a resource after all the selected resources
   create_after gives for it, whatever the relation. *)
THEOREM OrderedCreation == Spec => []CreationOrder
<1>1. IInv => CreationOrder
  <2> SUFFICES ASSUME IInv, pass = "create", NEW r \in Resource, pc[r] = "acting",
                      NEW d \in needs[r] \cap defined \cap selected
               PROVE  d \in exists
    BY DEF CreationOrder
  <2>1. d \in Resource /\ d \in Prerequisites(r) /\ d \in ToDo
    BY DEF IInv, TypeOK, Prerequisites, ToDo
  <2>2. waits[r] = {}
    BY DEF IInv, WorkerInv, WorkerOK
  <2>3. d \in event /\ d \notin errored
    BY <2>1, <2>2 DEF IInv, OrderInv
  <2> QED  BY <2>1, <2>3 DEF IInv, OrderInv
<1> QED  BY <1>1, Invariance, PTL

(* No command creates or destroys a resource it was not asked to. *)
THEOREM Confinement == Spec => OnlyAskedFor
<1> DEFINE Asked ==
      \A r \in Resource :
       /\ r \in exists' \ exists =>
            command = "deploy" /\ ~ dry /\ r \in selected \cap defined
       /\ r \in exists \ exists' =>
            r \in selected /\ (command = "destroy" \/ (kill /\ r \notin defined))
<1>1. IInv /\ [Next]_vars => [Asked]_vars
  <2> SUFFICES ASSUME IInv, Next PROVE Asked
    OBVIOUS
  <2>1. CASE exists' = exists
    BY <2>1
  <2>2. CASE exists' # exists
    <3>1. PICK r \in Resource : Acts(r)
      BY <2>2 DEF Next, StartDeploy, StartDestroy, CommandStep, DestroyPass, CreatePass, PassEnds,
         Finish, Fail, Die, Gone, WorkerStep, Take, Wait, Act, DeleteState, Signal
    <3>2. pc[r] = "acting" /\ r \in ToDo /\ status[r] = "running"
      BY <3>1 DEF Acts, Created, Destroyed, Declined, Raises, Goes, IInv, WorkerInv, WorkerOK
    <3>3. pass \in {"create", "destroy"} /\ command \in {"deploy", "destroy"}
      BY <3>2 DEF IInv, CommandInv, WorkerInv, WorkerOK, TypeOK
    <3>4. IF pass = "create" THEN exists' \in {exists, exists \cup {r}}
                             ELSE exists' \in {exists, exists \ {r}}
      BY <3>1 DEF Acts, Created, Destroyed, Declined, Raises
    <3>5. CASE pass = "create"
      <4>1. command = "deploy" /\ ~ dry /\ r \in defined /\ r \in selected
        BY <3>2, <3>5 DEF IInv, CommandInv, WorkerInv, WorkerOK, ToDo
      <4> QED  BY <3>4, <3>5, <4>1
    <3>6. CASE pass = "destroy"
      <4>1. r \in selected /\ (command = "destroy" \/ (kill /\ r \notin defined))
        BY <3>2, <3>3, <3>6 DEF IInv, CommandInv, ToDo
      <4> QED  BY <3>4, <3>6, <4>1
    <3> QED  BY <3>3, <3>5, <3>6
  <2> QED  BY <2>1, <2>2
<1> QED  BY <1>1, Invariance, PTL DEF Spec, OnlyAskedFor

(* `deploy' succeeds only when every selected resource has been created. *)
THEOREM Delivery == Spec => DeployDelivers
<1> DEFINE Delivered ==
      command = "deploy" /\ ~ dry /\ command' = "none" /\ result' = "succeeded"
       => defined \cap selected \subseteq exists'
<1>1. IInv /\ [Next]_vars => [Delivered]_vars
  <2> SUFFICES ASSUME IInv, Next, command = "deploy", ~ dry, command' = "none",
                      result' = "succeeded"
               PROVE  defined \cap selected \subseteq exists'
    OBVIOUS
  <2>1. Finish
    BY DEF Next, StartDeploy, StartDestroy, CommandStep, DestroyPass, CreatePass, PassEnds, Fail,
       Die, WorkerStep, Take, Wait, Act, Acts, Created, Destroyed, Declined, Raises, Goes,
       DeleteState, Signal, commandVars
  <2>2. pass = "create" /\ verdict = "returned" /\ exists' = exists
    BY <2>1 DEF Finish, Gone
  <2>3. \A r \in Resource : status[r] \in {"idle", "value", "nothing"} /\ pc[r] = "idle"
    BY <2>2 DEF IInv, CommandInv, WorkerInv, WorkerOK
  <2>4. ASSUME NEW r \in defined \cap selected PROVE r \in exists
    <3>1. r \in Resource /\ r \in ToDo
      BY <2>2 DEF IInv, TypeOK, ToDo
    <3>2. r \in event /\ r \notin errored
      BY <2>2, <2>3, <3>1 DEF IInv, WorkerInv, WorkerOK, Pool!Outcomes
    <3> QED  BY <2>2, <3>1, <3>2 DEF IInv, OrderInv
  <2> QED  BY <2>2, <2>4
<1> QED  BY <1>1, Invariance, PTL DEF Spec, DeployDelivers
-----------------------------------------------------------------------------
(* How a failure spreads.                                                  *)

\* A resource waits for those before it until they have ended well; it does
\* not act, and does not end without a flag, before that.
WaitInv ==
  \A r, d \in Resource :
    /\ r \in Pool!Submitted /\ d \in Pool!Submitted /\ After(r, d) =>
         d \in waits[r] \/ (d \in event /\ d \notin errored)
    /\ d \in waits[r] => After(r, d) /\ d \in Pool!Submitted
    /\ r \in ToDo \ errored /\ (r \in event \/ pc[r] \in {"deleting", "ending"}) =>
         waits[r] = {}
    /\ pc[r] = "raising" => waits[r] = {}

FlagInv ==
  /\ Failing \subseteq errored
  /\ errored \subseteq ToDo
  /\ errored \subseteq Failing \cup Blocked

EndInv ==
  verdict \in {"returned", "raised"} =>
    /\ Pool!Submitted = Pool!Ended
    /\ verdict = "raised" <=> Pool!Failed # {}

SpreadInv == WaitInv /\ FlagInv /\ EndInv

LEMMA BlockedLeast ==
  ASSUME NEW B \in SUBSET Acted, Closed(B)
  PROVE  Blocked \subseteq B
BY DEF Blocked

LEMMA BlockedStep ==
  ASSUME NEW r \in Acted, NEW d \in Acted, After(r, d), d \in Failing \cup Blocked
  PROVE  r \in Blocked
<1> SUFFICES ASSUME NEW B \in SUBSET Acted, Closed(B) PROVE r \in B
  BY DEF Blocked
<1>1. d \in Failing \cup B
  BY BlockedLeast
<1> QED BY <1>1 DEF Closed

LEMMA BlockedGrows ==
  ASSUME Acted' = Acted, UNCHANGED <<pass, needs>>, Failing \subseteq Failing'
  PROVE  Blocked \subseteq Blocked'
<1>1. \A r, d : After(r, d)' <=> After(r, d)
  BY DEF After
<1>2. ASSUME NEW B \in SUBSET Acted, Closed(B)' PROVE Closed(B)
  BY <1>1, <1>2 DEF Closed
<1> QED BY <1>2 DEF Blocked

\* Between the passes nobody waits.
LEMMA RestSpread ==
  ASSUME \A r \in Resource : status'[r] = "idle" /\ pc'[r] = "idle" /\ waits'[r] = {},
         event' = {}, errored' = {}, verdict' = "none"
  PROVE  SpreadInv'
<1>1. WaitInv'
  BY DEF WaitInv, Pool!Submitted
<1>2. FlagInv'
  BY DEF FlagInv, Failing
<1> QED BY <1>1, <1>2 DEF SpreadInv, EndInv

LEMMA StartSpread ==
  ASSUME IInv, SpreadInv,
         (\E D, S \in SUBSET Resource, k, d \in BOOLEAN : StartDeploy(D, S, k, d))
           \/ (\E S \in SUBSET Resource : StartDestroy(S))
  PROVE  SpreadInv'
<1>1. command = "none" /\ UNCHANGED <<pc, waits, event, errored, status, verdict>>
  BY DEF StartDeploy, StartDestroy, workerVars, poolVars
<1>2. verdict = "none" /\ \A r \in Resource : status[r] = "idle"
  BY <1>1 DEF IInv, CommandInv
<1>3. \A r \in Resource : pc[r] = "idle" /\ r \notin event /\ r \notin errored
  BY <1>2 DEF IInv, WorkerInv, WorkerOK, Pool!Outcomes
<1>4. \A r \in Resource : waits[r] = {}
  BY <1>2 DEF SpreadInv, WaitInv, Pool!Submitted, IInv, TypeOK
<1>5. event = {} /\ errored = {}
  BY <1>3 DEF IInv, TypeOK
<1> QED BY <1>1, <1>2, <1>3, <1>4, <1>5, RestSpread

LEMMA PassSpread ==
  ASSUME IInv, DestroyPass \/ CreatePass
  PROVE  SpreadInv'
<1>1. \A r \in Resource : pc'[r] = "idle"
  BY DEF DestroyPass, CreatePass, IInv, CommandInv, WorkerInv, WorkerOK
<1>2. PICK S \in SUBSET Resource :
        /\ Pool!Call(-1, S)
        /\ pass' = "create" => S = defined
        /\ pass' = "destroy" => S = known
        /\ pass' \in {"create", "destroy"}
  BY DEF DestroyPass, CreatePass, IInv, TypeOK
<1>3. /\ status' = [r \in Resource |-> IF r \in S THEN "queued" ELSE "idle"]
      /\ verdict' \in {"returned", "rejected", "open"}
      /\ verdict' = "returned" => S = {}
  BY <1>2 DEF Pool!Call
<1>4. /\ event' = {} /\ errored' = {} /\ needs' = needs
      /\ \A r \in Resource : waits'[r] = {d \in S : After(r, d)'}
  <2>1. CASE DestroyPass
    BY <1>2, <2>1 DEF DestroyPass, Dependents, commandVars, After
  <2>2. CASE CreatePass
    BY <1>2, <2>2 DEF CreatePass, Prerequisites, commandVars, After
  <2> QED BY <2>1, <2>2
<1>5. Pool!Submitted' = S /\ Pool!Ended' = {} /\ Failing' = {} /\ Pool!Failed' = {}
  BY <1>1, <1>3 DEF Pool!Submitted, Pool!Ended, Failing, Pool!Failed, Pool!Outcomes
<1>6. WaitInv'
  BY <1>1, <1>4, <1>5 DEF WaitInv
<1>7. FlagInv' /\ EndInv'
  BY <1>3, <1>4, <1>5 DEF FlagInv, EndInv
<1> QED BY <1>6, <1>7 DEF SpreadInv

LEMMA PassEndsSpread == ASSUME IInv, SpreadInv, PassEnds PROVE SpreadInv'
<1>1. /\ UNCHANGED <<needs, pass, command, selected, defined, pc, waits, event, errored, status>>
      /\ Pool!Submitted = Pool!Ended
      /\ verdict' = IF Pool!Failed = {} THEN "returned" ELSE "raised"
  BY DEF PassEnds, Pool!Return, commandVars, workerVars
<1>2. UNCHANGED <<Acted, Failing, Pool!Submitted, Pool!Ended, Pool!Failed, ToDo>>
  BY <1>1 DEF Acted, ToDo, Failing, Pool!Submitted, Pool!Ended, Pool!Failed
<1>3. WaitInv'
  BY <1>1, <1>2 DEF SpreadInv, WaitInv, After
<1>4. FlagInv'
  BY <1>1, <1>2, BlockedGrows DEF SpreadInv, FlagInv
<1>5. EndInv'
  BY <1>1, <1>2 DEF EndInv
<1> QED BY <1>3, <1>4, <1>5 DEF SpreadInv

LEMMA GoneSpread == ASSUME Finish \/ Fail \/ Die PROVE SpreadInv'
BY RestSpread DEF Finish, Fail, Die, Gone

\* What a worker's step leaves alone.
OnlyOf(r) ==
  /\ UNCHANGED <<needs, pass, command, selected, defined, verdict>>
  /\ \A q \in Resource \ {r} :
       /\ UNCHANGED <<pc[q], status[q], waits[q]>>
       /\ q \in event' <=> q \in event
       /\ q \in errored' <=> q \in errored
  /\ status[r] \in {"queued", "running"} /\ status'[r] # "idle"
  /\ errored \subseteq errored' /\ event \subseteq event' /\ r \notin event

\* What it does.
Proceeds(r) ==
  \/ /\ pc'[r] = "waiting" \/ (pc'[r] = "ending" /\ r \notin ToDo)
     /\ pc[r] = "idle" /\ waits' = waits /\ event' = event /\ errored' = errored
     /\ status'[r] = "running"
  \/ /\ pc[r] = "waiting" /\ pc'[r] = "ending" /\ waits' = waits /\ event' = event
     /\ errored' = errored \cup {r} /\ waits[r] \cap errored # {} /\ status'[r] = "running"
  \/ /\ pc[r] = "waiting" /\ pc'[r] = "waiting" /\ event' = event /\ errored' = errored
     /\ \E d \in event \ errored : waits'[r] = waits[r] \ {d}
     /\ status'[r] = "running"
  \/ /\ pc'[r] \in {"acting", "ending", "deleting"} /\ waits[r] = {} /\ waits' = waits
     /\ event' = event /\ errored' = errored /\ status'[r] = "running"
     /\ pc[r] # "raising"
  \/ /\ pc'[r] = "raising" /\ pc[r] = "acting" /\ waits' = waits /\ event' = event
     /\ errored' = errored \cup {r} /\ status'[r] = "running"
  \/ /\ pc'[r] = "idle" /\ waits' = waits /\ errored' = errored /\ event' = event \cup {r}
     /\ \/ pc[r] = "ending" /\ status'[r] = "nothing"
        \/ pc[r] = "raising" /\ status'[r] = "error"

LEMMA WorkerEffect ==
  ASSUME IInv, SpreadInv, NEW r \in Resource, WorkerStep(r)
  PROVE  OnlyOf(r) /\ Proceeds(r)
<1> USE DEF IInv, OnlyOf, Proceeds
<1> DOMAIN pc = Resource /\ DOMAIN waits = Resource /\ DOMAIN status = Resource
  BY DEF TypeOK, Pool!TypeOK
<1> WorkerOK(r)
  BY DEF WorkerInv
<1>1. CASE Take(r)
  BY <1>1 DEF Take, Pool!Begin, commandVars, WorkerOK, Pool!Outcomes
<1>2. CASE \E d \in Resource : Wait(r, d)
  <2>1. PICK d \in Resource : Wait(r, d)
    BY <1>2
  <2>2. status[r] = "running" /\ r \notin event
    BY <2>1 DEF Wait, WorkerOK, Pool!Outcomes
  <2>3. CASE d \in errored
    BY <2>1, <2>2, <2>3 DEF Wait, commandVars, poolVars
  <2>4. CASE d \notin errored
    BY <2>1, <2>2, <2>4 DEF Wait, commandVars, poolVars
  <2> QED BY <2>3, <2>4
<1>3. CASE Act(r)
  BY <1>3 DEF Act, commandVars, poolVars, WorkerOK, Pool!Outcomes
<1>4. CASE Acts(r)
  <2>1. pc[r] = "acting" /\ waits[r] = {} /\ status[r] = "running" /\ r \notin event
    BY <1>4 DEF Acts, Created, Destroyed, Declined, Raises, Goes, WorkerOK, Pool!Outcomes
  <2>2. CASE Raises(r)
    BY <2>1, <2>2 DEF Raises, Goes, Flagged, commandVars, poolVars
  <2>3. CASE Created(r) \/ Destroyed(r) \/ Declined(r)
    BY <2>1, <2>3 DEF Created, Destroyed, Declined, Goes, commandVars, poolVars
  <2> QED BY <1>4, <2>2, <2>3 DEF Acts
<1>5. CASE DeleteState(r)
  <2>1. pc[r] = "deleting" /\ status[r] = "running" /\ r \notin event /\ r \in ToDo
    BY <1>5 DEF DeleteState, WorkerOK, Pool!Outcomes
  <2>2. waits[r] = {} \/ r \in errored
    BY <2>1 DEF SpreadInv, WaitInv
  <2>3. r \notin errored
    BY <2>1 DEF WorkerOK
  <2> QED BY <1>5, <2>1, <2>2, <2>3 DEF DeleteState, commandVars, poolVars
<1>6. CASE Signal(r)
  BY <1>6 DEF Signal, EventsWith, OutcomeOf, Pool!End, commandVars, WorkerOK, Pool!Outcomes
<1> QED BY <1>1, <1>2, <1>3, <1>4, <1>5, <1>6 DEF WorkerStep

LEMMA WorkerSpread ==
  ASSUME IInv, IInv', SpreadInv, NEW r \in Resource, WorkerStep(r)
  PROVE  SpreadInv'
<1> USE DEF IInv, SpreadInv
<1>1. OnlyOf(r) /\ Proceeds(r)
  BY WorkerEffect
<1>2. UNCHANGED <<needs, pass, ToDo, Pool!Submitted, Acted>>
  BY <1>1 DEF OnlyOf, ToDo, Pool!Submitted, Acted
<1>3. \A p, d : After(p, d)' <=> After(p, d)
  BY <1>2 DEF After
<1>4. WaitInv'
  <2> SUFFICES ASSUME NEW p \in Resource, NEW d \in Resource
               PROVE  /\ p \in Pool!Submitted /\ d \in Pool!Submitted /\ After(p, d) =>
                           d \in waits'[p] \/ (d \in event' /\ d \notin errored')
                      /\ d \in waits'[p] => After(p, d) /\ d \in Pool!Submitted
                      /\ p \in ToDo \ errored' /\ (p \in event' \/ pc'[p] \in {"deleting", "ending"})
                           => waits'[p] = {}
                      /\ pc'[p] = "raising" => waits'[p] = {}
    BY <1>2, <1>3 DEF WaitInv
  <2>1. \A q \in Resource : waits'[q] \subseteq waits[q] /\ waits[q] \ waits'[q] \subseteq event \ errored
    BY <1>1 DEF OnlyOf, Proceeds
  <2>2. d \in event /\ d \notin errored => d \in event' /\ d \notin errored'
    BY <1>1 DEF OnlyOf
  <2>3. /\ p \in Pool!Submitted /\ d \in Pool!Submitted /\ After(p, d) =>
             d \in waits'[p] \/ (d \in event' /\ d \notin errored')
        /\ d \in waits'[p] => After(p, d) /\ d \in Pool!Submitted
    BY <2>1, <2>2 DEF WaitInv
  <2>4. CASE p # r
    BY <1>1, <2>3, <2>4 DEF OnlyOf, WaitInv
  <2>5. CASE p = r
    <3>1. r \in ToDo \ errored' /\ (r \in event' \/ pc'[r] \in {"deleting", "ending"})
            => waits'[r] = {}
      BY <1>1 DEF OnlyOf, Proceeds, WaitInv, WorkerInv, WorkerOK
    <3>2. pc'[r] = "raising" => waits'[r] = {}
      BY <1>1 DEF OnlyOf, Proceeds, WorkerInv, WorkerOK
    <3> QED BY <2>3, <2>5, <3>1, <3>2
  <2> QED BY <2>3, <2>4, <2>5
<1>5. Failing \subseteq Failing' /\ Failing' \subseteq errored'
  BY <1>1 DEF Failing, FlagInv, OnlyOf, Proceeds
<1>6. Blocked \subseteq Blocked'
  BY <1>2, <1>5, BlockedGrows
<1>7. errored' \subseteq ToDo
  BY <1>1, <1>2 DEF OnlyOf, Proceeds, FlagInv, WorkerInv, WorkerOK
<1>8. errored' \subseteq Failing' \cup Blocked'
  <2> SUFFICES ASSUME r \in errored' \ errored PROVE r \in Failing' \cup Blocked'
    BY <1>1, <1>5, <1>6 DEF OnlyOf, Proceeds, FlagInv
  <2>1. CASE pc'[r] = "raising"
    BY <2>1 DEF Failing
  <2>2. CASE pc'[r] # "raising"
    <3>1. PICK d \in waits[r] \cap errored : TRUE
      BY <1>1, <2>2 DEF Proceeds
    <3>2. d \in Resource /\ After(r, d) /\ d \in Pool!Submitted /\ d \in ToDo
      BY <3>1 DEF WaitInv, FlagInv, TypeOK
    <3>3. r \in ToDo /\ r \in Pool!Submitted
      BY <1>1, <1>2, <1>7 DEF OnlyOf, Pool!Submitted
    <3>4. r \in Blocked
      BY <3>1, <3>2, <3>3, BlockedStep DEF Acted, FlagInv
    <3> QED BY <1>6, <3>4
  <2> QED BY <2>1, <2>2
<1>9. EndInv'
  <2>1. r \in Pool!Submitted /\ r \notin Pool!Ended /\ verdict' = verdict
    BY <1>1 DEF OnlyOf, Pool!Submitted, Pool!Ended, Pool!Outcomes
  <2> QED BY <2>1 DEF EndInv
<1> QED BY <1>2, <1>4, <1>5, <1>7, <1>8, <1>9 DEF FlagInv

LEMMA NextSpread == IInv /\ IInv' /\ SpreadInv /\ [Next]_vars => SpreadInv'
<1> SUFFICES ASSUME IInv, IInv', SpreadInv, [Next]_vars PROVE SpreadInv'
  OBVIOUS
<1>1. CASE (\E D, S \in SUBSET Resource, k, d \in BOOLEAN : StartDeploy(D, S, k, d))
             \/ (\E S \in SUBSET Resource : StartDestroy(S))
  BY <1>1, StartSpread
<1>2. CASE CommandStep \/ Die
  BY <1>2, PassSpread, PassEndsSpread, GoneSpread DEF CommandStep
<1>3. CASE \E r \in Resource : WorkerStep(r)
  BY <1>3, WorkerSpread
<1>4. CASE UNCHANGED vars
  <2>1. /\ UNCHANGED <<Failing, Acted, ToDo, needs, pass, Pool!Submitted, Pool!Ended,
                       Pool!Failed>>
    BY <1>4 DEF vars, Failing, Acted, ToDo, Pool!Submitted, Pool!Ended, Pool!Failed
  <2>2. Blocked \subseteq Blocked'
    BY <2>1, BlockedGrows
  <2> QED BY <1>4, <2>1, <2>2 DEF vars, SpreadInv, WaitInv, FlagInv, EndInv, After
<1> QED BY <1>1, <1>2, <1>3, <1>4 DEF Next

LEMMA Spreading == Spec => []SpreadInv
<1>1. Init => SpreadInv
  <2> SUFFICES ASSUME Init PROVE SpreadInv
    OBVIOUS
  <2>1. /\ \A r \in Resource : status[r] = "idle" /\ pc[r] = "idle" /\ waits[r] = {}
        /\ event = {} /\ errored = {} /\ verdict = "none"
    BY DEF Init, Pool!Init
  <2> QED BY <2>1 DEF SpreadInv, WaitInv, FlagInv, EndInv, Pool!Submitted, Failing
<1> QED BY <1>1, NextSpread, Invariance, PTL DEF Spec

(* What a failure reaches in a pass of deploy or destroy, through however many
   others, is neither created nor destroyed, and is flagged before its event is
   set; the pass raises exactly when something failed, and the flags are then on
   what failed and what it reached. *)
THEOREM FailureStops == Spec => []FailureSpreads
<1>1. IInv /\ SpreadInv => FailureSpreads
  <2> SUFFICES ASSUME IInv, SpreadInv PROVE FailureSpreads
    OBVIOUS
  <2> USE DEF IInv, SpreadInv
  <2> DEFINE Held == {r \in Acted : /\ pc[r] \in {"idle", "waiting", "ending"}
                                    /\ r \in event => r \in errored}
  <2>1. Closed(Held)
    <3> SUFFICES ASSUME NEW r \in Acted, NEW d \in Acted, d \in Failing \cup Held, After(r, d)
                 PROVE  r \in Held
      BY DEF Closed
    <3>1. r \in Resource /\ d \in Resource /\ r \in ToDo
      BY DEF Acted, Pool!Submitted
    <3>2. d \in event => d \in errored
      BY DEF FlagInv
    <3>3. d \in waits[r]
      BY <3>1, <3>2 DEF WaitInv, Acted
    <3>4. pc[r] \notin {"acting", "deleting"} /\ (r \in event => r \in errored)
      BY <3>1, <3>3 DEF WaitInv, WorkerInv, WorkerOK, Pool!Outcomes
    <3>5. pc[r] # "raising"
      BY <3>1, <3>3 DEF WaitInv
    <3> QED BY <3>1, <3>4, <3>5 DEF TypeOK
  <2>2. Blocked \subseteq Held
    BY <2>1, BlockedLeast
  <2>3. ASSUME verdict \in {"returned", "raised"}
        PROVE  /\ (verdict = "raised") = (errored # {})
               /\ errored = Failing \cup Blocked
    <3>1. /\ Pool!Submitted = Pool!Ended
          /\ verdict = "raised" <=> Pool!Failed # {}
      BY <2>3 DEF EndInv
    <3>2. Blocked \subseteq errored
      <4>1. \A r \in Acted : r \in Resource /\ r \in event
        BY <3>1 DEF Acted, Pool!Submitted, Pool!Ended, WorkerInv, WorkerOK
      <4> QED BY <2>2, <4>1
    <3>3. errored = Failing \cup Blocked
      BY <3>2 DEF FlagInv
    <3>4. Failing = Pool!Failed
      BY <3>1 DEF Failing, Pool!Failed, Pool!Submitted, Pool!Ended, Pool!Outcomes, WorkerInv, WorkerOK
    <3>5. Pool!Failed = {} => errored = {}
      BY <3>4 DEF WorkerInv, WorkerOK, Failing, TypeOK
    <3> QED BY <3>1, <3>3, <3>4, <3>5
  <2> QED BY <2>2, <2>3 DEF FailureSpreads
<1> QED BY <1>1, Invariance, Spreading, PTL
-----------------------------------------------------------------------------
(* Backups: numbers, and the merging of what the machines answer.          *)

LEMMA NatLeast ==
  ASSUME NEW S \in SUBSET Nat, S # {}
  PROVE  \E x \in S : \A y \in S : x <= y
<1>1. PICK x \in S : \A y \in S : ~ (<<y, x>> \in OpToRel(<, Nat))
  BY NatLessThanWellFounded, WFMin
<1>2. \A y \in S : ~ (y < x)
  BY <1>1 DEF OpToRel
<1> QED BY <1>2

LEMMA LeastIsIn == ASSUME NEW S \in SUBSET Id, S # {} PROVE Least(S) \in S
<1>1. S \in SUBSET Nat
  BY BackupsAssumption DEF Id
<1> QED BY <1>1, NatLeast DEF Least

Statuses == Status \cup {"incomplete"}

\* What becomes of a status with the answer of machine k.
Merged(i, k, shown) ==
  IF k \notin Selected THEN shown
  ELSE IF i \in DOMAIN answers[k] THEN WithOwn(shown, answers[k][i])
  ELSE WithNone(shown)

\* The merging as a function exists, as far as to any machine.
MergesTo(i, k, f) ==
  /\ f \in [0 .. k -> Statuses] /\ f[0] = "complete"
  /\ \A j \in 1 .. k : f[j] = Merged(i, j, f[j - 1])

AnswersOK ==
  DOMAIN answers \subseteq Machine /\ \A m \in DOMAIN answers : Answers(answers[m])

LEMMA MergedOK ==
  ASSUME AnswersOK, Selected \subseteq DOMAIN answers, NEW i \in Id, NEW k, NEW s \in Statuses
  PROVE  Merged(i, k, s) \in Statuses
BY DEF AnswersOK, Answers, Merged, WithOwn, WithNone, Statuses, Status

LEMMA MergeGoesOn ==
  ASSUME AnswersOK, Selected \subseteq DOMAIN answers, NEW i \in Id,
         NEW k \in Nat \ {0}, NEW f, MergesTo(i, k - 1, f)
  PROVE  \E g : MergesTo(i, k, g)
<1> DEFINE g == [j \in 0 .. k |-> IF j = k THEN Merged(i, k, f[k - 1]) ELSE f[j]]
<1>1. k - 1 \in 0 .. k - 1 /\ \A j \in 0 .. k : j # k => j \in 0 .. k - 1
  OBVIOUS
<1>2. f[k - 1] \in Statuses /\ \A j \in 0 .. k - 1 : f[j] \in Statuses
  BY <1>1 DEF MergesTo
<1>3. Merged(i, k, f[k - 1]) \in Statuses
  BY <1>2, MergedOK
<1>4. g \in [0 .. k -> Statuses]
  BY <1>1, <1>2, <1>3
<1>5. g[0] = "complete"
  BY DEF MergesTo
<1>6. ASSUME NEW j \in 1 .. k PROVE g[j] = Merged(i, j, g[j - 1])
  <2>1. j - 1 \in 0 .. k /\ j - 1 # k /\ j \in 0 .. k
    OBVIOUS
  <2>2. g[j - 1] = f[j - 1]
    BY <2>1
  <2>3. CASE j = k
    BY <2>1, <2>2, <2>3
  <2>4. CASE j # k
    <3>1. j \in 1 .. k - 1 /\ g[j] = f[j]
      BY <2>1, <2>4
    <3> QED BY <2>2, <3>1 DEF MergesTo
  <2> QED BY <2>3, <2>4
<1> HIDE DEF g
<1> QED BY <1>4, <1>5, <1>6 DEF MergesTo

LEMMA MergeExists ==
  ASSUME AnswersOK, Selected \subseteq DOMAIN answers, NEW i \in Id, NEW n \in Nat
  PROVE  \E f : MergesTo(i, n, f)
<1> DEFINE Missing == {k \in Nat : ~ \E f : MergesTo(i, k, f)}
<1>1. \E f : MergesTo(i, 0, f)
  <2>1. MergesTo(i, 0, [k \in 0 .. 0 |-> "complete"])
    BY DEF MergesTo, Statuses, Status
  <2> QED BY <2>1
<1>2. ASSUME Missing # {} PROVE FALSE
  <2>1. PICK k \in Missing : \A l \in Missing : k <= l
    BY <1>2, NatLeast
  <2>2. k \in Nat \ {0}
    BY <1>1
  <2>3. k - 1 \in Nat /\ ~ (k <= k - 1)
    BY <2>2
  <2>4. \E f : MergesTo(i, k - 1, f)
    BY <2>1, <2>3
  <2> QED BY <2>2, <2>4, MergeGoesOn
<1> QED BY <1>2

\* So that Merge is what it is written as.
LEMMA MergeIs ==
  ASSUME AnswersOK, Selected \subseteq DOMAIN answers, NEW i \in Id
  PROVE  \E f : MergesTo(i, M, f) /\ Merge(i) = f[M]
<1> DEFINE Whole(f) == [k \in 0 .. M |->
                         IF k = 0 THEN "complete"
                         ELSE IF k \notin Selected THEN f[k - 1]
                         ELSE IF i \in DOMAIN answers[k] THEN WithOwn(f[k - 1], answers[k][i])
                         ELSE WithNone(f[k - 1])]
           shown == CHOOSE f : f = Whole(f)
<1>1. Merge(i) = shown[M]
  BY DEF Merge
<1>2. M \in Nat /\ 0 \in 0 .. M /\ \A k \in 1 .. M : k \in 0 .. M /\ k # 0
  BY BackupsAssumption
<1>3. \A k \in 0 .. M : k # 0 => k \in 1 .. M /\ k - 1 \in 0 .. M /\ k - 1 \in 0 .. k - 1
  BY <1>2
<1>4. \E f : f = Whole(f)
  <2>1. PICK f : MergesTo(i, M, f)
    BY <1>2, MergeExists
  <2>2. ASSUME NEW k \in 0 .. M PROVE f[k] = Whole(f)[k]
    BY <1>2, <1>3, <2>1 DEF MergesTo, Merged
  <2>3. f = [k \in 0 .. M |-> f[k]]
    BY <2>1 DEF MergesTo
  <2>4. Whole(f) = [k \in 0 .. M |-> Whole(f)[k]]
    OBVIOUS
  <2> HIDE DEF Whole
  <2>5. f = Whole(f)
    BY <2>2, <2>3, <2>4
  <2> QED BY <2>5
<1>5. shown = Whole(shown)
  BY <1>4
<1> HIDE DEF shown
<1>6. ASSUME NEW k \in 1 .. M PROVE shown[k] = Merged(i, k, shown[k - 1])
  <2>1. shown[k] = Whole(shown)[k]
    BY <1>5
  <2>2. Whole(shown)[k] = Merged(i, k, shown[k - 1])
    BY <1>2 DEF Merged
  <2> QED BY <2>1, <2>2
<1>7. shown[0] = "complete"
  <2>1. Whole(shown)[0] = "complete"
    BY <1>2
  <2> QED BY <1>5, <2>1
<1>8. DOMAIN shown = 0 .. M
  BY <1>5
<1>9. shown \in [0 .. M -> Statuses]
  <2> DEFINE Bad == {k \in 0 .. M : shown[k] \notin Statuses}
  <2>1. ASSUME Bad # {} PROVE FALSE
    <3>1. Bad \in SUBSET Nat
      BY <1>2
    <3>2. PICK k \in Bad : \A l \in Bad : k <= l
      BY <2>1, <3>1, NatLeast
    <3>3. k # 0
      BY <1>7, <3>2 DEF Statuses, Status
    <3>4. k - 1 \in 0 .. M /\ k \in 1 .. M /\ ~ (k <= k - 1)
      BY <1>2, <3>2, <3>3
    <3>5. shown[k - 1] \in Statuses
      BY <3>2, <3>4
    <3> QED BY <1>6, <3>2, <3>4, <3>5, MergedOK
  <2>2. shown = [k \in 0 .. M |-> shown[k]]
    BY <1>5
  <2> QED BY <2>1, <2>2
<1> QED BY <1>1, <1>6, <1>7, <1>9 DEF MergesTo

\* Once a merged status has a property that no answer takes away, it keeps it.
LEMMA MergeKeeps ==
  ASSUME NEW i \in Id, NEW f, MergesTo(i, M, f), NEW n \in 0 .. M, NEW S, f[n] \in S,
         \A j \in 1 .. M : f[j - 1] \in S => Merged(i, j, f[j - 1]) \in S
  PROVE  f[M] \in S
<1> DEFINE Lost == {k \in n .. M : f[k] \notin S}
<1>1. M \in Nat /\ n \in Nat /\ M \in n .. M
  BY BackupsAssumption
<1>2. ASSUME Lost # {} PROVE FALSE
  <2>1. Lost \in SUBSET Nat
    BY <1>1
  <2>2. PICK k \in Lost : \A l \in Lost : k <= l
    BY <1>2, <2>1, NatLeast
  <2>3. k # n /\ k \in n .. M
    BY <2>2
  <2>4. k - 1 \in n .. M /\ k \in 1 .. M /\ ~ (k <= k - 1)
    BY <1>1, <2>3
  <2>5. f[k - 1] \in S
    BY <2>2, <2>4
  <2> QED BY <2>2, <2>4, <2>5 DEF MergesTo
<1> QED BY <1>1, <1>2

\* What is merged to `complete' all machines have.
LEMMA MergeComplete ==
  ASSUME AnswersOK, Selected \subseteq DOMAIN answers, NEW i \in Id, Merge(i) = "complete",
         NEW m \in Selected
  PROVE  i \in DOMAIN answers[m] /\ answers[m][i] = "complete"
<1>1. PICK f : MergesTo(i, M, f) /\ Merge(i) = f[M]
  BY MergeIs
<1>2. SUFFICES ASSUME ~ (i \in DOMAIN answers[m] /\ answers[m][i] = "complete") PROVE FALSE
  OBVIOUS
<1>3. M \in Nat /\ m \in 1 .. M /\ m \in 0 .. M /\ m - 1 \in 0 .. M
  BY BackupsAssumption DEF AnswersOK, Machine
<1> DEFINE S == Statuses \ {"complete"}
<1>4. f[m - 1] \in Statuses /\ f[m] = Merged(i, m, f[m - 1]) /\ f[m] \in Statuses
  BY <1>1, <1>3 DEF MergesTo
<1>5. f[m] \in S
  <2>1. Merged(i, m, f[m - 1]) # "complete"
    BY <1>2 DEF Merged, WithOwn, WithNone
  <2> QED BY <1>4, <2>1
<1>6. ASSUME NEW j \in 1 .. M, f[j - 1] \in S PROVE Merged(i, j, f[j - 1]) \in S
  <2>1. Merged(i, j, f[j - 1]) \in Statuses
    BY <1>6, MergedOK
  <2>2. Merged(i, j, f[j - 1]) # "complete"
    BY <1>6 DEF Merged, WithOwn, WithNone
  <2> QED BY <2>1, <2>2
<1> HIDE DEF S
<1>7. f[M] \in S
  BY <1>1, <1>3, <1>5, <1>6, MergeKeeps
<1> QED BY <1>1, <1>7 DEF S

\* What all have a part of, and one is still making, is merged to `running'.
LEMMA MergeRunning ==
  ASSUME AnswersOK, Selected \subseteq DOMAIN answers, NEW i \in Id,
         \A n \in Selected : i \in DOMAIN answers[n],
         NEW m \in Selected, answers[m][i] = "running"
  PROVE  Merge(i) = "running"
<1>1. PICK f : MergesTo(i, M, f) /\ Merge(i) = f[M]
  BY MergeIs
<1>2. m \in 1 .. M /\ m \in 0 .. M
  BY BackupsAssumption DEF AnswersOK, Machine
<1>3. f[m] \in {"running"}
  BY <1>1, <1>2 DEF MergesTo, Merged, WithOwn
<1>4. ASSUME NEW j \in 1 .. M, f[j - 1] \in {"running"}
      PROVE  Merged(i, j, f[j - 1]) \in {"running"}
  BY <1>4 DEF Merged, WithOwn
<1>5. f[M] \in {"running"}
  BY <1>1, <1>2, <1>3, <1>4, MergeKeeps
<1> QED BY <1>1, <1>5
-----------------------------------------------------------------------------
(* Backups: the types.                                                     *)

\* What a command has left to make when it counts the one to come.
Numbers ==
  /\ stage \in {"ask", "decide"} /\ Command.op = "backup" => now < MaxId
  /\ stage = "backup" => now > 0
  /\ stage # "idle" => todo # <<>>
  /\ stage # "ended" => outcome = "none"

LEMMA CommandOK ==
  ASSUME BackupTypeOK, todo # <<>>
  PROVE  Command \in Requests /\ Tail(todo) \in Seq(Requests)
BY HeadTailProperties DEF BackupTypeOK, Command

\* One entry of the cloud changes.
LEMMA CloudSet ==
  ASSUME BackupTypeOK, NEW m \in Machine, NEW i \in Id, NEW s \in Status,
         cloud' = [cloud EXCEPT ![m][i] = s]
  PROVE  /\ cloud' \in [Machine -> [Id -> Status]]
         /\ \A n \in Machine, j \in Id :
              cloud'[n][j] = IF n = m /\ j = i THEN s ELSE cloud[n][j]
<1>1. cloud[m] \in [Id -> Status]
  BY DEF BackupTypeOK
<1>2. [cloud[m] EXCEPT ![i] = s] \in [Id -> Status]
  BY <1>1
<1>3. cloud' = [cloud EXCEPT ![m] = [cloud[m] EXCEPT ![i] = s]]
  BY DEF BackupTypeOK
<1>4. cloud' \in [Machine -> [Id -> Status]]
  BY <1>2, <1>3 DEF BackupTypeOK
<1>5. \A n \in Machine : n # m => cloud'[n] = cloud[n]
  BY <1>3 DEF BackupTypeOK
<1>6. cloud'[m] = [cloud[m] EXCEPT ![i] = s]
  BY <1>3 DEF BackupTypeOK
<1>7. \A j \in Id : cloud'[m][j] = IF j = i THEN s ELSE cloud[m][j]
  BY <1>1, <1>6
<1> QED BY <1>4, <1>5, <1>7

LEMMA BackupTypeInit == BackupInit => BackupTypeOK /\ Numbers
<1> SUFFICES ASSUME BackupInit PROVE BackupTypeOK /\ Numbers
  OBVIOUS
<1>1. /\ active \subseteq Machine /\ cloud \in [Machine -> [Id -> Status]] /\ now \in 0 .. MaxId
      /\ todo \in Seq(Requests)
  BY BackupsAssumption DEF BackupInit
<1>2. MaxId \in Nat
  BY BackupsAssumption
<1>3. DOMAIN answers = {} /\ DOMAIN report = {}
  BY DEF BackupInit, NoAnswers, Nothing
<1>4. disk \in [Machine -> 0 .. MaxId] /\ before = cloud
  BY <1>2 DEF BackupInit
<1>5. Numbers
  BY DEF BackupInit, Numbers
<1>6. /\ started = {} /\ stage = "idle" /\ outcome = "none" /\ queue = {} /\ errors = FALSE
      /\ tbr = {}
  BY DEF BackupInit
<1> QED BY <1>1, <1>3, <1>4, <1>5, <1>6 DEF BackupTypeOK

LEMMA BackupTypeStep ==
  BackupTypeOK /\ Numbers /\ [BackupNext]_backupVars => (BackupTypeOK /\ Numbers)'
<1> SUFFICES ASSUME BackupTypeOK, Numbers, [BackupNext]_backupVars PROVE (BackupTypeOK /\ Numbers)'
  OBVIOUS
<1> USE DEF worldVars, localVars
<1>0. MaxId \in Nat /\ 0 \in 0 .. MaxId /\ now \in 0 .. MaxId /\ Id \subseteq 0 .. MaxId
      /\ now + 1 \in Nat /\ (now < MaxId => now + 1 \in 0 .. MaxId) /\ now + 1 > 0
      /\ (now > 0 => now \in Id)
  BY BackupsAssumption DEF BackupTypeOK, Id
<1>1. CASE UNCHANGED backupVars
  BY <1>1 DEF BackupTypeOK, Numbers, backupVars, Command, Answers
<1>2. CASE Begin
  <2>1. Command \in Requests
    BY <1>2, CommandOK DEF Begin
  <2>2. /\ Command.id \in Id /\ Command.op \in {"backup", "clean", "remove", "restore", "status"}
        /\ (Command.force => Command.op = "backup")
    BY <2>1 DEF Requests
  <2>3. Selected \subseteq Machine
    BY DEF Selected, BackupTypeOK
  <2>4. /\ stage' = First /\ First \in {"remove", "restore", "backup", "ask"}
        /\ First = "backup" => Command.op = "backup"
        /\ outcome = "none" /\ UNCHANGED <<todo, outcome, active, cloud, disk>> /\ before' = cloud
    BY <1>2, <2>2 DEF Begin, First, Numbers
  <2>5. now' \in 0 .. MaxId /\ (stage' = "backup" => now' > 0)
        /\ (stage' # "backup" => now' = now) /\ (Command.op = "backup" => now < MaxId)
    BY <1>0, <1>2, <2>4 DEF Begin
  <2>6. tbr' \subseteq Id /\ queue' \subseteq Machine
    BY <1>2, <2>2, <2>3 DEF Begin
  <2>7. answers' = NoAnswers /\ report' = Nothing /\ started' = {} /\ errors' = FALSE /\ todo # <<>>
    BY <1>2 DEF Begin
  <2>8. Numbers'
    BY <2>4, <2>5, <2>7 DEF Numbers, Command
  <2>9. BackupTypeOK'
    BY <2>4, <2>5, <2>6, <2>7 DEF BackupTypeOK, NoAnswers, Nothing
  <2> QED BY <2>8, <2>9
<1>3. CASE Ask
  <2>1. PICK m \in Selected \ DOMAIN answers :
          answers' = [n \in DOMAIN answers \cup {m} |->
                        IF n = m THEN [i \in Has(m) |-> cloud[m][i]] ELSE answers[n]]
    BY <1>3 DEF Ask
  <2>2. m \in Machine
    BY DEF Selected, BackupTypeOK
  <2>3. Answers([i \in Has(m) |-> cloud[m][i]])
    BY <2>2 DEF Answers, Has, BackupTypeOK
  <2>4. DOMAIN answers' \subseteq Machine /\ \A n \in DOMAIN answers' : Answers(answers'[n])
    BY <2>1, <2>2, <2>3 DEF BackupTypeOK
  <2> QED BY <1>3, <2>4 DEF Ask, BackupTypeOK, Numbers, Command
<1>4. CASE AskFails
  BY <1>4 DEF AskFails, End, BackupTypeOK, Numbers, Command, Answers
<1>5. CASE Report
  <2>1. Selected \subseteq DOMAIN answers
    BY <1>5 DEF Report
  <2>2. DOMAIN report' \subseteq Id
    BY <1>5, <2>1 DEF Report, BackupTypeOK, Answers
  <2> QED BY <1>5, <2>2 DEF Report, BackupTypeOK, Numbers, Command, Answers
<1>6. CASE Decide
  <2>1. Selected \subseteq Machine
    BY DEF Selected, BackupTypeOK
  <2>2. UNCHANGED <<active, cloud, disk, started, todo, report, errors, before>> /\ todo # <<>>
    BY <1>6 DEF Decide, Numbers
  <2>3. CASE Command.op = "backup"
    <3>1. \/ End("failed") /\ UNCHANGED <<now, queue, answers, tbr>>
          \/ /\ now' = now + 1 /\ queue' = Selected /\ stage' = "backup"
             /\ UNCHANGED <<outcome, answers, tbr>>
      BY <1>6, <2>3 DEF Decide
    <3>2. now < MaxId /\ outcome = "none"
      BY <1>6, <2>3 DEF Numbers, Decide
    <3>3. now' \in 0 .. MaxId /\ (stage' = "backup" => now' > 0) /\ queue' \subseteq Machine
      BY <1>0, <2>1, <3>1, <3>2 DEF BackupTypeOK, End
    <3> QED BY <2>2, <3>1, <3>2, <3>3 DEF End, BackupTypeOK, Numbers, Answers
  <2>4. CASE Command.op = "clean"
    <3>1. /\ tbr' = ToBeRemoved /\ queue' = Machine /\ stage' = "remove"
          /\ UNCHANGED <<now, outcome, answers>>
      BY <1>6, <2>4 DEF Decide
    <3>2. ToBeRemoved \subseteq Id
      BY DEF ToBeRemoved, Older, BackupTypeOK
    <3> QED BY <1>6, <2>2, <3>1, <3>2 DEF Decide, BackupTypeOK, Numbers, Answers
  <2>5. CASE Command.op = "status"
    <3>1. /\ UNCHANGED <<now, queue, tbr>> /\ (UNCHANGED answers \/ answers' = NoAnswers)
          /\ \/ stage' = "ended" /\ outcome' \in {"ok", "failed"}
             \/ stage' = "ask" /\ UNCHANGED outcome
      BY <1>6, <2>5 DEF Decide, End, Again
    <3>2. DOMAIN answers' \subseteq Machine /\ \A m \in DOMAIN answers' : Answers(answers'[m])
      BY <3>1 DEF BackupTypeOK, NoAnswers, Answers
    <3>3. Command' = Command
      BY <2>2 DEF Command
    <3>4. Numbers'
      BY <1>6, <2>2, <2>5, <3>1, <3>3 DEF Numbers, Decide
    <3>5. BackupTypeOK'
      BY <2>2, <3>1, <3>2 DEF BackupTypeOK
    <3> QED BY <3>4, <3>5
  <2> QED BY <1>6, <2>3, <2>4, <2>5 DEF Decide
<1>7. CASE Make
  <2>1. now \in Id /\ stage = "backup"
    BY <1>0, <1>7 DEF Make, Numbers
  <2>2. cloud' \in [Machine -> [Id -> Status]]
    <3>1. PICK m \in Machine : UNCHANGED cloud \/ cloud' = [cloud EXCEPT ![m][now] = "running"]
      BY <1>7 DEF Make, Does
    <3>2. "running" \in Status
      BY DEF Status
    <3>3. CASE UNCHANGED cloud
      BY <3>3 DEF BackupTypeOK
    <3> QED BY <2>1, <3>1, <3>2, <3>3, CloudSet
  <2>3. queue' \subseteq Machine /\ errors' \in BOOLEAN
    BY <1>7 DEF Make, Does, Task, BackupTypeOK
  <2> QED BY <1>7, <2>1, <2>2, <2>3 DEF Make, BackupTypeOK, Numbers, Answers
<1>8. CASE Made \/ Restored
  BY <1>8 DEF Made, Restored, StartMachines, Selected, End, BackupTypeOK, Numbers, Command, Answers
<1>9. CASE Remove
  <2>1. cloud' \in [Machine -> [Id -> Status]]
    <3>1. PICK m \in Machine : UNCHANGED cloud \/ cloud' = [cloud EXCEPT ![m][Least(tbr)] = "none"]
      BY <1>9 DEF Remove, Does
    <3>2. Least(tbr) \in Id
      BY <1>9, LeastIsIn DEF Remove, BackupTypeOK
    <3>3. "none" \in Status
      BY DEF Status
    <3>4. CASE UNCHANGED cloud
      BY <3>4 DEF BackupTypeOK
    <3> QED BY <3>1, <3>2, <3>3, <3>4, CloudSet
  <2>2. queue' \subseteq Machine /\ errors' \in BOOLEAN
    BY <1>9 DEF Remove, Does, Task, BackupTypeOK
  <2> QED BY <1>9, <2>1, <2>2 DEF Remove, BackupTypeOK, Numbers, Answers, Command
<1>10. CASE Removed
  BY <1>10 DEF Removed, End, BackupTypeOK, Numbers, Command, Answers
<1>11. CASE Restore
  <2>1. disk' \in [Machine -> 0 .. MaxId]
    <3>1. PICK m \in Machine : UNCHANGED disk \/ disk' = [disk EXCEPT ![m] = Command.id]
      BY <1>11 DEF Restore
    <3>2. Command.id \in Id
      BY <1>11, CommandOK DEF Restore, Numbers, Requests
    <3> QED BY <1>0, <3>1, <3>2 DEF BackupTypeOK
  <2>2. queue' \subseteq Machine /\ errors' \in BOOLEAN
    BY <1>11 DEF Restore, Task, BackupTypeOK
  <2> QED BY <1>11, <2>1, <2>2 DEF Restore, BackupTypeOK, Numbers, Answers, Command
<1>12. CASE Return
  <2>1. Tail(todo) \in Seq(Requests)
    BY <1>12, CommandOK DEF Return, Numbers
  <2> QED BY <1>12, <2>1 DEF Return, BackupTypeOK, Numbers, Answers
<1>13. ASSUME NEW m \in Machine, NEW i \in Id, Progress(m, i) PROVE (BackupTypeOK /\ Numbers)'
  <2>1. cloud' \in [Machine -> [Id -> Status]]
    <3>1. \E s \in Status : cloud' = [cloud EXCEPT ![m][i] = s]
      BY <1>13 DEF Progress, Status
    <3> QED BY <3>1, CloudSet
  <2> QED BY <1>13, <2>1 DEF Progress, BackupTypeOK, Numbers, Command, Answers
<1> QED BY <1>1, <1>2, <1>3, <1>4, <1>5, <1>6, <1>7, <1>8, <1>9, <1>10, <1>11, <1>12, <1>13
        DEF BackupNext, Step

(* Every variable of the backup commands keeps its type. *)
THEOREM BackupTypeCorrect == BackupSpec => []BackupTypeOK
<1>1. BackupTypeOK /\ Numbers => BackupTypeOK
  OBVIOUS
<1> QED BY BackupTypeInit, BackupTypeStep, <1>1, PTL DEF BackupSpec
-----------------------------------------------------------------------------
(* Backups: what the machines answer while the cloud goes on.              *)

\* A backup that runs ran when its machine was asked, and one that was complete
\* is; none comes or goes.
AskedAt(m, i) ==
  /\ i \in DOMAIN answers[m] <=> before[m][i] # "none"
  /\ cloud[m][i] = "running" => i \in DOMAIN answers[m] /\ answers[m][i] = "running"
  /\ i \in DOMAIN answers[m] /\ answers[m][i] = "complete" => cloud[m][i] = "complete"

Asked ==
  stage \in {"ask", "decide"} =>
    /\ \A m \in Machine, i \in Id : cloud[m][i] = "none" <=> before[m][i] = "none"
    /\ \A m \in DOMAIN answers, i \in Id : AskedAt(m, i)
    /\ tbr = {}

Reported ==
  stage = "decide" =>
    /\ Selected \subseteq DOMAIN answers
    /\ report = [i \in UNION {DOMAIN answers[m] : m \in Selected} |-> Merge(i)]

\* A step of the cloud's.
LEMMA ProgressMoves ==
  ASSUME BackupTypeOK, NEW m \in Machine, NEW i \in Id, Progress(m, i)
  PROVE  \A n \in Machine, j \in Id :
           /\ cloud'[n][j] = "none" <=> cloud[n][j] = "none"
           /\ cloud'[n][j] = "running" => cloud[n][j] = "running"
           /\ cloud[n][j] = "complete" => cloud'[n][j] = "complete"
<1>1. PICK s \in {"complete", "unavailable"} : cloud' = [cloud EXCEPT ![m][i] = s]
  BY DEF Progress
<1>2. s \in Status /\ cloud[m][i] = "running"
  BY <1>1 DEF Status, Progress
<1> QED BY <1>1, <1>2, CloudSet

LEMMA AskedKept ==
  BackupTypeOK /\ Numbers /\ Asked /\ Reported /\ [BackupNext]_backupVars => (Asked /\ Reported)'
<1> SUFFICES ASSUME BackupTypeOK, Numbers, Asked, Reported, [BackupNext]_backupVars
             PROVE  (Asked /\ Reported)'
  OBVIOUS
<1> USE DEF worldVars, localVars
<1>1. CASE UNCHANGED backupVars
  BY <1>1 DEF backupVars, Asked, AskedAt, Reported, Selected, Merge, WithOwn, WithNone, Command
<1>2. CASE Begin
  <2>1. stage' # "decide"
    BY <1>2 DEF Begin, First
  <2>2. answers' = NoAnswers /\ before' = cloud' /\ (stage' = "ask" => tbr' = {})
    BY <1>2 DEF Begin, First
  <2>3. DOMAIN answers' = {}
    BY <2>2 DEF NoAnswers
  <2> QED BY <2>1, <2>2, <2>3 DEF Asked, Reported
<1>3. CASE Ask
  <2>1. PICK m \in Selected \ DOMAIN answers :
          answers' = [n \in DOMAIN answers \cup {m} |->
                        IF n = m THEN [i \in Has(m) |-> cloud[m][i]] ELSE answers[n]]
    BY <1>3 DEF Ask
  <2>2. m \in Machine
    BY DEF Selected, BackupTypeOK
  <2>3. UNCHANGED <<cloud, before, tbr, stage>> /\ stage = "ask"
    BY <1>3 DEF Ask
  <2>4. ASSUME NEW n \in DOMAIN answers', NEW i \in Id PROVE AskedAt(n, i)'
    <3>1. CASE n = m
      BY <2>1, <2>2, <2>3, <3>1 DEF AskedAt, Has, Asked
    <3>2. CASE n # m
      BY <2>1, <2>3, <3>2 DEF AskedAt, Asked
    <3> QED BY <3>1, <3>2
  <2> QED BY <2>3, <2>4 DEF Asked, Reported
<1>4. CASE Report
  <2>1. /\ stage = "ask" /\ stage' = "decide" /\ UNCHANGED <<cloud, before, tbr, answers, active, todo>>
        /\ Selected \subseteq DOMAIN answers
        /\ report' = [i \in UNION {DOMAIN answers[m] : m \in Selected} |-> Merge(i)]
    BY <1>4 DEF Report
  <2>2. Selected' = Selected
    BY <2>1 DEF Selected, Command
  <2>3. \A i : Merge(i)' = Merge(i)
    BY <2>1, <2>2 DEF Merge, WithOwn, WithNone
  <2> QED BY <2>1, <2>2, <2>3 DEF Asked, AskedAt, Reported
<1>5. CASE Decide
  <2>1. \/ stage' \in {"ended", "backup", "remove"}
        \/ stage' = "ask" /\ answers' = NoAnswers /\ UNCHANGED tbr
    BY <1>5 DEF Decide, End, Again
  <2>2. UNCHANGED <<cloud, before>> /\ stage = "decide"
    BY <1>5 DEF Decide
  <2>3. DOMAIN NoAnswers = {}
    BY DEF NoAnswers
  <2> QED BY <2>1, <2>2, <2>3 DEF Asked, Reported
<1>6. CASE AskFails \/ Made \/ Restored \/ Return
  BY <1>6 DEF AskFails, Made, Restored, Return, StartMachines, End, Asked, Reported
<1>7. CASE Make \/ Remove \/ Removed \/ Restore
  <2>1. stage' \notin {"ask", "decide"}
    BY <1>7 DEF Make, Remove, Removed, Restore, End
  <2> QED BY <2>1 DEF Asked, Reported
<1>8. ASSUME NEW m \in Machine, NEW i \in Id, Progress(m, i) PROVE (Asked /\ Reported)'
  <2>1. UNCHANGED <<stage, answers, before, tbr, report, active, todo>>
    BY <1>8 DEF Progress
  <2>2. Reported'
    <3>1. Selected' = Selected
      BY <2>1 DEF Selected, Command
    <3>2. \A j : Merge(j)' = Merge(j)
      BY <2>1, <3>1 DEF Merge, WithOwn, WithNone
    <3> QED BY <2>1, <3>1, <3>2 DEF Reported
  <2>3. Asked'
    <3>1. SUFFICES ASSUME stage \in {"ask", "decide"} PROVE Asked'
      BY <2>1 DEF Asked
    <3>2. \A n \in Machine, j \in Id :
            /\ cloud'[n][j] = "none" <=> cloud[n][j] = "none"
            /\ cloud'[n][j] = "running" => cloud[n][j] = "running"
            /\ cloud[n][j] = "complete" => cloud'[n][j] = "complete"
      BY <1>8, ProgressMoves
    <3>3. ASSUME NEW n \in DOMAIN answers, NEW j \in Id PROVE AskedAt(n, j)'
      BY <2>1, <3>1, <3>2 DEF Asked, AskedAt, BackupTypeOK
    <3> QED BY <2>1, <3>1, <3>2, <3>3 DEF Asked
  <2> QED BY <2>2, <2>3
<1> QED BY <1>1, <1>2, <1>3, <1>4, <1>5, <1>6, <1>7, <1>8 DEF BackupNext, Step

AskInv == BackupTypeOK /\ Numbers /\ Asked /\ Reported

LEMMA AskInvariant == BackupSpec => []AskInv
<1>1. BackupInit => AskInv
  BY BackupTypeInit DEF BackupInit, AskInv, Asked, Reported
<1>2. AskInv /\ [BackupNext]_backupVars => AskInv'
  BY BackupTypeStep, AskedKept DEF AskInv
<1> QED BY <1>1, <1>2, PTL DEF BackupSpec

(* A backup that is called complete is complete on every machine that was asked
   for, although the cloud goes on while one after the other answers. *)
THEOREM CompleteIsComplete == BackupSpec => []CompleteMeansAll
<1>1. AskInv => CompleteMeansAll
  <2> SUFFICES ASSUME AskInv, stage = "decide", NEW i \in DOMAIN report, report[i] = "complete",
                      NEW m \in Selected
               PROVE  cloud[m][i] = "complete"
    BY DEF CompleteMeansAll
  <2>1. AnswersOK /\ Selected \subseteq DOMAIN answers
    BY DEF AskInv, AnswersOK, BackupTypeOK, Reported
  <2>2. i \in Id /\ Merge(i) = "complete"
    BY DEF AskInv, BackupTypeOK, Reported
  <2>3. i \in DOMAIN answers[m] /\ answers[m][i] = "complete"
    BY <2>1, <2>2, MergeComplete
  <2> QED BY <2>1, <2>2, <2>3 DEF AskInv, Asked, AskedAt
<1> QED BY <1>1, AskInvariant, PTL

(* Without --force no backup begins while one that all these machines have a part
   in is still running on one of them. *)
THEOREM NoneOverRunning == BackupSpec => NotWhileRunning
<1> DEFINE Waits ==
      stage = "decide" /\ stage' = "backup" =>
        \A m \in Selected, i \in Id : Everywhere(i) => cloud[m][i] # "running"
<1>1. AskInv /\ [BackupNext]_backupVars => [Waits]_backupVars
  <2> SUFFICES ASSUME AskInv, BackupNext, stage = "decide", stage' = "backup",
                      NEW m \in Selected, NEW i \in Id, Everywhere(i), cloud[m][i] = "running"
               PROVE  FALSE
    BY DEF Waits
  <2>1. Decide
    BY DEF BackupNext, Step, Begin, Ask, AskFails, Report, Make, Made, Remove, Removed, Restore,
           Restored, Return, Progress
  <2>2. \A j \in DOMAIN report : report[j] # "running"
    BY <2>1 DEF Decide, End, Again
  <2>3. AnswersOK /\ Selected \subseteq DOMAIN answers
    BY DEF AskInv, AnswersOK, BackupTypeOK, Reported
  <2>4. \A n \in Selected : i \in DOMAIN answers[n]
    BY <2>3 DEF AskInv, Asked, AskedAt, Everywhere
  <2>5. answers[m][i] = "running"
    BY <2>3 DEF AskInv, Asked, AskedAt
  <2>6. Merge(i) = "running"
    BY <2>3, <2>4, <2>5, MergeRunning
  <2>7. i \in DOMAIN report /\ report[i] = Merge(i)
    BY <2>4 DEF AskInv, Reported
  <2> QED BY <2>2, <2>6, <2>7
<1>2. NotWhileRunning <=> [][Waits]_backupVars
  BY PTL DEF NotWhileRunning
<1> QED BY <1>1, <1>2, AskInvariant, PTL DEF BackupSpec
-----------------------------------------------------------------------------
(* Backups: cleaning.                                                      *)

Enough == Cardinality(Listed) >= Command.keep
Emptied(i) == \A m \in Machine : cloud[m][i] = "none"
KeptThere ==
  \A i \in Kept, m \in Machine : before[m][i] # "none" => cloud[m][i] # "none"

Untouched ==
  \A i \in Id \ Listed, m \in Machine : cloud[m][i] = "none" <=> before[m][i] = "none"

\* Only what is listed and not to be kept is taken away; what is not there to be
\* taken away any more is gone, as is what is being taken away from those who
\* have done so.
Cleaned ==
  Cleaning =>
    /\ stage \in {"ask", "decide", "remove", "ended"}
    /\ tbr \subseteq Listed /\ Untouched
    /\ Enough => tbr \cap Kept = {} /\ KeptThere
    /\ stage = "remove" =>
         /\ \A i \in (Listed \ Kept) \ tbr : Emptied(i)
         /\ ~ errors /\ tbr # {} => \A m \in Machine \ queue : cloud[m][Least(tbr)] = "none"
    /\ outcome = "ok" => \A i \in Listed \ Kept : Emptied(i)

\* What is listed is numbered.
LEMMA ListedFinite ==
  /\ IsFiniteSet(Listed) /\ Cardinality(Listed) \in Nat
  /\ \A i : /\ Cardinality({j \in Listed : j > i}) \in Nat
            /\ Cardinality({j \in Listed : j > i}) <= Cardinality(Listed)
            /\ i \in Listed =>
                 Cardinality({j \in Listed : j > i}) < Cardinality(Listed)
<1>1. IsFiniteSet(Id)
  BY BackupsAssumption, FS_Interval DEF Id
<1>2. IsFiniteSet(Listed)
  BY <1>1, FS_Subset DEF Listed
<1>3. ASSUME NEW i
      PROVE  /\ IsFiniteSet({j \in Listed : j > i})
             /\ Cardinality({j \in Listed : j > i}) <= Cardinality(Listed)
             /\ Cardinality(Listed) = Cardinality({j \in Listed : j > i}) =>
                  Listed = {j \in Listed : j > i}
  <2>1. {j \in Listed : j > i} \in SUBSET Listed
    OBVIOUS
  <2> QED BY <1>2, <2>1, FS_Subset
<1>4. \A i \in Listed : i \notin {j \in Listed : j > i}
  BY DEF Listed, Id
<1>5. Cardinality(Listed) \in Nat /\ \A i : Cardinality({j \in Listed : j > i}) \in Nat
  BY <1>2, <1>3, FS_CardinalityType
<1>6. \A i \in Listed : Cardinality({j \in Listed : j > i}) < Cardinality(Listed)
  <2> SUFFICES ASSUME NEW i \in Listed
               PROVE  Cardinality({j \in Listed : j > i}) < Cardinality(Listed)
    OBVIOUS
  <2> DEFINE above == {j \in Listed : j > i}
  <2>1. Cardinality(above) <= Cardinality(Listed) /\ Cardinality(above) # Cardinality(Listed)
    BY <1>3, <1>4
  <2>2. Cardinality(above) \in Nat /\ Cardinality(Listed) \in Nat
    BY <1>5
  <2> HIDE DEF above
  <2>3. Cardinality(above) < Cardinality(Listed)
    BY <2>1, <2>2
  <2> QED BY <2>3 DEF above
<1> QED BY <1>2, <1>3, <1>5, <1>6

\* With as many backups as are to be kept, clean-backups picks all the others.
LEMMA PicksTheOthers ==
  ASSUME BackupTypeOK, Command \in Requests, DOMAIN report = Listed, Command.days = 0
  PROVE  /\ Enough => ToBeRemoved = Listed \ Kept
         /\ ~ Enough => Listed \ Kept = {}
<1>1. Command.keep \in Nat
  BY DEF Requests
<1>2. \A i : Newer(i) = {j \in Listed : j > i}
  BY DEF Newer
<1>3. CASE Enough
  <2> DEFINE length == Cardinality(Listed)
             above(i) == Cardinality({j \in Listed : j > i})
  <2>1. ToBeRemoved = {i \in Listed : length - above(i) <= length - Command.keep}
    BY <1>2, <1>3 DEF ToBeRemoved, Older, Enough
  <2>2. length \in Nat /\ \A i : above(i) \in Nat
    BY ListedFinite
  <2>3. Kept = {i \in Listed : above(i) < Command.keep}
    BY DEF Kept
  <2> HIDE DEF length, above
  <2>4. ToBeRemoved = Listed \ Kept
    BY <1>1, <2>1, <2>2, <2>3
  <2> QED BY <1>3, <2>4
<1>4. CASE ~ Enough
  <2>1. \A i \in Listed : Cardinality({j \in Listed : j > i}) < Command.keep
    BY <1>1, <1>4, ListedFinite DEF Enough
  <2> QED BY <1>4, <2>1 DEF Kept
<1> QED BY <1>3, <1>4

\* While one command is under way, what it is to do stays the same.
LEMMA CleaningSame ==
  ASSUME UNCHANGED <<active, before, todo>>
  PROVE  /\ Command' = Command /\ Listed' = Listed /\ Kept' = Kept /\ (Enough' <=> Enough)
         /\ (Cleaning' /\ stage # "idle" => Cleaning)
<1>1. Command' = Command
  BY DEF Command
<1>2. Listed' = Listed
  BY DEF Listed
<1> QED BY <1>1, <1>2 DEF Kept, Enough, Cleaning

\* What clean-backups has listed at its decision.
LEMMA ListsAll ==
  ASSUME AskInv, Cleaning, stage = "decide"
  PROVE  Command \in Requests /\ DOMAIN report = Listed
<1>1. Command \in Requests /\ Command.include = {}
  BY CommandOK DEF AskInv, Cleaning, Requests
<1>2. Selected = active
  BY <1>1 DEF Selected
<1>3. \A m \in active : m \in DOMAIN answers /\ m \in Machine
  BY <1>2 DEF AskInv, Reported, BackupTypeOK
<1>4. \A m \in active : DOMAIN answers[m] = {i \in Id : before[m][i] # "none"}
  <2> SUFFICES ASSUME NEW m \in active PROVE DOMAIN answers[m] = {i \in Id : before[m][i] # "none"}
    OBVIOUS
  <2>1. DOMAIN answers[m] \subseteq Id
    BY <1>3 DEF AskInv, BackupTypeOK, Answers
  <2>2. \A i \in Id : i \in DOMAIN answers[m] <=> before[m][i] # "none"
    BY <1>3 DEF AskInv, Asked, AskedAt
  <2> QED BY <2>1, <2>2
<1>5. DOMAIN report = UNION {DOMAIN answers[m] : m \in active}
  BY <1>2 DEF AskInv, Reported
<1> QED BY <1>1, <1>4, <1>5 DEF Listed

LEMMA CleanedKept ==
  ASSUME AskInv, Cleaned, [BackupNext]_backupVars
  PROVE  Cleaned'
<1> USE DEF worldVars, localVars
<1>1. CASE UNCHANGED backupVars
  <2>1. UNCHANGED <<active, before, todo, stage, tbr, cloud, errors, queue, outcome>>
    BY <1>1 DEF backupVars
  <2> QED BY <2>1, CleaningSame DEF Cleaned, KeptThere, Untouched, Emptied, Cleaning
<1>2. CASE Begin
  <2>1. /\ stage' = First /\ before' = cloud /\ cloud' = cloud /\ UNCHANGED <<todo, outcome>>
        /\ outcome = "none" /\ todo # <<>> /\ Command \in Requests
    BY <1>2, CommandOK DEF Begin, AskInv, Numbers
  <2>2. SUFFICES ASSUME Cleaning' PROVE Cleaned'
    BY DEF Cleaned
  <2>3. Command' = Command /\ Command.op = "clean" /\ First = "ask"
    BY <2>1, <2>2 DEF Cleaning, Command, First, Requests
  <2>4. tbr' = {}
    BY <1>2, <2>3 DEF Begin
  <2> QED BY <2>1, <2>3, <2>4 DEF Cleaned, KeptThere, Untouched
<1>3. CASE Return
  BY <1>3 DEF Return, Cleaned, Cleaning
<1>4. CASE ~ Begin /\ ~ Return /\ ~ UNCHANGED backupVars
  <2>1. \/ UNCHANGED <<active, before, todo>> /\ stage # "idle"
        \/ UNCHANGED <<active, before, todo, stage>>
    BY <1>4 DEF BackupNext, Step, Ask, AskFails, Report, Decide, Make, Made, Remove, Removed,
                Restore, Restored, Progress
  <2>2. SUFFICES ASSUME Cleaning' PROVE Cleaned'
    BY DEF Cleaned
  <2>3. Cleaning /\ Command' = Command /\ Listed' = Listed /\ Kept' = Kept /\ (Enough' <=> Enough)
    BY <2>1, <2>2, CleaningSame DEF Cleaning
  <2>4. stage \in {"ask", "decide", "remove", "ended"} /\ Command.op = "clean" /\ Command.days = 0
    BY <2>3 DEF Cleaned, Cleaning
  <2>5. CASE Ask \/ AskFails \/ Report
    <3>1. /\ UNCHANGED <<cloud, before, tbr>> /\ stage' \in {"ask", "decide", "ended"}
          /\ outcome' \in {outcome, "failed"} /\ stage = "ask"
      BY <2>5 DEF Ask, AskFails, Report, End
    <3>2. outcome = "none"
      BY <3>1 DEF AskInv, Numbers
    <3> QED BY <2>3, <3>1, <3>2 DEF Cleaned, KeptThere, Untouched
  <2>6. CASE Decide
    <3>1. /\ stage = "decide" /\ stage' = "remove" /\ tbr' = ToBeRemoved /\ queue' = Machine
          /\ UNCHANGED <<cloud, before, outcome>>
      BY <2>4, <2>6 DEF Decide
    <3>2. outcome = "none"
      BY <3>1 DEF AskInv, Numbers
    <3>3. /\ Enough => ToBeRemoved = Listed \ Kept
          /\ ~ Enough => Listed \ Kept = {}
      BY <2>3, <2>4, <3>1, ListsAll, PicksTheOthers DEF AskInv
    <3>4. tbr' \subseteq Listed
      <4>1. ToBeRemoved \subseteq DOMAIN report
        BY DEF ToBeRemoved, Older
      <4> QED BY <2>3, <3>1, <4>1, ListsAll
    <3> QED BY <2>3, <3>1, <3>2, <3>3, <3>4 DEF Cleaned, KeptThere, Untouched
  <2>7. CASE Remove
    <3>1. PICK m \in Machine :
            /\ m \in queue /\ queue' = queue \ {m} /\ errors' \in {errors, TRUE}
            /\ \/ cloud' = [cloud EXCEPT ![m][Least(tbr)] = "none"]
               \/ errors' = TRUE /\ UNCHANGED cloud
      BY <2>7 DEF Remove, Does, Task, Concerned
    <3>2. /\ stage = "remove" /\ tbr # {} /\ UNCHANGED <<stage, tbr, before, outcome>>
      BY <2>7 DEF Remove
    <3>3. outcome = "none" /\ BackupTypeOK
      BY <3>2 DEF AskInv, Numbers
    <3>4. Least(tbr) \in tbr /\ Least(tbr) \in Id /\ Least(tbr) \in Listed
      BY <2>3, <3>2, <3>3, LeastIsIn DEF BackupTypeOK, Cleaned
    <3>5. CASE errors' = TRUE /\ UNCHANGED cloud
      BY <2>3, <3>1, <3>2, <3>3, <3>5 DEF Cleaned, KeptThere, Untouched, Emptied
    <3>6. CASE cloud' = [cloud EXCEPT ![m][Least(tbr)] = "none"]
      <4>1. \A n \in Machine, j \in Id :
              cloud'[n][j] = IF n = m /\ j = Least(tbr) THEN "none" ELSE cloud[n][j]
        <5>1. "none" \in Status
          BY DEF Status
        <5> QED BY <3>3, <3>4, <3>6, <5>1, CloudSet
      <4>2. Kept \subseteq Id /\ Listed \subseteq Id
        BY DEF Kept, Listed
      <4>3. Enough => KeptThere'
        BY <2>3, <3>2, <3>4, <4>1, <4>2 DEF Cleaned, KeptThere
      <4>4. \A i \in (Listed \ Kept) \ tbr : Emptied(i)'
        BY <2>3, <3>2, <4>1, <4>2 DEF Cleaned, Emptied
      <4>5. ~ errors' => \A n \in Machine \ queue' : cloud'[n][Least(tbr)] = "none"
        <5>1. ~ errors' => ~ errors
          BY <3>1, Zenon
        <5> QED BY <2>3, <3>1, <3>2, <3>4, <4>1, <5>1 DEF Cleaned
      <4>6. Untouched'
        BY <2>3, <3>2, <3>4, <4>1 DEF Cleaned, Untouched
      <4> QED BY <2>3, <3>2, <3>3, <4>3, <4>4, <4>5, <4>6 DEF Cleaned
    <3> QED BY <3>1, <3>5, <3>6
  <2>8. CASE Removed
    <3>1. stage = "remove" /\ UNCHANGED <<cloud, before, errors>>
      BY <2>8 DEF Removed
    <3>2. outcome = "none" /\ BackupTypeOK
      BY <3>1 DEF AskInv, Numbers
    <3>3. CASE tbr = {} /\ End("ok") /\ UNCHANGED <<queue, tbr>>
      BY <2>3, <3>1, <3>3 DEF Cleaned, KeptThere, Untouched, Emptied, End
    <3>4. CASE End("failed") /\ UNCHANGED <<queue, tbr>>
      BY <2>3, <3>1, <3>4 DEF Cleaned, KeptThere, Untouched, End
    <3>5. CASE /\ tbr # {} /\ queue = {} /\ ~ errors
               /\ tbr' = tbr \ {Least(tbr)} /\ queue' = Machine /\ UNCHANGED <<stage, outcome>>
      <4>1. Emptied(Least(tbr))
        BY <2>3, <3>1, <3>5 DEF Cleaned, Emptied
      <4> QED BY <2>3, <3>1, <3>2, <3>5, <4>1 DEF Cleaned, KeptThere, Untouched, Emptied
    <3> QED BY <2>8, <3>3, <3>4, <3>5 DEF Removed
  <2>9. ASSUME NEW m \in Machine, NEW i \in Id, Progress(m, i) PROVE Cleaned'
    <3>1. UNCHANGED <<stage, before, tbr, queue, errors, outcome>>
      BY <2>9 DEF Progress
    <3>2. \A n \in Machine, j \in Id : cloud'[n][j] = "none" <=> cloud[n][j] = "none"
      BY <2>9, ProgressMoves DEF AskInv
    <3>3. Kept \subseteq Id /\ Listed \subseteq Id
      BY DEF Kept, Listed
    <3>4. KeptThere => KeptThere'
      BY <2>3, <3>1, <3>2, <3>3 DEF KeptThere
    <3>5. \A j \in Listed : Emptied(j) => Emptied(j)'
      BY <3>2, <3>3 DEF Emptied
    <3>6. tbr # {} => Least(tbr) \in Id
      BY LeastIsIn DEF AskInv, BackupTypeOK
    <3>7. /\ stage = "remove" /\ ~ errors /\ tbr # {} =>
               \A n \in Machine \ queue : cloud'[n][Least(tbr)] = "none"
      BY <2>3, <3>2, <3>6 DEF Cleaned
    <3>8. Untouched'
      BY <2>3, <3>1, <3>2 DEF Cleaned, Untouched
    <3> QED BY <2>3, <3>1, <3>4, <3>5, <3>7, <3>8 DEF Cleaned
  <2>10. CASE Make \/ Made \/ Restore \/ Restored
    BY <2>4, <2>10 DEF Make, Made, Restore, Restored
  <2> QED BY <1>4, <2>5, <2>6, <2>7, <2>8, <2>9, <2>10 DEF BackupNext, Step
<1> QED BY <1>1, <1>2, <1>3, <1>4

LEMMA CleanInvariant == BackupSpec => []Cleaned
<1>1. BackupInit => Cleaned
  BY DEF BackupInit, Cleaned, Cleaning
<1>2. AskInv /\ Cleaned /\ [BackupNext]_backupVars => Cleaned'
  BY CleanedKept
<1> QED BY <1>1, <1>2, AskInvariant, PTL DEF BackupSpec

(* clean-backups --keep n, given n backups: the n newest stay, whichever of the
   removals fail. *)
THEOREM NewestStay == BackupSpec => []NewestKept
<1>1. Cleaned => NewestKept
  BY DEF Cleaned, NewestKept, Enough, KeptThere
<1> QED BY <1>1, CleanInvariant, PTL

(* When it succeeds, the older ones that an active machine still had are gone
   from every machine, and of no other has any machine lost its part. *)
THEOREM OlderAreGone == BackupSpec => []OlderGone
<1>1. Cleaned => OlderGone
  <2> SUFFICES ASSUME Cleaned, Cleaning, outcome = "ok", NEW m \in Machine
               PROVE  /\ \A i \in Listed \ Kept : cloud[m][i] = "none"
                      /\ \A i \in Id \ Listed : cloud[m][i] = "none" <=> before[m][i] = "none"
    BY DEF OlderGone
  <2> QED BY DEF Cleaned, Emptied, Untouched
<1> QED BY <1>1, CleanInvariant, PTL
=============================================================================
