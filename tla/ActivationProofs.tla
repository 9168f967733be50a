-------------------------- MODULE ActivationProofs --------------------------
(***************************************************************************)
(* Proofs about Activation, for any number of machines, any options and    *)
(* any limits on the workers: nothing is activated before all is copied,   *)
(* no machine boots or runs what it does not have, the report and the exit *)
(* status of a command claim no more than is true, and a command leaves    *)
(* alone what it is not asked to change.                                   *)
(*                                                                         *)
(* From NoLineMixed on about LoggedExec, by which the workers reach their  *)
(* machines, for any number of calls and any children: no line of the log  *)
(* has two writers, and nothing a child has written is lost.               *)
(***************************************************************************)
EXTENDS Activation, LoggedExec, FiniteSetTheorems, SequenceTheorems, TLAPS

(* Of the command. *)

\* Before a run_tasks call nobody is at work.
Quiet == verdict = "none" /\ \A m \in Machine : status[m] = "idle"

PhaseInv ==
  /\ phase = "none" <=> command = "none"
  /\ phase \in {"none", "build"} \/ (phase = "copy" /\ BuildsOnly) => Quiet
  /\ phase \in {"activate", "cleanup"} =>
       ~ BuildsOnly /\ "copy-only" \notin flags /\ verdict # "none"
  /\ phase = "cleanup" => verdict = "returned" /\ AllActivated
  /\ command # "none" => result = "none"

(* Of the workers. *)

Copying == {"copying", "raising"}
Activating == {"profile", "keys", "switch", "rebooting", "hanging", "rekeys", "record",
               "recordToplevel", "failing"}

\* A worker is somewhere while its task runs, at a place of the phase.
PlaceInv ==
  \A m \in Machine :
    /\ pc[m] = "idle" <=> status[m] # "running"
    /\ pc[m] \in Copying => phase = "copy"
    /\ pc[m] \in Activating => phase = "activate"
    /\ pc[m] = "ending" => phase \in {"copy", "activate"}
    /\ pc[m] \in Copying \cup Activating => m \in selected

\* The tasks of a call are the active machines.
CallInv ==
  \A m \in Machine :
    /\ status[m] # "idle" => m \in active
    /\ m \in active /\ verdict # "none" => status[m] # "idle"
    /\ verdict = "returned" => status[m] \notin {"queued", "running", "error"}
    /\ status[m] = "error" => phase = "copy"

\* A copy that has ended without an exception has been made.
CopyInv ==
  phase = "copy" =>
    \A m \in selected :
      pc[m] = "ending" \/ status[m] \in {"nothing", "value"} =>
        target.toplevel \in closures[m]

\* What holds of a machine at each place on its way to a full activation.
ReachedInv ==
  phase \in {"activate", "cleanup"} /\ flags \cap Partial = {} =>
    \A m \in selected :
      /\ pc[m] \in {"keys", "switch", "rebooting", "rekeys", "record", "recordToplevel"} =>
           profile[m] = target.toplevel
      /\ pc[m] = "switch" => keys[m] \/ rescue[m]
      /\ pc[m] \in {"rebooting", "rekeys", "record", "recordToplevel"} =>
           boots[m] = target.toplevel
      /\ pc[m] \in {"rekeys", "record", "recordToplevel"} =>
           running[m] = target.toplevel /\ ~ rescue[m]
      /\ pc[m] \in {"record", "recordToplevel"} => keys[m]
      /\ pc[m] = "recordToplevel" => curPath[m] = target
      /\ pc[m] = "ending" \/ status[m] = "nothing" =>
           Delivered(m) /\ keys[m] /\ ~ rescue[m]

\* Where an option does not let a worker go.
OptionInv ==
  \A m \in Machine :
    /\ pc[m] = "profile" => "test" \notin flags
    /\ pc[m] = "rebooting" => Reboots(m)

IInv ==
  /\ PhaseInv /\ PlaceInv /\ CallInv /\ CopyInv /\ CopiesFirst /\ NothingMissing
  /\ ReachedInv /\ OptionInv
-----------------------------------------------------------------------------
(* Types.                                                                  *)

CommandOK ==
  /\ command \in {"none", "deploy", "rollback"} /\ flags \subseteq AllFlags
  /\ selected \subseteq Machine /\ obsolete \subseteq Machine
  /\ phase \in {"none", "build", "copy", "activate", "cleanup"}
  /\ target \in Paths /\ configsPath \in Paths /\ generations \subseteq Paths \ {NoPath}
  /\ result \in {"none", "succeeded", "failed", "died"}
  /\ issued \in 0 .. MaxCommands /\ definitions \in BOOLEAN

MachineOK ==
  /\ closures \in [Machine -> SUBSET Toplevels]
  /\ profile \in [Machine -> Toplevels] /\ boots \in [Machine -> Toplevels]
  /\ running \in [Machine -> Toplevels] /\ curToplevel \in [Machine -> Toplevels]
  /\ keys \in [Machine -> BOOLEAN] /\ rescue \in [Machine -> BOOLEAN]
  /\ curPath \in [Machine -> Paths]

WorkerOK ==
  /\ pc \in [Machine -> {"idle", "copying", "raising", "profile", "keys", "switch",
                         "rebooting", "hanging", "rekeys", "record", "recordToplevel",
                         "failing", "ending"}]
  /\ Pool!TypeOK

LEMMA TypeParts == TypeOK <=> CommandOK /\ MachineOK /\ WorkerOK
BY DEF TypeOK, CommandOK, MachineOK, WorkerOK

\* A configuration that is being built is not what was there before.
Types == TypeOK /\ (phase = "build" => target # NoPath)

LEMMA TypesNext ==
  ASSUME CommandOK', MachineOK', WorkerOK', phase' = "build" => target' # NoPath
  PROVE  Types'
BY DEF Types, TypeOK, CommandOK, MachineOK, WorkerOK

LEMMA InitTypes == Init => Types
<1> SUFFICES ASSUME Init PROVE Types
  OBVIOUS
<1>1. 0 \in Toplevels /\ NoPath \in Paths /\ 0 \in 0 .. MaxCommands
  BY ActivationAssumption DEF Toplevels, Paths, NoPath
<1>2. CommandOK
  BY <1>1 DEF Init, CommandOK
<1>3. MachineOK
  BY <1>1 DEF Init, MachineOK
<1>4. WorkerOK
  BY DEF Init, WorkerOK, Pool!Init, Pool!TypeOK, Pool!Statuses, Pool!Verdicts
<1> QED BY <1>2, <1>3, <1>4, TypeParts DEF Types, Init

\* A call of run_tasks on some of the machines.
LEMMA CallTypes ==
  ASSUME NEW n \in Int, NEW S \in SUBSET Machine, Pool!Call(n, S)
  PROVE  Pool!TypeOK'
<1>1. Cardinality(S) \in Nat
  BY ActivationAssumption, FS_Subset, FS_CardinalityType
<1>2. Pool!Workers(n, S) \in Int
  <2>1. \A T : Pool!IsFiniteSet(T) <=> IsFiniteSet(T)
    BY DEF Pool!IsFiniteSet, IsFiniteSet
  <2>2. \A T : Pool!Cardinality(T) = Cardinality(T)
    BY <2>1 DEF Pool!Cardinality, Cardinality
  <2> QED BY <1>1, <2>2 DEF Pool!Workers
<1>3. width' \in Int
  BY <1>2 DEF Pool!Call
<1>4. verdict' \in {"returned", "rejected", "open"}
  BY DEF Pool!Call
<1>5. status' \in [Machine -> {"queued", "idle"}]
  BY DEF Pool!Call
<1> QED BY <1>3, <1>4, <1>5 DEF Pool!TypeOK, Pool!Statuses, Pool!Verdicts

LEMMA GoneTypes == ASSUME Types, Gone, result' \in {"succeeded", "failed", "died"} PROVE Types'
<1> USE TypeParts
<1>1. CommandOK'
  BY ActivationAssumption DEF Types, CommandOK, Gone, deploymentVars, Paths, NoPath, Toplevels
<1>2. MachineOK'
  BY DEF Types, MachineOK, Gone, machineVars, recordVars
<1>3. WorkerOK'
  BY DEF Types, WorkerOK, Gone, Pool!TypeOK, Pool!Statuses, Pool!Verdicts
<1> QED BY <1>1, <1>2, <1>3, TypesNext DEF Types, Gone

LEMMA CommandTypes ==
  ASSUME Types, \/ \E v \in 1 .. MaxConfig, S \in Selections, F \in FlagSets : StartDeploy(v, S, F)
                \/ \E g \in generations, S \in Selections, F \in FlagSets : StartRollback(g, S, F)
                \/ CommandStep
                \/ Die
  PROVE  Types'
<1> USE TypeParts
<1>1. CASE \E v \in 1 .. MaxConfig, S \in Selections, F \in FlagSets : StartDeploy(v, S, F)
  <2>1. PICK v \in 1 .. MaxConfig, S \in Selections, F \in FlagSets : StartDeploy(v, S, F)
    BY <1>1
  <2>2. [toplevel |-> v, machines |-> S] \in Paths /\ v # 0 /\ F \subseteq AllFlags /\ S \subseteq Machine
    BY ActivationAssumption DEF Paths, Toplevels
  <2>3. CommandOK'
    BY <2>1, <2>2, ActivationAssumption DEF StartDeploy, Types, CommandOK
  <2>4. MachineOK' /\ WorkerOK'
    BY <2>1 DEF StartDeploy, Types, MachineOK, WorkerOK, machineVars, recordVars, poolVars,
                Pool!TypeOK
  <2> QED BY <2>1, <2>2, <2>3, <2>4, TypesNext DEF StartDeploy, Types, NoPath
<1>2. CASE \E g \in generations, S \in Selections, F \in FlagSets : StartRollback(g, S, F)
  <2>1. PICK g \in generations, S \in Selections, F \in FlagSets : StartRollback(g, S, F)
    BY <1>2
  <2>2. g \in Paths /\ g.machines \subseteq Machine /\ F \subseteq AllFlags /\ S \subseteq Machine
    BY ActivationAssumption DEF Types, CommandOK, Paths
  <2>3. CommandOK'
    BY <2>1, <2>2, ActivationAssumption DEF StartRollback, Types, CommandOK
  <2>4. MachineOK'
    BY <2>1 DEF StartRollback, Types, MachineOK, machineVars, recordVars
  <2>5. WorkerOK'
    BY <2>1, <2>2, CallTypes, ActivationAssumption DEF StartRollback, Types, WorkerOK
  <2> QED BY <2>1, <2>3, <2>4, <2>5, TypesNext DEF StartRollback, Types
<1>3. CASE Build
  <2>1. target \in Paths /\ NoPath \in Paths /\ Built \in Paths /\ (InProfile => Built # NoPath)
    BY <1>3, ActivationAssumption
    DEF Build, Types, CommandOK, Built, InProfile, Paths, NoPath, Toplevels
  <2>2. CommandOK'
    BY <1>3, <2>1 DEF Build, Types, CommandOK, commandVars
  <2>3. MachineOK'
    BY <1>3 DEF Build, Types, MachineOK, machineVars, recordVars
  <2>4. WorkerOK'
    BY <1>3, CallTypes, ActivationAssumption
    DEF Build, Types, WorkerOK, poolVars, Pool!TypeOK, active
  <2> QED BY <1>3, <2>2, <2>3, <2>4, TypesNext DEF Build
<1>4. CASE Activate
  <2>1. CommandOK' /\ MachineOK'
    BY <1>4 DEF Activate, Types, CommandOK, MachineOK, commandVars, deploymentVars, machineVars,
                recordVars
  <2>2. WorkerOK'
    BY <1>4, CallTypes, ActivationAssumption DEF Activate, Types, WorkerOK, active
  <2> QED BY <1>4, <2>1, <2>2, TypesNext DEF Activate
<1>5. CASE PoolReturns
  BY <1>5, TypesNext DEF PoolReturns, Types, CommandOK, MachineOK, WorkerOK, commandVars, deploymentVars,
              machineVars, recordVars, Pool!Return, Pool!TypeOK, Pool!Verdicts
<1>6. CASE Cleanup
  BY <1>6, TypesNext DEF Cleanup, Types, CommandOK, MachineOK, WorkerOK, commandVars, deploymentVars,
              machineVars, recordVars, poolVars, Pool!TypeOK
<1>7. CASE Finish \/ Fail \/ Die
  BY <1>7, GoneTypes DEF Finish, Fail, Die
<1> QED BY <1>1, <1>2, <1>3, <1>4, <1>5, <1>6, <1>7 DEF CommandStep

LEMMA WorkerTypes == ASSUME Types, NEW m \in Machine, WorkerStep(m) PROVE Types'
<1> USE TypeParts
<1>1. CommandOK' /\ (phase' = "build" => target' # NoPath)
  BY DEF WorkerStep, Take, Copy, SetProfile, SendKeys, Switch, Reboot, Record, RecordToplevel,
         End, Unmoved, commandVars, deploymentVars, Types, CommandOK
<1>2. target.toplevel \in Toplevels /\ target \in Paths
  BY DEF Types, CommandOK, Paths
<1>3. MachineOK'
  <2>1. CASE Take(m) \/ End(m)
    BY <2>1 DEF Take, End, machineVars, recordVars, Types, MachineOK
  <2>2. CASE Copy(m)
    BY <2>2, <1>2 DEF Copy, recordVars, Types, MachineOK
  <2>3. CASE SetProfile(m)
    BY <2>3, <1>2 DEF SetProfile, recordVars, Types, MachineOK
  <2>4. CASE SendKeys(m)
    BY <2>4 DEF SendKeys, recordVars, Types, MachineOK
  <2>5. CASE Switch(m)
    BY <2>5, <1>2 DEF Switch, Switched, recordVars, Types, MachineOK
  <2>6. CASE Reboot(m)
    BY <2>6 DEF Reboot, recordVars, Types, MachineOK
  <2>7. CASE Record(m) \/ RecordToplevel(m)
    BY <2>7, <1>2 DEF Record, RecordToplevel, machineVars, Types, MachineOK
  <2> QED BY <2>1, <2>2, <2>3, <2>4, <2>5, <2>6, <2>7 DEF WorkerStep
<1>4. WorkerOK'
  <2>1. CASE Take(m)
    BY <2>1 DEF Take, GoTo, Types, WorkerOK, Pool!Begin, Pool!TypeOK, Pool!Statuses
  <2>2. CASE End(m)
    BY <2>2 DEF End, OutcomeOf, GoTo, Types, WorkerOK, Pool!End, Pool!TypeOK, Pool!Statuses,
                Pool!Outcomes
  <2>3. CASE UNCHANGED poolVars
    BY <2>3 DEF WorkerStep, Take, Copy, SetProfile, SendKeys, Switch, After, Reboot, AfterReboot,
                Record, RecordToplevel, End, GoTo, poolVars, Types, WorkerOK, Pool!TypeOK
  <2> QED BY <2>1, <2>2, <2>3 DEF WorkerStep, Copy, SetProfile, SendKeys, Switch, Reboot, Record,
                                  RecordToplevel
<1> QED BY <1>1, <1>3, <1>4, TypesNext

LEMMA StepTypes == Types /\ [Next]_vars => Types'
<1> SUFFICES ASSUME Types, [Next]_vars PROVE Types'
  OBVIOUS
<1>1. CASE Next
  BY <1>1, CommandTypes, WorkerTypes DEF Next
<1>2. CASE UNCHANGED vars
  BY <1>2, TypeParts, TypesNext DEF vars, Types, CommandOK, MachineOK, WorkerOK, Pool!TypeOK, Pool!Statuses,
                       Pool!Verdicts
<1> QED BY <1>1, <1>2

(* Every variable has its type, for any constants. *)
THEOREM TypeCorrect == Spec => []TypeOK
<1>1. Types => TypeOK
  BY DEF Types
<1> QED BY <1>1, InitTypes, StepTypes, PTL DEF Spec
-----------------------------------------------------------------------------
(* The steps of the command.                                               *)

AtRest == \A m \in Machine : pc[m] = "idle"

LEMMA InitInv == Init => IInv
<1> SUFFICES ASSUME Init PROVE IInv
  OBVIOUS
<1>1. Quiet /\ AtRest
  BY DEF Init, Quiet, AtRest, Pool!Init
<1>2. PhaseInv
  BY <1>1 DEF Init, PhaseInv
<1>3. PlaceInv /\ CallInv /\ OptionInv
  BY <1>1 DEF Quiet, AtRest, PlaceInv, CallInv, OptionInv, Copying, Activating
<1>4. NothingMissing
  BY DEF Init, NothingMissing
<1> QED BY <1>2, <1>3, <1>4 DEF Init, IInv, CopyInv, CopiesFirst, ReachedInv

\* Where no task has run yet the workers' part holds.
LEMMA RestInv ==
  ASSUME AtRest', \A m \in Machine : status'[m] \in {"idle", "queued"}, selected' \subseteq Machine
  PROVE  PlaceInv' /\ CopyInv' /\ ReachedInv' /\ OptionInv'
<1>1. PlaceInv' /\ OptionInv'
  BY DEF AtRest, PlaceInv, OptionInv, Copying, Activating
<1>2. CopyInv'
  BY DEF AtRest, CopyInv
<1>3. ReachedInv'
  BY DEF AtRest, ReachedInv
<1> QED BY <1>1, <1>2, <1>3

\* No worker is anywhere when no task runs.
LEMMA RestBefore ==
  ASSUME Types, PlaceInv, \A m \in Machine : status[m] # "running"
  PROVE  AtRest
BY DEF PlaceInv, AtRest

\* run_tasks begins, with the active machines.
LEMMA CallBegins ==
  ASSUME Types', NEW n, AtRest, UNCHANGED pc, Pool!Call(n, active')
  PROVE  /\ PlaceInv' /\ CallInv' /\ CopyInv' /\ ReachedInv' /\ OptionInv'
         /\ verdict' # "none"
<1>1. /\ status' = [m \in Machine |-> IF m \in active' THEN "queued" ELSE "idle"]
      /\ verdict' # "none" /\ (verdict' = "returned" => active' = {})
  BY DEF Pool!Call
<1>2. AtRest' /\ selected' \subseteq Machine
  BY DEF AtRest, Types, TypeOK
<1>3. CallInv'
  BY <1>1 DEF CallInv
<1> QED BY <1>1, <1>2, <1>3, RestInv

LEMMA GoneInv == ASSUME Types, IInv, Gone PROVE IInv'
<1>1. AtRest' /\ Quiet' /\ selected' \subseteq Machine /\ \A m \in Machine : status'[m] = "idle"
  BY DEF Gone, AtRest, Quiet
<1>2. PhaseInv'
  BY <1>1 DEF Gone, PhaseInv, Quiet
<1>3. CallInv'
  BY <1>1 DEF CallInv, Quiet
<1>4. CopiesFirst'
  BY DEF Gone, CopiesFirst
<1>5. NothingMissing'
  BY DEF Gone, machineVars, IInv, NothingMissing
<1> QED BY <1>1, <1>2, <1>3, <1>4, <1>5, RestInv DEF IInv

LEMMA StartDeployInv ==
  ASSUME Types, Types', IInv, NEW v, NEW S, NEW F, StartDeploy(v, S, F)
  PROVE  IInv'
<1>1. Quiet
  BY DEF StartDeploy, IInv, PhaseInv
<1>2. AtRest
  BY <1>1, RestBefore DEF IInv, Quiet
<1>3. AtRest' /\ Quiet' /\ selected' \subseteq Machine /\ \A m \in Machine : status'[m] = "idle"
  BY <1>1, <1>2 DEF StartDeploy, AtRest, Quiet, poolVars, Types, TypeOK
<1>4. PhaseInv'
  BY <1>3 DEF StartDeploy, PhaseInv
<1>5. CallInv'
  BY <1>3 DEF CallInv, Quiet
<1>6. CopiesFirst'
  BY DEF StartDeploy, CopiesFirst
<1>7. NothingMissing'
  BY DEF StartDeploy, machineVars, IInv, NothingMissing
<1> QED BY <1>3, <1>4, <1>5, <1>6, <1>7, RestInv DEF IInv

LEMMA StartRollbackInv ==
  ASSUME Types, Types', IInv, NEW g \in generations, NEW S, NEW F, StartRollback(g, S, F)
  PROVE  IInv'
<1>1. AtRest
  BY RestBefore DEF StartRollback, IInv, PhaseInv, Quiet
<1>2. active' = g.machines
  BY DEF StartRollback, active, Types, TypeOK, Paths
<1>3. PlaceInv' /\ CallInv' /\ CopyInv' /\ ReachedInv' /\ OptionInv' /\ verdict' # "none"
  BY <1>1, <1>2, CallBegins DEF StartRollback
<1>4. PhaseInv'
  BY <1>3 DEF StartRollback, PhaseInv, BuildsOnly
<1>5. CopiesFirst'
  BY DEF StartRollback, CopiesFirst
<1>6. NothingMissing'
  BY DEF StartRollback, machineVars, IInv, NothingMissing
<1> QED BY <1>3, <1>4, <1>5, <1>6 DEF IInv

LEMMA BuildInv == ASSUME Types, Types', IInv, Build PROVE IInv'
<1>1. Quiet /\ AtRest
  BY RestBefore DEF Build, IInv, PhaseInv, Quiet
<1>2. CopiesFirst' /\ NothingMissing'
  BY DEF Build, machineVars, IInv, CopiesFirst, NothingMissing
<1>3. CASE BuildsOnly
  <2>1. AtRest' /\ Quiet' /\ selected' \subseteq Machine /\ \A m \in Machine : status'[m] = "idle"
    BY <1>1, <1>3 DEF Build, AtRest, Quiet, poolVars, Types, TypeOK
  <2>2. PhaseInv'
    BY <1>3, <2>1 DEF Build, commandVars, PhaseInv, IInv
  <2>3. CallInv'
    BY <2>1 DEF CallInv, Quiet
  <2> QED BY <1>2, <2>1, <2>2, <2>3, RestInv DEF IInv
<1>4. CASE ~ BuildsOnly
  <2>1. active' = active
    BY DEF Build, active
  <2>2. PlaceInv' /\ CallInv' /\ CopyInv' /\ ReachedInv' /\ OptionInv' /\ verdict' # "none"
    BY <1>1, <1>4, <2>1, CallBegins DEF Build
  <2>3. PhaseInv'
    BY <1>4, <2>2 DEF Build, commandVars, PhaseInv, BuildsOnly, IInv
  <2> QED BY <1>2, <2>2, <2>3 DEF IInv
<1> QED BY <1>3, <1>4

LEMMA ActivateInv == ASSUME Types, Types', IInv, Activate PROVE IInv'
<1>1. verdict = "returned" /\ phase = "copy" /\ "copy-only" \notin flags
  BY DEF Activate, Copied
<1>2. AtRest
  BY <1>1, RestBefore DEF IInv, CallInv
<1>3. active' = active /\ UNCHANGED <<flags, selected, target, closures, command, result>>
  BY DEF Activate, active, commandVars, deploymentVars, machineVars
<1>4. PlaceInv' /\ CallInv' /\ CopyInv' /\ ReachedInv' /\ OptionInv' /\ verdict' # "none"
  BY <1>2, <1>3, CallBegins DEF Activate
<1>5. PhaseInv'
  BY <1>1, <1>3, <1>4 DEF Activate, PhaseInv, BuildsOnly, Quiet, IInv
<1>6. \A m \in Concerned : target.toplevel \in closures[m]
  <2> SUFFICES ASSUME NEW m \in Concerned PROVE target.toplevel \in closures[m]
    OBVIOUS
  <2>1. m \in Machine /\ m \in selected /\ m \in active
    BY DEF Concerned, active
  <2>2. status[m] \in {"value", "nothing"}
    BY <1>1, <2>1
    DEF IInv, CallInv, Types, TypeOK, Pool!TypeOK, Pool!Statuses, Pool!Outcomes
  <2> QED BY <1>1, <2>1, <2>2 DEF IInv, CopyInv
<1>7. CopiesFirst'
  BY <1>3, <1>6 DEF CopiesFirst, Concerned
<1>8. NothingMissing'
  BY DEF Activate, machineVars, IInv, NothingMissing
<1> QED BY <1>4, <1>5, <1>7, <1>8 DEF IInv

LEMMA PoolReturnsInv == ASSUME Types, Types', IInv, PoolReturns PROVE IInv'
<1>1. /\ verdict = "open" /\ verdict' \in {"returned", "raised"}
      /\ UNCHANGED <<status, pc, command, flags, selected, target, phase, result, obsolete,
                     closures, profile, boots, running, keys, rescue, curPath, curToplevel>>
  BY DEF PoolReturns, Pool!Return, commandVars, deploymentVars, machineVars, recordVars
<1>2. verdict' = "returned" =>
        \A m \in Machine : status[m] \notin {"queued", "running", "error"}
  BY DEF PoolReturns, Pool!Return, Pool!Submitted, Pool!Ended, Pool!Failed, Pool!Outcomes
<1>3. PhaseInv'
  BY <1>1 DEF IInv, PhaseInv, Quiet, BuildsOnly
<1>4. CallInv'
  BY <1>1, <1>2 DEF IInv, CallInv, active
<1>5. PlaceInv' /\ OptionInv'
  BY <1>1 DEF IInv, PlaceInv, OptionInv, Reboots
<1>6. CopyInv' /\ CopiesFirst' /\ NothingMissing'
  BY <1>1 DEF IInv, CopyInv, CopiesFirst, Concerned, active, NothingMissing
<1>7. ReachedInv'
  BY <1>1 DEF IInv, ReachedInv, Delivered
<1> QED BY <1>3, <1>4, <1>5, <1>6, <1>7 DEF IInv

LEMMA CleanupInv == ASSUME Types, Types', IInv, Cleanup PROVE IInv'
<1>1. /\ phase = "activate" /\ phase' = "cleanup" /\ verdict = "returned" /\ AllActivated
      /\ UNCHANGED <<status, verdict, pc, command, flags, selected, target, result, obsolete,
                     closures, profile, boots, running, keys, rescue, curPath, curToplevel>>
  BY DEF Cleanup, commandVars, deploymentVars, machineVars, recordVars, poolVars
<1>2. AtRest
  BY <1>1, RestBefore DEF IInv, CallInv
<1>3. PhaseInv'
  BY <1>1 DEF IInv, PhaseInv, Quiet, BuildsOnly, AllActivated, failed
<1>4. CallInv'
  BY <1>1 DEF IInv, CallInv, active
<1>5. PlaceInv' /\ OptionInv'
  BY <1>1, <1>2 DEF IInv, PlaceInv, OptionInv, AtRest, Copying, Activating
<1>6. CopyInv' /\ CopiesFirst' /\ NothingMissing'
  BY <1>1 DEF IInv, CopyInv, CopiesFirst, Concerned, active, NothingMissing
<1>7. ReachedInv'
  BY <1>1 DEF IInv, ReachedInv, Delivered
<1> QED BY <1>3, <1>4, <1>5, <1>6, <1>7 DEF IInv
-----------------------------------------------------------------------------
(* The steps of a worker.                                                  *)

\* A worker's step changes nothing of the command and of other machines.
Alone(m) ==
  /\ UNCHANGED <<command, flags, selected, phase, target, result, obsolete, verdict>>
  /\ \A n \in Machine \ {m} :
       UNCHANGED <<pc[n], status[n], closures[n], profile[n], boots[n], running[n], keys[n],
                   rescue[n], curPath[n], curToplevel[n]>>
  /\ \A n \in Machine : closures[n] \subseteq closures'[n]

LEMMA Alone1 == ASSUME Types, NEW m \in Machine, WorkerStep(m) PROVE Alone(m)
<1> USE DEF Alone, Unmoved, GoTo, commandVars, deploymentVars
<1> /\ DOMAIN pc = Machine /\ DOMAIN status = Machine
    /\ MachineOK
  BY TypeParts DEF Types, WorkerOK, Pool!TypeOK
<1>1. CASE Take(m)
  BY <1>1 DEF Take, Pool!Begin, machineVars, recordVars
<1>2. CASE Copy(m)
  BY <1>2 DEF Copy, recordVars, poolVars, MachineOK
<1>3. CASE SetProfile(m)
  BY <1>3 DEF SetProfile, recordVars, poolVars, MachineOK
<1>4. CASE SendKeys(m)
  BY <1>4 DEF SendKeys, recordVars, poolVars, MachineOK
<1>5. CASE Switch(m)
  BY <1>5 DEF Switch, Switched, recordVars, poolVars, MachineOK
<1>6. CASE Reboot(m)
  BY <1>6 DEF Reboot, recordVars, poolVars, MachineOK
<1>7. CASE Record(m) \/ RecordToplevel(m)
  BY <1>7 DEF Record, RecordToplevel, machineVars, poolVars, MachineOK
<1>8. CASE End(m)
  BY <1>8 DEF End, Pool!End, machineVars, recordVars
<1> QED BY <1>1, <1>2, <1>3, <1>4, <1>5, <1>6, <1>7, <1>8 DEF WorkerStep

\* Where a worker's step takes it.
Begun(m) ==
  /\ status[m] = "queued" /\ status'[m] = "running"
  /\ \/ pc'[m] = "ending" /\ m \notin selected
     \/ pc'[m] = "copying" /\ m \in selected /\ phase = "copy"
     \/ pc'[m] = "keys" /\ m \in selected /\ phase # "copy"
     \/ pc'[m] = "profile" /\ m \in selected /\ phase # "copy" /\ "test" \notin flags

CopyMoved(m) == pc[m] = "copying" /\ pc'[m] \in {"ending", "raising"}

ActivationMoved(m) ==
  /\ pc[m] \in Activating /\ pc'[m] \in (Activating \cup {"ending"}) \ {"profile"}
  /\ pc'[m] = "rebooting" => Reboots(m)

Ceased(m) ==
  /\ pc'[m] = "idle"
  /\ \/ pc[m] = "ending" /\ status'[m] = "nothing"
     \/ pc[m] = "failing" /\ status'[m] = "value"
     \/ pc[m] = "raising" /\ status'[m] = "error"

Moved(m) ==
  \/ Begun(m)
  \/ status'[m] = status[m] /\ (CopyMoved(m) \/ ActivationMoved(m))
  \/ Ceased(m)

LEMMA Moved1 == ASSUME Types, NEW m \in Machine, WorkerStep(m) PROVE Moved(m)
<1> USE DEF GoTo, poolVars
<1> /\ DOMAIN pc = Machine /\ DOMAIN status = Machine
  BY TypeParts DEF Types, WorkerOK, Pool!TypeOK
<1>1. CASE Take(m)
  <2>1. status'[m] = "running" /\ status[m] = "queued"
    BY <1>1 DEF Take, Pool!Begin
  <2>2. pc'[m] = IF ~ Wanted(m) THEN "ending" ELSE IF phase = "copy" THEN "copying"
                 ELSE IF "test" \in flags THEN "keys" ELSE "profile"
    BY <1>1 DEF Take
  <2> QED BY <2>1, <2>2 DEF Moved, Begun, Wanted
<1>2. CASE Copy(m)
  BY <1>2 DEF Copy, Moved, CopyMoved
<1>3. CASE SetProfile(m) \/ SendKeys(m) \/ Reboot(m) \/ Record(m) \/ RecordToplevel(m)
  BY <1>3 DEF SetProfile, SendKeys, Reboot, AfterReboot, Record, RecordToplevel, At, Moved,
              ActivationMoved, Activating
<1>4. CASE Switch(m)
  <2>1. PICK code \in {0, 1, 100} : pc'[m] = After(m, code)
    BY <1>4 DEF Switch
  <2>2. /\ pc'[m] \in {"ending", "failing", "rebooting", "record"}
        /\ pc'[m] = "rebooting" => Reboots(m)
    BY <2>1 DEF After
  <2> QED BY <1>4, <2>2 DEF Switch, At, Moved, ActivationMoved, Activating
<1>5. CASE End(m)
  BY <1>5 DEF End, Pool!End, OutcomeOf, Moved, Ceased
<1> QED BY <1>1, <1>2, <1>3, <1>4, <1>5 DEF WorkerStep

\* Whose step it is has a task, and the phase is one with tasks.
LEMMA AtWork ==
  ASSUME Types, IInv, NEW m \in Machine, Moved(m)
  PROVE  /\ status[m] \in {"queued", "running"} /\ m \in active
         /\ phase \in {"copy", "activate"} /\ ~ BuildsOnly /\ verdict # "returned"
<1>1. status[m] \in {"queued", "running"}
  BY DEF Moved, Begun, CopyMoved, ActivationMoved, Ceased, Activating, IInv, PlaceInv
<1>2. m \in active /\ verdict # "returned" /\ ~ Quiet
  BY <1>1 DEF IInv, CallInv, Quiet
<1> QED BY <1>1, <1>2 DEF IInv, PhaseInv, Types, TypeOK

LEMMA ControlInv ==
  ASSUME Types, IInv, NEW m \in Machine, Alone(m), Moved(m)
  PROVE  PhaseInv' /\ PlaceInv' /\ CallInv' /\ OptionInv'
<1>1. /\ UNCHANGED <<command, flags, selected, phase, result, active, verdict>>
      /\ \A n \in Machine \ {m} : UNCHANGED <<pc[n], status[n]>>
  BY DEF Alone, active
<1>2. PhaseInv'
  BY <1>1, AtWork DEF PhaseInv, IInv, BuildsOnly
<1>3. PlaceInv'
  <2> SUFFICES ASSUME NEW n \in Machine
               PROVE  /\ pc'[n] = "idle" <=> status'[n] # "running"
                      /\ pc'[n] \in Copying => phase = "copy"
                      /\ pc'[n] \in Activating => phase = "activate"
                      /\ pc'[n] = "ending" => phase \in {"copy", "activate"}
                      /\ pc'[n] \in Copying \cup Activating => n \in selected
    BY <1>1 DEF PlaceInv
  <2>1. CASE n # m
    BY <1>1, <2>1 DEF IInv, PlaceInv
  <2>2. CASE n = m
    BY <2>2, AtWork
    DEF IInv, PlaceInv, Moved, Begun, CopyMoved, ActivationMoved, Ceased, Copying, Activating
  <2> QED BY <2>1, <2>2
<1>4. CallInv'
  <2> SUFFICES ASSUME NEW n \in Machine
               PROVE  /\ status'[n] # "idle" => n \in active
                      /\ n \in active /\ verdict # "none" => status'[n] # "idle"
                      /\ verdict = "returned" => status'[n] \notin {"queued", "running", "error"}
                      /\ status'[n] = "error" => phase = "copy"
    BY <1>1 DEF CallInv
  <2>1. CASE n # m
    BY <1>1, <2>1 DEF IInv, CallInv
  <2>2. CASE n = m
    BY <2>2, AtWork
    DEF IInv, CallInv, PlaceInv, Moved, Begun, Ceased, Copying
  <2> QED BY <2>1, <2>2
<1>5. OptionInv'
  BY <1>1 DEF IInv, OptionInv, Reboots, Moved, Begun, CopyMoved, ActivationMoved, Ceased
<1> QED BY <1>2, <1>3, <1>4, <1>5

LEMMA CopiedInv ==
  ASSUME Types, IInv, NEW m \in Machine, WorkerStep(m), Alone(m), Moved(m)
  PROVE  CopyInv' /\ CopiesFirst'
<1>1. /\ UNCHANGED <<selected, phase, target, active>>
      /\ \A n \in Machine \ {m} : UNCHANGED <<pc[n], status[n]>>
      /\ \A n \in Machine : closures[n] \subseteq closures'[n]
  BY DEF Alone, active
<1>2. CopiesFirst'
  BY <1>1 DEF IInv, CopiesFirst, Concerned, active
<1>3. CopyInv'
  <2> SUFFICES ASSUME phase = "copy", NEW n \in selected,
                      pc'[n] = "ending" \/ status'[n] \in {"nothing", "value"}
               PROVE  target.toplevel \in closures'[n]
    BY <1>1 DEF CopyInv
  <2>1. n \in Machine
    BY DEF Types, TypeOK
  <2>2. CASE n # m
    BY <1>1, <2>1, <2>2 DEF IInv, CopyInv
  <2>3. CASE n = m /\ pc[m] = "ending"
    BY <1>1, <2>3 DEF IInv, CopyInv
  <2>4. CASE n = m /\ pc[m] = "copying" /\ pc'[m] = "ending"
    <3>1. Copy(m)
      BY <2>4 DEF WorkerStep, Take, Pool!Begin, GoTo, Copy, SetProfile, SendKeys, Switch, Reboot,
                  Record, RecordToplevel, End, At, IInv, PlaceInv
    <3> QED BY <2>4, <3>1 DEF Copy, GoTo, Types, TypeOK
  <2>5. n = m => (pc[m] = "ending" \/ (pc[m] = "copying" /\ pc'[m] = "ending"))
    BY AtWork DEF Moved, Begun, CopyMoved, ActivationMoved, Ceased, IInv, PlaceInv, Activating
  <2> QED BY <2>2, <2>3, <2>4, <2>5
<1> QED BY <1>2, <1>3

LEMMA PresentInv ==
  ASSUME Types, IInv, NEW m \in Machine, WorkerStep(m), Alone(m)
  PROVE  NothingMissing'
<1>1. /\ \A n \in Machine \ {m} : UNCHANGED <<profile[n], boots[n], running[n]>>
      /\ \A n \in Machine : closures[n] \subseteq closures'[n]
  BY DEF Alone
<1>2. \/ {profile'[m], boots'[m], running'[m]} \subseteq {profile[m], boots[m], running[m]}
      \/ /\ pc[m] \in Activating
         /\ {profile'[m], boots'[m], running'[m]}
               \subseteq {profile[m], boots[m], running[m], target.toplevel}
  <2> USE DEF Types, TypeOK, Activating
  <2>1. CASE Take(m) \/ End(m) \/ Record(m) \/ RecordToplevel(m) \/ Copy(m) \/ SendKeys(m)
    BY <2>1 DEF Take, End, Record, RecordToplevel, Copy, SendKeys, machineVars
  <2>2. CASE SetProfile(m)
    BY <2>2 DEF SetProfile, At
  <2>3. CASE Switch(m)
    BY <2>3 DEF Switch, Switched, At
  <2>4. CASE Reboot(m)
    BY <2>4 DEF Reboot
  <2> QED BY <2>1, <2>2, <2>3, <2>4 DEF WorkerStep
<1>3. pc[m] \in Activating => target.toplevel \in closures[m]
  <2> SUFFICES ASSUME pc[m] \in Activating PROVE target.toplevel \in closures[m]
    OBVIOUS
  <2>1. m \in selected /\ phase = "activate" /\ status[m] = "running"
    BY DEF IInv, PlaceInv, Activating
  <2>2. m \in active
    BY <2>1 DEF IInv, CallInv
  <2> QED BY <2>1, <2>2 DEF IInv, CopiesFirst, Concerned
<1> QED BY <1>1, <1>2, <1>3 DEF IInv, NothingMissing

\* Without an option that stops short of it.
Full == flags \cap Partial = {}

LEMMA ReachedStep ==
  ASSUME Types, IInv, NEW m \in Machine, WorkerStep(m), Alone(m), Moved(m)
  PROVE  ReachedInv'
<1>1. /\ UNCHANGED <<flags, selected, phase, target>>
      /\ \A n \in Machine \ {m} :
           UNCHANGED <<pc[n], status[n], profile[n], boots[n], running[n], keys[n], rescue[n],
                       curPath[n], curToplevel[n]>>
  BY DEF Alone
<1> DEFINE Reached(n) ==
      /\ pc[n] \in {"keys", "switch", "rebooting", "rekeys", "record", "recordToplevel"} =>
           profile[n] = target.toplevel
      /\ pc[n] = "switch" => keys[n] \/ rescue[n]
      /\ pc[n] \in {"rebooting", "rekeys", "record", "recordToplevel"} =>
           boots[n] = target.toplevel
      /\ pc[n] \in {"rekeys", "record", "recordToplevel"} =>
           running[n] = target.toplevel /\ ~ rescue[n]
      /\ pc[n] \in {"record", "recordToplevel"} => keys[n]
      /\ pc[n] = "recordToplevel" => curPath[n] = target
      /\ pc[n] = "ending" \/ status[n] = "nothing" =>
           Delivered(n) /\ keys[n] /\ ~ rescue[n]
<1>2. ReachedInv <=> (phase \in {"activate", "cleanup"} /\ Full => \A n \in selected : Reached(n))
  BY DEF ReachedInv, Full
<1>3. ReachedInv' <=>
        (phase' \in {"activate", "cleanup"} /\ Full' => \A n \in selected' : Reached(n)')
  BY DEF ReachedInv, Full
<1> SUFFICES ASSUME phase = "activate", Full, NEW n \in selected PROVE Reached(n)'
  BY <1>1, <1>3, AtWork DEF Full
<1>4. n \in Machine /\ Reached(n)
  BY <1>2 DEF IInv, Types, TypeOK
<1>5. CASE n # m
  <2>1. UNCHANGED <<pc[n], status[n], profile[n], boots[n], running[n], keys[n], rescue[n],
                    curPath[n], curToplevel[n], target>>
    BY <1>1, <1>4, <1>5
  <2> QED BY <1>4, <2>1 DEF Delivered
<1>6. CASE n = m
  <2> /\ MachineOK /\ DOMAIN pc = Machine /\ DOMAIN status = Machine
    BY TypeParts DEF Types, WorkerOK, Pool!TypeOK
  <2>0. m \in Machine /\ m \in selected /\ Reached(m) /\ target' = target
    BY <1>1, <1>4, <1>6
  <2>f. /\ "dry-activate" \notin flags /\ "test" \notin flags /\ "boot" \notin flags
    BY DEF Full, Partial
  <2>1. CASE Take(m)
    <3>1. pc'[m] = "profile" /\ status'[m] = "running"
      BY <2>1, <2>0, <2>f DEF Take, GoTo, Wanted, Pool!Begin
    <3> QED BY <1>6, <3>1
  <2>2. CASE Copy(m)
    BY <2>2 DEF Copy, IInv, PlaceInv, Copying
  <2>3. CASE SetProfile(m)
    BY <1>6, <2>0, <2>3 DEF SetProfile, GoTo, At, MachineOK, poolVars, IInv, PlaceInv
  <2>4. CASE SendKeys(m)
    BY <1>6, <2>0, <2>4 DEF SendKeys, GoTo, At, MachineOK, poolVars, IInv, PlaceInv
  <2>5. CASE Switch(m)
    <3>1. PICK code \in {0, 1, 100}, how \in {"none", "boot", "test", "switch"} :
            /\ code = 0 => how = (IF Method(m) = "dry-activate" THEN "none" ELSE Method(m))
            /\ code = 100 => \/ Method(m) = "switch" /\ how = "boot"
                             \/ Method(m) = "test" /\ how = "none"
            /\ Switched(m, how) /\ GoTo(m, After(m, code))
      BY <2>5 DEF Switch
    <3>2. /\ pc[m] = "switch" /\ status'[m] = "running"
          /\ UNCHANGED <<profile, keys, rescue>>
      BY <2>5 DEF Switch, At, poolVars, IInv, PlaceInv
    <3>3. /\ Method(m) \in {"boot", "switch"}
          /\ Method(m) = "boot" <=> ("force-reboot" \in flags \/ rescue[m])
      BY <2>f DEF Method
    <3>4. /\ pc'[m] \in {"failing", "rebooting", "record"}
          /\ pc'[m] \in {"rebooting", "record"} => code \in {0, 100}
          /\ pc'[m] = "record" => code = 0 /\ "force-reboot" \notin flags /\ ~ rescue[m]
      BY <2>f, <3>1 DEF GoTo, After
    <3>5. pc'[m] \in {"rebooting", "record"} => boots'[m] = target.toplevel
      BY <3>1, <3>3, <3>4 DEF Switched, MachineOK
    <3>6. pc'[m] = "record" => running'[m] = target.toplevel
      BY <3>1, <3>3, <3>4 DEF Switched, MachineOK
    <3> QED BY <1>6, <2>0, <3>2, <3>4, <3>5, <3>6
  <2>6. CASE Reboot(m)
    BY <1>6, <2>0, <2>6 DEF Reboot, AfterReboot, GoTo, At, MachineOK, poolVars, IInv, PlaceInv
  <2>7. CASE Record(m)
    BY <1>6, <2>0, <2>7
    DEF Record, GoTo, At, MachineOK, machineVars, poolVars, IInv, PlaceInv
  <2>8. CASE RecordToplevel(m)
    BY <1>6, <2>0, <2>8
    DEF RecordToplevel, GoTo, At, MachineOK, machineVars, poolVars, IInv, PlaceInv, Delivered
  <2>9. CASE End(m)
    BY <1>6, <2>0, <2>9
    DEF End, Pool!End, OutcomeOf, GoTo, MachineOK, machineVars, recordVars, Delivered
  <2> QED BY <2>1, <2>2, <2>3, <2>4, <2>5, <2>6, <2>7, <2>8, <2>9 DEF WorkerStep
<1> QED BY <1>5, <1>6

LEMMA WorkerInv == ASSUME Types, IInv, NEW m \in Machine, WorkerStep(m) PROVE IInv'
BY Alone1, Moved1, ControlInv, CopiedInv, PresentInv, ReachedStep DEF IInv

LEMMA StepInv == Types /\ Types' /\ IInv /\ [Next]_vars => IInv'
<1> SUFFICES ASSUME Types, Types', IInv, [Next]_vars PROVE IInv'
  OBVIOUS
<1>1. CASE Next
  <2>1. CASE \E v \in 1 .. MaxConfig, S \in Selections, F \in FlagSets : StartDeploy(v, S, F)
    BY <2>1, StartDeployInv
  <2>2. CASE \E g \in generations, S \in Selections, F \in FlagSets : StartRollback(g, S, F)
    BY <2>2, StartRollbackInv
  <2>3. CASE CommandStep \/ Die
    BY <2>3, BuildInv, ActivateInv, PoolReturnsInv, CleanupInv, GoneInv
    DEF CommandStep, Finish, Fail, Die
  <2>4. CASE \E m \in Machine : WorkerStep(m)
    BY <2>4, WorkerInv
  <2> QED BY <1>1, <2>1, <2>2, <2>3, <2>4 DEF Next
<1>2. CASE UNCHANGED vars
  BY <1>2 DEF vars, IInv, PhaseInv, Quiet, BuildsOnly, AllActivated, failed, PlaceInv, CallInv,
              active, CopyInv, CopiesFirst, Concerned, NothingMissing, ReachedInv, Delivered,
              OptionInv, Reboots
<1> QED BY <1>1, <1>2

LEMMA Invariant == Spec => [](Types /\ IInv)
BY InitTypes, InitInv, StepTypes, StepInv, PTL DEF Spec
-----------------------------------------------------------------------------
(* The theorems.                                                           *)

\* A machine that a finished activation concerns and did not report.
LEMMA Unreported ==
  ASSUME Types, IInv, phase \in {"activate", "cleanup"}, verdict = "returned", Full,
         NEW m \in Concerned \ failed
  PROVE  Delivered(m) /\ keys[m] /\ ~ rescue[m]
<1>1. m \in Machine /\ m \in selected /\ m \in active /\ status[m] # "value"
  BY DEF Concerned, active, failed
<1>2. status[m] = "nothing"
  BY <1>1 DEF IInv, CallInv, Types, TypeOK, Pool!TypeOK, Pool!Statuses, Pool!Outcomes
<1> QED BY <1>1, <1>2 DEF IInv, ReachedInv, Full

(* No machine is touched by an activation before every machine concerned has
   the closure: activate_configs is reached only through copy_closures. *)
THEOREM CopiedBeforeActivated == Spec => []CopiesFirst
<1>1. IInv => CopiesFirst
  BY DEF IInv
<1> QED BY <1>1, Invariant, PTL

(* No machine's profile, boot loader or running system is a configuration that
   was not copied to it, whatever commands were cut short before. *)
THEOREM OnlyCopied == Spec => []NothingMissing
<1>1. IInv => NothingMissing
  BY DEF IInv
<1> QED BY <1>1, Invariant, PTL

(* When activate_configs comes back from a full activation, a machine it does
   not report as failed is on the new configuration and has its keys. *)
THEOREM TrueReport == Spec => []ReportIsTrue
<1>1. Types /\ IInv => ReportIsTrue
  BY Unreported DEF ReportIsTrue, Full
<1> QED BY <1>1, Invariant, PTL

(* A full deploy or rollback that exits successfully has brought every machine
   it concerns to the new configuration, out of its rescue system. *)
THEOREM SuccessDelivers == Spec => SuccessMeansAll
<1> DEFINE Good == command # "none" /\ result' = "succeeded" /\ flags \cap Partial = {} =>
                     \A m \in Concerned : Delivered(m) /\ ~ rescue[m]
<1>1. Types /\ IInv /\ [Next]_vars => [Good]_vars
  <2> SUFFICES ASSUME Types, IInv, Next, command # "none", result' = "succeeded", Full,
                      NEW m \in Concerned
               PROVE  Delivered(m) /\ ~ rescue[m]
    BY DEF Full
  <2>1. result = "none"
    BY DEF IInv, PhaseInv
  <2>2. \A n \in Machine : ~ WorkerStep(n)
    BY <2>1, Alone1 DEF Alone
  <2>3. Finish
    BY <2>1, <2>2 DEF Next, StartDeploy, StartRollback, CommandStep, Build, Activate,
                      PoolReturns, Cleanup, Fail, Die
  <2>4. phase \in {"activate", "cleanup"} /\ verdict = "returned" /\ failed = {}
    BY <2>3 DEF Finish, BuildsOnly, Full, Partial, IInv, PhaseInv, AllActivated
  <2> QED BY <2>4, Unreported
<1> QED BY <1>1, Invariant, PTL DEF Spec, SuccessMeansAll

\* What Restraint says of one machine.
Left(m) == UNCHANGED <<profile[m], boots[m], running[m], keys[m], curPath[m], curToplevel[m]>>

RestraintAt(m) ==
  /\ m \notin selected \/ flags \cap {"dry-run", "build-only", "copy-only"} # {} => Left(m)
  /\ "test" \in flags /\ flags \cap {"boot", "force-reboot"} = {} /\ ~ rescue[m] =>
       UNCHANGED <<profile[m], boots[m]>>
  /\ "boot" \in flags /\ ~ Reboots(m) => UNCHANGED running[m]

LEMMA CommandLeaves ==
  ASSUME \/ \E v \in 1 .. MaxConfig, S \in Selections, F \in FlagSets : StartDeploy(v, S, F)
         \/ \E g \in generations, S \in Selections, F \in FlagSets : StartRollback(g, S, F)
         \/ CommandStep
         \/ Die
  PROVE  UNCHANGED <<machineVars, recordVars>>
BY DEF StartDeploy, StartRollback, CommandStep, Build, Activate, PoolReturns, Cleanup, Finish,
       Fail, Die, Gone

LEMMA WorkerLeaves ==
  ASSUME Types, IInv, NEW n \in Machine, WorkerStep(n), NEW m \in Machine
  PROVE  RestraintAt(m)
<1>1. CASE m # n
  BY <1>1, Alone1 DEF Alone, RestraintAt, Left
<1>2. CASE m = n
  <2>1. CASE Take(m) \/ Copy(m) \/ End(m)
    BY <2>1 DEF Take, Copy, End, machineVars, recordVars, RestraintAt, Left
  <2>2. CASE ~ (Take(m) \/ Copy(m) \/ End(m))
    <3>1. pc[m] \in Activating
      BY <1>2, <2>2 DEF WorkerStep, SetProfile, SendKeys, Switch, Reboot, Record, RecordToplevel,
                        At, Activating
    <3>2. m \in selected /\ flags \cap {"dry-run", "build-only", "copy-only"} = {}
      BY <3>1 DEF IInv, PlaceInv, PhaseInv, BuildsOnly
    <3>3. ASSUME "test" \in flags, flags \cap {"boot", "force-reboot"} = {}, ~ rescue[m]
          PROVE  UNCHANGED <<profile[m], boots[m]>>
      <4>1. pc[m] # "profile" /\ Method(m) \in {"dry-activate", "test"}
        BY <3>3 DEF IInv, OptionInv, Method
      <4>2. CASE Switch(m)
        <5>1. PICK code \in {0, 1, 100}, how \in {"none", "boot", "test", "switch"} :
                /\ code = 0 => how = (IF Method(m) = "dry-activate" THEN "none" ELSE Method(m))
                /\ code = 100 => \/ Method(m) = "switch" /\ how = "boot"
                                 \/ Method(m) = "test" /\ how = "none"
                /\ code = 1 => how \in {"none"} \cup ({Method(m)} \ {"dry-activate"})
                /\ Switched(m, how)
          BY <4>2 DEF Switch
        <5>2. how \in {"none", "test"}
          BY <4>1, <5>1
        <5> QED BY <4>2, <5>1, <5>2 DEF Switch, Switched
      <4> QED BY <1>2, <2>2, <4>1, <4>2
              DEF WorkerStep, SetProfile, SendKeys, Reboot, Record, RecordToplevel, At, machineVars
    <3>4. ASSUME "boot" \in flags, ~ Reboots(m)
          PROVE  UNCHANGED running[m]
      <4>1. pc[m] # "rebooting" /\ Method(m) = "boot"
        BY <3>4 DEF IInv, OptionInv, Method
      <4>2. CASE Switch(m)
        <5>1. PICK code \in {0, 1, 100}, how \in {"none", "boot", "test", "switch"} :
                /\ code = 0 => how = (IF Method(m) = "dry-activate" THEN "none" ELSE Method(m))
                /\ code = 100 => \/ Method(m) = "switch" /\ how = "boot"
                                 \/ Method(m) = "test" /\ how = "none"
                /\ code = 1 => how \in {"none"} \cup ({Method(m)} \ {"dry-activate"})
                /\ Switched(m, how)
          BY <4>2 DEF Switch
        <5>2. how \in {"none", "boot"}
          BY <4>1, <5>1
        <5> QED BY <4>2, <5>1, <5>2 DEF Switch, Switched
      <4> QED BY <1>2, <2>2, <4>1, <4>2
              DEF WorkerStep, SetProfile, SendKeys, Reboot, Record, RecordToplevel, At, machineVars
    <3> QED BY <3>2, <3>3, <3>4 DEF RestraintAt
  <2> QED BY <2>1, <2>2
<1> QED BY <1>1, <1>2

(* A command changes nothing on a machine it does not select, or with an option
   that stops before the activation; not the profile and the boot loader with
   --test alone; not what runs with --boot and no reboot allowed. *)
THEOREM Restrained == Spec => Restraint
<1> DEFINE Restrains == \A m \in Machine : RestraintAt(m)
<1>1. Types /\ IInv /\ [Next]_vars => [Restrains]_vars
  <2> SUFFICES ASSUME Types, IInv, Next, NEW m \in Machine PROVE RestraintAt(m)
    OBVIOUS
  <2>1. CASE \E n \in Machine : WorkerStep(n)
    BY <2>1, WorkerLeaves
  <2>2. CASE UNCHANGED <<machineVars, recordVars>>
    BY <2>2 DEF RestraintAt, Left, machineVars, recordVars
  <2> QED BY <2>1, <2>2, CommandLeaves DEF Next
<1>2. Restraint <=> [][Restrains]_vars
  BY PTL DEF Restraint, RestraintAt, Left
<1> QED BY <1>1, <1>2, Invariant, PTL DEF Spec
-----------------------------------------------------------------------------
(* LoggedExec: the log.                                                    *)

\* Whoever has written on the open line is the one the logger has noted.
OpenLine == last \in Call \cup {NoPrefix} /\ line \cap Call \subseteq {last}
OneWriter(l) == \A c, d \in l \cap Call : c = d

LogInv == OpenLine /\ \A l \in lines : OneWriter(l)

LEMMA OpenHasOne == OpenLine => OneWriter(line)
BY DEF OpenLine, OneWriter

LEMMA LogKept == ASSUME NEW c \in Call, LogInv, log(c) PROVE LogInv'
<1>1. OpenLine'
  BY DEF log, OpenLine
<1>2. OneWriter(line) /\ OneWriter({c}) /\ (last = NoPrefix => OneWriter(line \cup {c}))
  BY LoggedExecAssumption, OpenHasOne DEF LogInv, OpenLine, OneWriter
<1>3. ASSUME NEW l \in lines' PROVE OneWriter(l)
  <2>1. CASE l \in lines
    BY <2>1 DEF LogInv
  <2>2. CASE l \notin lines
    BY <1>2, <1>3, <2>2 DEF log
  <2> QED BY <2>1, <2>2
<1> QED BY <1>1, <1>3 DEF LogInv, OneWriter

\* What log_start and log_end leave of the lines before.
LEMMA ClosedKept ==
  ASSUME NEW c \in Call, LogInv
  PROVE  /\ \A l \in Closed(c) : OneWriter(l)
         /\ Fresh(c) \cap Call \subseteq {c}
         /\ OneWriter(Fresh(c) \cup {c})
         /\ last # c => Fresh(c) \cap Call = {}
<1>1. \A l \in Closed(c) : OneWriter(l)
  BY OpenHasOne DEF LogInv, Closed
<1>2. Fresh(c) \cap Call \subseteq {c} /\ (last # c => Fresh(c) \cap Call = {})
  BY LoggedExecAssumption DEF LogInv, OpenLine, Fresh, Continues
<1> QED BY <1>1, <1>2 DEF OneWriter

LEMMA LogStartKept == ASSUME NEW c \in Call, LogInv, log_start(c) PROVE LogInv'
BY ClosedKept DEF log_start, LogInv, OpenLine, OneWriter

LEMMA LogEndKept == ASSUME NEW c \in Call, NEW msg, LogInv, log_end(c, msg) PROVE LogInv'
<1>1. CASE ~ Continues(c) /\ msg = <<>>
  <2>1. line' = Fresh(c) /\ lines' = Closed(c) /\ last' = NoPrefix
    BY <1>1 DEF log_end
  <2>2. Fresh(c) \cap Call = {}
    BY <1>1, ClosedKept DEF Continues
  <2> QED BY <2>1, <2>2, ClosedKept DEF LogInv, OpenLine, OneWriter
<1>2. CASE ~ (~ Continues(c) /\ msg = <<>>)
  <2>1. line' = {} /\ lines' = Closed(c) \cup {Fresh(c) \cup {c}} /\ last' = NoPrefix
    BY <1>2 DEF log_end
  <2> QED BY <2>1, ClosedKept DEF LogInv, OpenLine, OneWriter
<1> QED BY <1>1, <1>2

LEMMA QuestionKept ==
  ASSUME NEW c \in Call, LogInv, Confirm(c) \/ Answer(c)
  PROVE  LogInv'
<1>1. OneWriter(line)
  BY OpenHasOne DEF LogInv
<1>2. CASE Confirm(c)
  BY <1>1, <1>2, LoggedExecAssumption DEF Confirm, LogInv, OpenLine, OneWriter
<1>3. CASE Answer(c)
  BY <1>1, <1>3 DEF Answer, LogInv, OpenLine, OneWriter
<1> QED BY <1>2, <1>3

LEMMA LogStep == LogInv /\ [ExecNext]_execVars => LogInv'
<1> SUFFICES ASSUME LogInv, [ExecNext]_execVars PROVE LogInv'
  OBVIOUS
<1>1. CASE UNCHANGED logVars
  BY <1>1 DEF logVars, LogInv, OpenLine, OneWriter
<1>2. ASSUME NEW c \in Call, CallStep(c) \/ Answer(c) \/ ChildStep(c) \/ Helper(c)
      PROVE  LogInv'
  <2>1. CASE Confirm(c) \/ Answer(c)
    BY <2>1, QuestionKept
  <2>2. CASE Read(c)
    <3>1. UNCHANGED logVars \/ log_end(c, <<>>)
      BY <2>2 DEF Read
    <3> QED BY <1>1, <3>1, LogEndKept
  <2>3. CASE Show(c)
    <3>1. \/ log_start(c) \/ log(c)
          \/ \E end \in Newline(data[c]) : log_end(c, SubSeq(data[c], 1, end - 1))
      BY <2>3 DEF Show
    <3> QED BY <3>1, LogStartKept, LogKept, LogEndKept
  <2>4. CASE Spawn(c) \/ Feed(c) \/ Select(c) \/ Poll(c) \/ Capture(c) \/ Wait(c)
             \/ ChildStep(c) \/ Helper(c)
    <3>1. UNCHANGED logVars
      BY <2>4 DEF Spawn, Feed, Select, Poll, Capture, Wait, ChildStep, Write, Do, Exit, Helper,
                  logVars
    <3> QED BY <1>1, <3>1
  <2> QED BY <1>2, <2>1, <2>2, <2>3, <2>4 DEF CallStep
<1> QED BY <1>1, <1>2 DEF ExecNext, execVars

(* No line of the log has the output of two machines, whichever calls log, ask
   and end their lines in between. *)
THEOREM NoLineMixed == ExecSpec => []Unmixed
<1>1. ExecInit => LogInv
  BY DEF ExecInit, LogInv, OpenLine
<1>2. LogInv => Unmixed
  <2>1. ASSUME NEW l, OneWriter(l) PROVE Cardinality(l \cap Call) <= 1
    <3>1. CASE l \cap Call = {}
      BY <3>1, FS_EmptySet
    <3>2. CASE l \cap Call # {}
      <4>1. PICK c \in l \cap Call : TRUE
        BY <3>2
      <4>2. l \cap Call = {c}
        BY <2>1, <4>1 DEF OneWriter
      <4> QED BY <4>2, FS_Singleton
    <3> QED BY <3>1, <3>2
  <2> QED BY <2>1, OpenHasOne DEF LogInv, Unmixed
<1> QED BY <1>1, <1>2, LogStep, PTL DEF ExecSpec
-----------------------------------------------------------------------------
(* LoggedExec: what a child writes.                                        *)

\* A child that writes has a character to write.
LEMMA Writing ==
  ASSUME ExecTypeOK, NEW c \in Call, steps[c] # <<>>
  PROVE  /\ Tail(steps[c]) \in Seq(ChildSteps)
         /\ Head(steps[c])[1] \in {"out", "err"} => Head(steps[c])[2] \in Char
<1>1. steps[c] \in Seq(ChildSteps)
  BY DEF ExecTypeOK
<1>2. Head(steps[c]) \in ChildSteps /\ Tail(steps[c]) \in Seq(ChildSteps)
  BY <1>1, HeadTailProperties
<1> QED BY <1>2 DEF ChildSteps

\* A piece of output is cut where a line ends.
LEMMA Cutting ==
  ASSUME NEW s \in Seq(Char), NEW n \in 1 .. Len(s)
  PROVE  /\ SubSeq(s, 1, n) \in Seq(Char) /\ SubSeq(s, n + 1, Len(s)) \in Seq(Char)
         /\ SubSeq(s, 1, n) \o SubSeq(s, n + 1, Len(s)) = s
<1>1. SubSeq(s, 1, n) \in Seq(Char) /\ SubSeq(s, n + 1, Len(s)) \in Seq(Char)
  BY SubSeqProperties, ElementOfSeq
<1>2. SubSeq(s, 1, n) \o SubSeq(s, n + 1, Len(s)) = SubSeq(s, 1, Len(s))
  <2>1. Len(s) \in Nat /\ 1 \in 1 .. Len(s) + 1 /\ n \in 1 - 1 .. Len(s) /\ Len(s) \in n .. Len(s)
    OBVIOUS
  <2> QED BY <2>1, ConcatAdjacentSubSeq
<1> QED BY <1>1, <1>2, SubSeqFull

LEMMA LinesEnd ==
  ASSUME NEW s \in Seq(Char), NEW end \in Newline(s)
  PROVE  end \in 1 .. Len(s)
BY DEF Newline

LEMMA ExecTypeStep == ExecTypeOK /\ [ExecNext]_execVars => ExecTypeOK'
<1> SUFFICES ASSUME ExecTypeOK, [ExecNext]_execVars PROVE ExecTypeOK'
  OBVIOUS
<1> USE DEF Places, Streams, Ended
<1>1. CASE UNCHANGED execVars
  BY <1>1 DEF ExecTypeOK, execVars, childVars, readVars, logVars
<1>2. ASSUME NEW c \in Call, CallStep(c) \/ Answer(c) \/ ChildStep(c) \/ Helper(c)
      PROVE  ExecTypeOK'
  <2> USE DEF childVars, readVars, logVars
  <2>1. ASSUME NEW to \in Places PROVE [at EXCEPT ![c] = to] \in [Call -> Places]
    BY <2>1 DEF ExecTypeOK
  <2>2. CASE Confirm(c)
    BY <2>2 DEF Confirm, Goes, ExecTypeOK
  <2>3. CASE Answer(c)
    <3>1. \E to \in Places : at' = [at EXCEPT ![c] = to]
      BY <2>3 DEF Answer
    <3>2. at' \in [Call -> Places]
      BY <2>1, <3>1
    <3> QED BY <2>3, <3>2 DEF Answer, ExecTypeOK
  <2>4. CASE Spawn(c)
    BY <2>4 DEF Spawn, Goes, ExecTypeOK
  <2>5. CASE Feed(c)
    <3>1. UNCHANGED at \/ \E to \in Places : at' = [at EXCEPT ![c] = to]
      BY <2>5 DEF Feed
    <3>2. at' \in [Call -> Places]
      BY <2>1, <3>1 DEF ExecTypeOK
    <3>3. feed' \in [Call -> Nat] /\ input' \in [Call -> Nat]
      <4>1. CASE UNCHANGED <<feed, input>>
        BY <4>1 DEF ExecTypeOK
      <4>2. CASE ~ UNCHANGED <<feed, input>>
        <5>1. /\ feed[c] > 0 /\ feed' = [feed EXCEPT ![c] = feed[c] - 1]
              /\ input' = [input EXCEPT ![c] = input[c] + 1]
          BY <2>5, <4>2, Zenon DEF Feed
        <5>2. feed[c] \in Nat /\ input[c] \in Nat
          BY DEF ExecTypeOK
        <5>3. feed[c] - 1 \in Nat /\ input[c] + 1 \in Nat
          BY <5>1, <5>2
        <5> QED BY <5>1, <5>3 DEF ExecTypeOK
      <4> QED BY <4>1, <4>2
    <3> QED BY <2>5, <3>2, <3>3 DEF Feed, ExecTypeOK
  <2>6. CASE Select(c)
    BY <2>6 DEF Select, Goes, ExecTypeOK, Readable
  <2>7. CASE Poll(c)
    <3>1. FirstOf(ready[c]) \in Places
      BY DEF FirstOf
    <3> QED BY <2>7, <3>1 DEF Poll, Goes, ExecTypeOK
  <2>8. CASE Capture(c)
    <3>1. FirstOf(ready[c] \ {"cap"}) \in Places
      BY DEF FirstOf
    <3>2. stdout[c] \in Seq(Char) /\ pipe[c].cap \in Seq(Char) /\ <<>> \in Seq(Char)
      BY EmptySeq DEF ExecTypeOK
    <3>3. stdout[c] \o pipe[c].cap \in Seq(Char)
      BY <3>2, ConcatProperties
    <3>4. [pipe[c] EXCEPT !.cap = <<>>] \in Streams
      <4>1. pipe[c] \in Streams /\ <<>> \in Seq(Char)
        BY EmptySeq DEF ExecTypeOK
      <4> QED BY <4>1
    <3>5. pipe' = [pipe EXCEPT ![c] = [pipe[c] EXCEPT !.cap = <<>>]]
      BY <2>8 DEF Capture, ExecTypeOK
    <3>6. pipe' \in [Call -> Streams]
      BY <3>4, <3>5 DEF ExecTypeOK
    <3>7. stdout' \in [Call -> Seq(Char)]
      BY <2>8, <3>3 DEF Capture, ExecTypeOK
    <3>8. at' \in [Call -> Places]
      BY <2>8, <3>1 DEF Capture, ExecTypeOK
    <3>9. fds' \in [Call -> SUBSET {"cap", "log"}]
      <4>1. \E left \in SUBSET {"cap", "log"} : fds' = [fds EXCEPT ![c] = left] \/ UNCHANGED fds
        <5>1. fds[c] \in SUBSET {"cap", "log"}
          BY DEF ExecTypeOK
        <5> QED BY <2>8, <5>1 DEF Capture
      <4> QED BY <4>1 DEF ExecTypeOK
    <3> QED BY <2>8, <3>6, <3>7, <3>8, <3>9 DEF Capture, ExecTypeOK
  <2>9. CASE Read(c)
    <3>1. [pipe[c] EXCEPT !.log = <<>>] \in Streams
      <4>1. pipe[c] \in Streams /\ <<>> \in Seq(Char)
        BY EmptySeq DEF ExecTypeOK
      <4> QED BY <4>1
    <3>2. pipe' = [pipe EXCEPT ![c] = [pipe[c] EXCEPT !.log = <<>>]]
      BY <2>9 DEF Read, ExecTypeOK
    <3>3. pipe' \in [Call -> Streams]
      BY <3>1, <3>2 DEF ExecTypeOK
    <3>4. pipe[c].log \in Seq(Char)
      BY DEF ExecTypeOK
    <3>5. data' \in [Call -> Seq(Char)]
      <4>1. UNCHANGED data \/ data' = [data EXCEPT ![c] = pipe[c].log]
        BY <2>9 DEF Read
      <4> QED BY <3>4, <4>1 DEF ExecTypeOK
    <3>6. at' \in [Call -> Places]
      <4>1. \E to \in Places : at' = [at EXCEPT ![c] = to]
        BY <2>9 DEF Read
      <4> QED BY <2>1, <4>1
    <3>7. fds' \in [Call -> SUBSET {"cap", "log"}]
      <4>1. UNCHANGED fds \/ fds' = [fds EXCEPT ![c] = fds[c] \ {"log"}]
        BY <2>9, Zenon DEF Read
      <4>2. fds[c] \ {"log"} \in SUBSET {"cap", "log"}
        BY DEF ExecTypeOK
      <4> QED BY <4>1, <4>2 DEF ExecTypeOK
    <3>8. last' \in Call \cup {NoPrefix}
      BY <2>9 DEF Read, log_end, ExecTypeOK
    <3> QED BY <2>9, <3>3, <3>5, <3>6, <3>7, <3>8 DEF Read, ExecTypeOK
  <2>10. CASE Show(c)
    <3>1. data[c] \in Seq(Char) /\ shown[c] \in Seq(Char) /\ <<>> \in Seq(Char)
      BY EmptySeq DEF ExecTypeOK
    <3>2. data' \in [Call -> Seq(Char)]
      <4>1. \/ data' = [data EXCEPT ![c] = <<>>]
            \/ \E end \in Newline(data[c]) :
                 data' = [data EXCEPT ![c] = SubSeq(data[c], end + 1, Len(data[c]))]
        BY <2>10 DEF Show
      <4>2. ASSUME NEW end \in Newline(data[c])
            PROVE  SubSeq(data[c], end + 1, Len(data[c])) \in Seq(Char)
        BY <3>1, LinesEnd, Cutting
      <4>3. \E rest \in Seq(Char) : data' = [data EXCEPT ![c] = rest]
        BY <3>1, <4>1, <4>2
      <4> QED BY <4>3 DEF ExecTypeOK
    <3>3. shown' \in [Call -> Seq(Char)]
      <4>1. CASE Newline(data[c]) = {}
        <5>1. shown[c] \o data[c] \in Seq(Char)
          BY <3>1, ConcatProperties
        <5> QED BY <2>10, <4>1, <5>1 DEF Show, ExecTypeOK
      <4>2. CASE Newline(data[c]) # {}
        <5>1. PICK end \in Newline(data[c]) :
                shown' = [shown EXCEPT ![c] = @ \o SubSeq(data[c], 1, end)]
          BY <2>10, <4>2 DEF Show
        <5>2. SubSeq(data[c], 1, end) \in Seq(Char)
          BY <3>1, LinesEnd, Cutting
        <5>3. shown[c] \o SubSeq(data[c], 1, end) \in Seq(Char)
          BY <3>1, <5>2, ConcatProperties
        <5> QED BY <5>1, <5>3 DEF ExecTypeOK
      <4> QED BY <4>1, <4>2
    <3>4. at' \in [Call -> Places]
      BY <2>10 DEF Show, ExecTypeOK
    <3>5. at_new_line' \in [Call -> BOOLEAN]
      BY <2>10 DEF Show, ExecTypeOK
    <3>6. last' \in Call \cup {NoPrefix}
      BY <2>10 DEF Show, log, log_start, log_end, ExecTypeOK
    <3> QED BY <2>10, <3>2, <3>3, <3>4, <3>5, <3>6 DEF Show, ExecTypeOK
  <2>11. CASE Wait(c)
    BY <2>11 DEF Wait, Goes, ExecTypeOK
  <2>12. CASE Write(c)
    <3>1. Tail(steps[c]) \in Seq(ChildSteps) /\ Head(steps[c])[2] \in Char
      BY <2>12, Writing DEF Write
    <3>2. steps' \in [Call -> Seq(ChildSteps)]
      BY <2>12, <3>1 DEF Write, ExecTypeOK
    <3>3. CASE UNCHANGED <<pipe, wrote, late>>
      BY <2>12, <3>2, <3>3 DEF Write, ExecTypeOK
    <3>4. CASE ~ UNCHANGED <<pipe, wrote, late>>
      <4>1. PICK to \in {"cap", "log"} :
              /\ pipe' = [pipe EXCEPT ![c][to] = Append(@, Head(steps[c])[2])]
              /\ wrote' = [wrote EXCEPT ![c][to] = Append(@, Head(steps[c])[2])]
              /\ late' = [late EXCEPT ![c] = @ \/ (at[c] = "poll" /\ ready[c] = {})]
        BY <2>12, <3>4, Zenon DEF Write, Target
      <4>2. /\ Append(pipe[c][to], Head(steps[c])[2]) \in Seq(Char)
            /\ Append(wrote[c][to], Head(steps[c])[2]) \in Seq(Char)
        <5>1. pipe[c][to] \in Seq(Char) /\ wrote[c][to] \in Seq(Char)
          BY DEF ExecTypeOK
        <5> QED BY <3>1, <5>1, AppendProperties
      <4>3. pipe' \in [Call -> Streams] /\ wrote' \in [Call -> Streams]
        BY <4>1, <4>2 DEF ExecTypeOK
      <4>4. late' \in [Call -> BOOLEAN]
        BY <4>1 DEF ExecTypeOK
      <4> QED BY <2>12, <3>2, <4>3, <4>4 DEF Write, ExecTypeOK
    <3> QED BY <3>3, <3>4
  <2>13. CASE Do(c)
    <3>1. steps' = [steps EXCEPT ![c] = Tail(steps[c])] /\ steps[c] # <<>>
      BY <2>13 DEF Do
    <3>2. steps' \in [Call -> Seq(ChildSteps)]
      BY <3>1, Writing DEF ExecTypeOK
    <3>3. input' \in [Call -> Nat]
      <4>1. UNCHANGED input \/ (input[c] > 0 /\ input' = [input EXCEPT ![c] = input[c] - 1])
        BY <2>13, Zenon DEF Do
      <4>2. input[c] \in Nat
        BY DEF ExecTypeOK
      <4>3. input[c] > 0 => input[c] - 1 \in Nat
        BY <4>2
      <4> QED BY <4>1, <4>3 DEF ExecTypeOK
    <3> QED BY <2>13, <3>2, <3>3 DEF Do, ExecTypeOK
  <2>14. CASE Exit(c)
    BY <2>14 DEF Exit, ExecTypeOK
  <2>15. CASE Helper(c)
    <3>1. CASE UNCHANGED <<pipe, wrote>>
      BY <2>15, <3>1 DEF Helper, ExecTypeOK
    <3>2. CASE ~ UNCHANGED <<pipe, wrote>>
      <4>1. /\ pipe' = [pipe EXCEPT ![c].log = Append(@, "helper")]
            /\ wrote' = [wrote EXCEPT ![c].log = Append(@, "helper")]
        BY <2>15, <3>2 DEF Helper
      <4>2. /\ Append(pipe[c].log, "helper") \in Seq(Char)
            /\ Append(wrote[c].log, "helper") \in Seq(Char)
        <5>1. pipe[c].log \in Seq(Char) /\ wrote[c].log \in Seq(Char)
          BY DEF ExecTypeOK
        <5> QED BY <5>1, LoggedExecAssumption, AppendProperties
      <4>3. pipe' \in [Call -> Streams] /\ wrote' \in [Call -> Streams]
        BY <4>1, <4>2 DEF ExecTypeOK
      <4> QED BY <2>15, <4>3 DEF Helper, ExecTypeOK
    <3> QED BY <3>1, <3>2
  <2> QED BY <1>2, <2>2, <2>3, <2>4, <2>5, <2>6, <2>7, <2>8, <2>9, <2>10, <2>11, <2>12, <2>13,
             <2>14, <2>15 DEF CallStep, ChildStep
<1> QED BY <1>1, <1>2 DEF ExecNext

LEMMA ExecTypeInit == ExecInit => ExecTypeOK
<1> SUFFICES ASSUME ExecInit PROVE ExecTypeOK
  OBVIOUS
<1>1. kind \in [Call -> Kinds]
  BY LoggedExecAssumption DEF ExecInit
<1>2. <<>> \in Seq(Char)
  BY EmptySeq
<1> QED BY <1>1, <1>2 DEF ExecInit, ExecTypeOK, Kinds, Places, Streams, Ended
(* Every variable of the calls keeps its type. *)
THEOREM ExecTypeCorrect == ExecSpec => []ExecTypeOK
BY ExecTypeInit, ExecTypeStep, PTL DEF ExecSpec
-----------------------------------------------------------------------------
(* LoggedExec: nothing a child has written is lost on the way.             *)

OnlyHelper(s) == \A i \in DOMAIN s : s[i] = "helper"
NothingLeft(c) == pipe[c].cap = <<>> /\ OnlyHelper(pipe[c].log)

\* What has gone into a pipe is there, on its way, or where it is to go.
Flow(c) ==
  at[c] # "raised" =>
    /\ stdout[c] \o pipe[c].cap = wrote[c].cap
    /\ (shown[c] \o data[c]) \o pipe[c].log = wrote[c].log

\* A pipe that is no longer read is at its end, for good.
NotBegun == {"confirm", "answer", "spawn"}
AtEnd(c) == ~ Open(c) /\ at[c] \notin NotBegun
Drained(c) ==
  /\ "log" \notin fds[c] => pipe[c].log = <<>> /\ AtEnd(c)
  /\ "cap" \notin fds[c] => pipe[c].cap = <<>> /\ (kind[c].capture => AtEnd(c))

\* What select has returned stays readable until it is read.
StaysReadable(c, f) == pipe[c][f] # <<>> \/ ~ Open(c)
Due(c) ==
  /\ at[c] \in {"poll", "cap"} => \A f \in ready[c] : StaysReadable(c, f)
  /\ at[c] = "cap" => "cap" \in ready[c]
  /\ at[c] = "log" => StaysReadable(c, "log")

\* Where the loop is left, only what comes late or from others is in the pipes.
Passed(c) ==
  /\ at[c] = "poll" /\ ready[c] = {} /\ ~ late[c] => NothingLeft(c)
  /\ at[c] = "wait" => child[c] # "running"
  /\ at[c] \in {"wait", "done"} /\ ~ late[c] => NothingLeft(c)

OutputInv(c) ==
  /\ Flow(c) /\ Drained(c) /\ Due(c) /\ Passed(c)
  /\ at[c] # "show" => data[c] = <<>>

\* All of a call that this is about.
SameOutput(c) ==
  /\ at'[c] = at[c] /\ child'[c] = child[c] /\ helper'[c] = helper[c]
  /\ pipe'[c] = pipe[c] /\ fds'[c] = fds[c] /\ ready'[c] = ready[c]
  /\ stdout'[c] = stdout[c] /\ data'[c] = data[c] /\ shown'[c] = shown[c]
  /\ wrote'[c] = wrote[c] /\ late'[c] = late[c] /\ kind'[c] = kind[c]

LEMMA SameOutputKept ==
  ASSUME NEW c \in Call, OutputInv(c), SameOutput(c)
  PROVE  OutputInv(c)'
BY DEF OutputInv, SameOutput, Flow, Drained, AtEnd, Due, StaysReadable, Passed, NothingLeft,
       OnlyHelper, Open

\* One call's steps are not another's.
LEMMA OthersSame ==
  ASSUME ExecTypeOK, NEW c \in Call, NEW d \in Call \ {c},
         CallStep(d) \/ Answer(d) \/ ChildStep(d) \/ Helper(d)
  PROVE  SameOutput(c)
<1> USE DEF SameOutput, ExecTypeOK, childVars, readVars, Goes
<1>1. CASE Confirm(d) \/ Answer(d) \/ Spawn(d) \/ Feed(d) \/ Select(d) \/ Poll(d) \/ Wait(d)
  BY <1>1 DEF Confirm, Answer, Spawn, Feed, Select, Poll, Wait
<1>2. CASE Capture(d)
  BY <1>2 DEF Capture
<1>3. CASE Read(d)
  BY <1>3 DEF Read
<1>4. CASE Show(d)
  BY <1>4 DEF Show
<1>5. CASE Write(d)
  BY <1>5 DEF Write
<1>6. CASE Do(d) \/ Exit(d)
  BY <1>6 DEF Do, Exit
<1>7. CASE Helper(d)
  BY <1>7 DEF Helper
<1> QED BY <1>1, <1>2, <1>3, <1>4, <1>5, <1>6, <1>7 DEF CallStep, ChildStep

\* The streams stay as they are: only where the call is changes, and its child.
SameStreams(c) ==
  /\ pipe'[c] = pipe[c] /\ stdout'[c] = stdout[c] /\ data'[c] = data[c]
  /\ shown'[c] = shown[c] /\ wrote'[c] = wrote[c] /\ fds'[c] = fds[c] /\ kind'[c] = kind[c]

LEMMA QuietSteps ==
  ASSUME ExecTypeOK, NEW c \in Call, OutputInv(c),
         \/ Confirm(c) \/ Answer(c) \/ Spawn(c) \/ Feed(c) \/ Select(c) \/ Poll(c) \/ Wait(c)
         \/ Do(c) \/ Exit(c)
  PROVE  OutputInv(c)'
<1> USE DEF ExecTypeOK, childVars, readVars
<1>1. SameStreams(c)
  BY DEF Confirm, Answer, Spawn, Feed, Select, Poll, Wait, Do, Exit, SameStreams
<1>2. at[c] # "raised" \/ at'[c] = "raised"
  BY DEF Confirm, Answer, Spawn, Feed, Select, Poll, Wait, Do, Exit, Goes
<1>3. Flow(c)'
  BY <1>1, <1>2 DEF OutputInv, Flow, SameStreams
<1>4. at'[c] # "show" => data'[c] = <<>>
  <2>1. at[c] # "show" \/ at'[c] = at[c]
    BY DEF Confirm, Answer, Spawn, Feed, Select, Poll, Wait, Do, Exit, Goes
  <2> QED BY <1>1, <2>1 DEF OutputInv, SameStreams
<1>5. AtEnd(c) => AtEnd(c)'
  <2>1. CASE Confirm(c) \/ Answer(c) \/ Spawn(c) \/ Do(c)
    BY <2>1 DEF Confirm, Answer, Spawn, Do, Goes, AtEnd, Open, NotBegun
  <2>2. CASE Feed(c) \/ Wait(c)
    BY <2>2 DEF Feed, Wait, Goes, AtEnd, Open, NotBegun
  <2>3. CASE Select(c)
    BY <2>3 DEF Select, Goes, AtEnd, Open, NotBegun
  <2>4. CASE Poll(c)
    BY <2>4 DEF Poll, FirstOf, Goes, AtEnd, Open, NotBegun
  <2>5. CASE Exit(c)
    BY <2>5 DEF Exit, AtEnd, Open
  <2> QED BY <2>1, <2>2, <2>3, <2>4, <2>5
<1>6. Drained(c)'
  BY <1>1, <1>5 DEF OutputInv, Drained, SameStreams
<1>7. Due(c)' /\ Passed(c)'
  <2>1. CASE Confirm(c) \/ Answer(c) \/ Spawn(c) \/ Feed(c)
    <3>1. at'[c] \notin {"poll", "cap", "log", "wait", "done"}
      BY <2>1 DEF Confirm, Answer, Spawn, Feed, Goes
    <3> QED BY <3>1 DEF Due, Passed
  <2>2. CASE Select(c)
    <3>1. at'[c] = (IF fds[c] = {} THEN "wait" ELSE "poll") /\ ready'[c] = Readable(c)
      BY <2>2 DEF Select, Goes
    <3>2. UNCHANGED <<child, helper, late>>
      BY <2>2 DEF Select
    <3>3. Due(c)'
      BY <1>1, <3>1, <3>2 DEF Due, StaysReadable, Readable, SameStreams, Open
    <3>4. fds[c] = {} => child[c] # "running"
      BY DEF OutputInv, Drained, AtEnd, Open
    <3>5. Readable(c) = {} => NothingLeft(c)
      <4>1. \A f \in {"cap", "log"} : Readable(c) = {} => pipe[c][f] = <<>>
        BY DEF Readable, OutputInv, Drained
      <4> QED BY <4>1 DEF NothingLeft, OnlyHelper
    <3>6. fds[c] = {} => Readable(c) = {}
      BY DEF Readable
    <3> QED BY <1>1, <3>1, <3>2, <3>3, <3>4, <3>5, <3>6 DEF Passed, NothingLeft, SameStreams
  <2>3. CASE Poll(c)
    <3>1. /\ at[c] = "poll" /\ at'[c] = (IF Breaks(c) THEN "wait" ELSE FirstOf(ready[c]))
          /\ late'[c] = (late[c] /\ Breaks(c))
      BY <2>3 DEF Poll, Goes
    <3>2. UNCHANGED <<child, helper, ready>>
      BY <2>3 DEF Poll
    <3>3. ready[c] \subseteq {"cap", "log"}
      OBVIOUS
    <3>4. Due(c)'
      BY <1>1, <3>1, <3>2, <3>3 DEF Due, StaysReadable, SameStreams, Open, FirstOf, OutputInv
    <3>5. CASE Breaks(c)
      BY <1>1, <3>1, <3>2, <3>4, <3>5 DEF Breaks, Exited, OutputInv, Passed, NothingLeft, SameStreams
    <3>6. CASE ~ Breaks(c)
      BY <3>1, <3>4, <3>6 DEF FirstOf, Passed
    <3> QED BY <3>5, <3>6
  <2>4. CASE Wait(c)
    <3>1. /\ at[c] = "wait" /\ at'[c] \in {"raised", "done"}
      BY <2>4 DEF Wait, Goes
    <3>2. UNCHANGED late
      BY <2>4 DEF Wait
    <3> QED BY <1>1, <3>1, <3>2 DEF Due, Passed, OutputInv, NothingLeft, SameStreams
  <2>5. CASE Do(c) \/ Exit(c)
    <3>1. UNCHANGED <<at, late, ready>> /\ child[c] = "running"
      BY <2>5 DEF Do, Exit
    <3>2. ~ Open(c)' \/ Open(c)
      BY <3>1 DEF Open
    <3>3. Due(c)'
      BY <1>1, <3>1, <3>2 DEF Due, StaysReadable, OutputInv, SameStreams
    <3> QED BY <1>1, <3>1, <3>3 DEF Passed, OutputInv, NothingLeft, SameStreams
  <2> QED BY <2>1, <2>2, <2>3, <2>4, <2>5
<1> QED BY <1>3, <1>4, <1>6, <1>7 DEF OutputInv
\* Sequences: what goes in at the end of a pipe comes after what went before.
LEMMA PutLast ==
  ASSUME NEW s \in Seq(Char), NEW t \in Seq(Char), NEW x \in Char
  PROVE  s \o Append(t, x) = Append(s \o t, x)
<1>1. <<x>> \in Seq(Char) /\ s \o t \in Seq(Char)
  BY ConcatProperties
<1>2. Append(t, x) = t \o <<x>> /\ Append(s \o t, x) = (s \o t) \o <<x>>
  BY <1>1, AppendIsConcat
<1> QED BY <1>1, <1>2, ConcatAssociative

LEMMA OutputTypes ==
  ASSUME ExecTypeOK, NEW c \in Call
  PROVE  /\ stdout[c] \in Seq(Char) /\ data[c] \in Seq(Char) /\ shown[c] \in Seq(Char)
         /\ pipe[c] \in Streams /\ wrote[c] \in Streams
         /\ pipe[c].cap \in Seq(Char) /\ pipe[c].log \in Seq(Char)
         /\ wrote[c].cap \in Seq(Char) /\ wrote[c].log \in Seq(Char)
         /\ shown[c] \o data[c] \in Seq(Char)
<1>1. /\ stdout[c] \in Seq(Char) /\ data[c] \in Seq(Char) /\ shown[c] \in Seq(Char)
      /\ pipe[c] \in Streams /\ wrote[c] \in Streams
  BY DEF ExecTypeOK
<1> QED BY <1>1, ConcatProperties DEF Streams

LEMMA CaptureKept ==
  ASSUME ExecTypeOK, NEW c \in Call, OutputInv(c), Capture(c)
  PROVE  OutputInv(c)'
<1>1. /\ at[c] = "cap" /\ pipe'[c] = [pipe[c] EXCEPT !.cap = <<>>]
      /\ UNCHANGED <<kind, child, helper, ready, data, wrote, shown, late>>
  BY DEF Capture, ExecTypeOK, childVars
<1>2. pipe'[c].cap = <<>> /\ pipe'[c].log = pipe[c].log
  BY <1>1, OutputTypes DEF Streams
<1>3. ready[c] \subseteq {"cap", "log"} /\ "cap" \in ready[c] /\ data[c] = <<>>
  BY <1>1 DEF ExecTypeOK, OutputInv, Due
<1>4. Open(c)' <=> Open(c)
  BY <1>1 DEF Open
<1>5. CASE Cut(pipe[c].cap)
  <2>1. at'[c] = "raised" /\ fds'[c] = fds[c]
    BY <1>5 DEF Capture, ExecTypeOK
  <2>2. Drained(c)'
    BY <1>1, <1>2, <1>4, <2>1 DEF OutputInv, Drained, AtEnd, NotBegun
  <2> QED BY <1>1, <1>3, <2>1, <2>2 DEF OutputInv, Flow, Due, Passed
<1>6. CASE ~ Cut(pipe[c].cap)
  <2>1. /\ at'[c] = FirstOf(ready[c] \ {"cap"}) /\ stdout'[c] = stdout[c] \o pipe[c].cap
        /\ fds'[c] = IF pipe[c].cap = <<>> THEN fds[c] \ {"cap"} ELSE fds[c]
    BY <1>6 DEF Capture, ExecTypeOK
  <2>2. at'[c] = IF "log" \in ready[c] THEN "log" ELSE "select"
    BY <1>3, <2>1 DEF FirstOf
  <2>3. Flow(c)'
    <3>1. stdout[c] \o pipe[c].cap = wrote[c].cap /\ (shown[c] \o data[c]) \o pipe[c].log = wrote[c].log
      BY <1>1 DEF OutputInv, Flow
    <3>2. wrote[c].cap \o <<>> = wrote[c].cap
      BY OutputTypes, ConcatEmptySeq
    <3> QED BY <1>1, <1>2, <2>1, <3>1, <3>2 DEF Flow
  <2>4. pipe[c].cap = <<>> => ~ Open(c)
    BY <1>1, <1>3 DEF OutputInv, Due, StaysReadable
  <2>5. Drained(c)'
    BY <1>1, <1>2, <1>4, <2>1, <2>2, <2>4 DEF OutputInv, Drained, AtEnd, NotBegun
  <2>6. Due(c)'
    BY <1>1, <1>2, <1>4, <2>2 DEF OutputInv, Due, StaysReadable
  <2> QED BY <1>1, <1>3, <2>2, <2>3, <2>5, <2>6 DEF OutputInv, Passed
<1> QED BY <1>5, <1>6

LEMMA ReadKept ==
  ASSUME ExecTypeOK, NEW c \in Call, OutputInv(c), Read(c)
  PROVE  OutputInv(c)'
<1>1. /\ at[c] = "log" /\ pipe'[c] = [pipe[c] EXCEPT !.log = <<>>]
      /\ UNCHANGED <<kind, child, helper, ready, stdout, wrote, shown, late>>
  BY DEF Read, ExecTypeOK, childVars
<1>2. pipe'[c].log = <<>> /\ pipe'[c].cap = pipe[c].cap
  BY <1>1, OutputTypes DEF Streams
<1>3. data[c] = <<>> /\ (pipe[c].log # <<>> \/ ~ Open(c))
  BY <1>1 DEF OutputInv, Due, StaysReadable
<1>4. Open(c)' <=> Open(c)
  BY <1>1 DEF Open
<1>5. /\ stdout[c] \o pipe[c].cap = wrote[c].cap
      /\ (shown[c] \o data[c]) \o pipe[c].log = wrote[c].log
  BY <1>1 DEF OutputInv, Flow
<1>6. CASE Cut(pipe[c].log)
  <2>1. at'[c] = "raised" /\ fds'[c] = fds[c] /\ data'[c] = data[c]
    BY <1>6 DEF Read, ExecTypeOK
  <2>2. Drained(c)'
    BY <1>1, <1>2, <1>4, <2>1 DEF OutputInv, Drained, AtEnd, NotBegun
  <2> QED BY <1>1, <1>3, <2>1, <2>2 DEF OutputInv, Flow, Due, Passed
<1>7. CASE ~ Cut(pipe[c].log) /\ pipe[c].log # <<>>
  <2>1. at'[c] = "show" /\ fds'[c] = fds[c] /\ data'[c] = pipe[c].log
    BY <1>7 DEF Read, ExecTypeOK
  <2>2. Drained(c)'
    BY <1>1, <1>2, <1>4, <2>1 DEF OutputInv, Drained, AtEnd, NotBegun
  <2>3. Flow(c)'
    <3>1. shown[c] \o <<>> = shown[c] /\ wrote[c].log \o <<>> = wrote[c].log
      BY OutputTypes, ConcatEmptySeq
    <3> QED BY <1>1, <1>2, <1>3, <1>5, <2>1, <3>1 DEF Flow
  <2> QED BY <2>1, <2>2, <2>3 DEF OutputInv, Due, Passed
<1>8. CASE pipe[c].log = <<>>
  <2>1. at'[c] = "select" /\ fds'[c] = fds[c] \ {"log"} /\ data'[c] = data[c]
    BY <1>8 DEF Read, ExecTypeOK, Cut
  <2>2. Drained(c)'
    BY <1>1, <1>2, <1>3, <1>4, <1>8, <2>1 DEF OutputInv, Drained, AtEnd, NotBegun
  <2>3. Flow(c)'
    BY <1>1, <1>2, <1>5, <1>8, <2>1 DEF Flow
  <2> QED BY <1>3, <2>1, <2>2, <2>3 DEF OutputInv, Due, Passed
<1> QED BY <1>6, <1>7, <1>8

LEMMA ShowKept ==
  ASSUME ExecTypeOK, NEW c \in Call, OutputInv(c), Show(c)
  PROVE  OutputInv(c)'
<1>1. /\ at[c] = "show" /\ UNCHANGED <<kind, child, helper, pipe, fds, ready, stdout, wrote, late>>
  BY DEF Show, childVars
<1>2. \E n \in 0 .. Len(data[c]) :
        /\ data'[c] = SubSeq(data[c], n + 1, Len(data[c]))
        /\ shown'[c] = shown[c] \o SubSeq(data[c], 1, n)
        /\ SubSeq(data[c], 1, n) \o SubSeq(data[c], n + 1, Len(data[c])) = data[c]
        /\ SubSeq(data[c], 1, n) \in Seq(Char) /\ SubSeq(data[c], n + 1, Len(data[c])) \in Seq(Char)
  <2>1. data[c] \in Seq(Char) /\ Len(data[c]) \in 0 .. Len(data[c])
    BY OutputTypes
  <2>2. CASE Newline(data[c]) = {}
    <3>1. data'[c] = <<>> /\ shown'[c] = shown[c] \o data[c]
      BY <2>2 DEF Show, ExecTypeOK
    <3>2. SubSeq(data[c], Len(data[c]) + 1, Len(data[c])) = <<>>
      BY <2>1, SubSeqEmpty
    <3>3. SubSeq(data[c], 1, Len(data[c])) = data[c]
      BY <2>1, SubSeqFull
    <3>4. data[c] \o <<>> = data[c] /\ <<>> \in Seq(Char)
      BY <2>1, ConcatEmptySeq, EmptySeq
    <3> QED BY <2>1, <3>1, <3>2, <3>3, <3>4
  <2>3. CASE Newline(data[c]) # {}
    <3>1. PICK end \in Newline(data[c]) :
            /\ data'[c] = SubSeq(data[c], end + 1, Len(data[c]))
            /\ shown'[c] = shown[c] \o SubSeq(data[c], 1, end)
      BY <2>3 DEF Show, ExecTypeOK
    <3>2. end \in 1 .. Len(data[c])
      BY <2>1, LinesEnd
    <3>3. end \in 0 .. Len(data[c])
      BY <2>1, <3>2
    <3> QED BY <2>1, <3>1, <3>2, <3>3, Cutting
  <2> QED BY <2>2, <2>3
<1>3. shown'[c] \o data'[c] = shown[c] \o data[c]
  <2>1. PICK n \in 0 .. Len(data[c]) :
          /\ data'[c] = SubSeq(data[c], n + 1, Len(data[c]))
          /\ shown'[c] = shown[c] \o SubSeq(data[c], 1, n)
          /\ SubSeq(data[c], 1, n) \o SubSeq(data[c], n + 1, Len(data[c])) = data[c]
          /\ SubSeq(data[c], 1, n) \in Seq(Char)
          /\ SubSeq(data[c], n + 1, Len(data[c])) \in Seq(Char)
    BY <1>2
  <2>2. \A s, t, u \in Seq(Char) : (s \o t) \o u = s \o (t \o u)
    BY ConcatAssociative
  <2>3. shown[c] \in Seq(Char)
    BY OutputTypes
  <2> DEFINE a == SubSeq(data[c], 1, n)
             b == SubSeq(data[c], n + 1, Len(data[c]))
  <2>4. data'[c] = b /\ shown'[c] = shown[c] \o a /\ a \o b = data[c]
        /\ a \in Seq(Char) /\ b \in Seq(Char)
    BY <2>1
  <2> HIDE DEF a, b
  <2>5. (shown[c] \o a) \o b = shown[c] \o (a \o b)
    BY <2>2, <2>3, <2>4, Zenon
  <2> QED BY <2>4, <2>5
<1>4. Flow(c)'
  BY <1>1, <1>3 DEF OutputInv, Flow
<1>5. at'[c] = IF data'[c] = <<>> THEN "select" ELSE "show"
  BY DEF Show, ExecTypeOK
<1>6. Drained(c)'
  BY <1>1, <1>5 DEF OutputInv, Drained, AtEnd, NotBegun, Open
<1> QED BY <1>4, <1>5, <1>6 DEF OutputInv, Due, Passed

LEMMA WriteKept ==
  ASSUME ExecTypeOK, NEW c \in Call, OutputInv(c), Write(c)
  PROVE  OutputInv(c)'
<1>1. /\ child[c] = "running" /\ Open(c)
      /\ UNCHANGED <<kind, at, child, helper, fds, ready, stdout, data, shown>>
  BY DEF Write, Open, readVars
<1>2. CASE UNCHANGED <<pipe, wrote, late>>
  <2>1. SameOutput(c)
    BY <1>1, <1>2 DEF SameOutput
  <2> QED BY <2>1, SameOutputKept
<1>3. CASE ~ UNCHANGED <<pipe, wrote, late>>
  <2>1. PICK to \in {"cap", "log"} :
          /\ to = "cap" => kind[c].capture
          /\ pipe' = [pipe EXCEPT ![c][to] = Append(@, Head(steps[c])[2])]
          /\ wrote' = [wrote EXCEPT ![c][to] = Append(@, Head(steps[c])[2])]
          /\ late' = [late EXCEPT ![c] = @ \/ (at[c] = "poll" /\ ready[c] = {})]
          /\ at[c] \notin Ended
    BY <1>3, Zenon DEF Write, Target
  <2> DEFINE x == Head(steps[c])[2]
  <2>2. x \in Char
    BY Writing DEF Write
  <2>3. /\ pipe'[c] = [pipe[c] EXCEPT ![to] = Append(pipe[c][to], x)]
        /\ wrote'[c] = [wrote[c] EXCEPT ![to] = Append(wrote[c][to], x)]
        /\ at[c] = "poll" /\ ready[c] = {} => late'[c]
    BY <2>1 DEF ExecTypeOK
  <2>4. /\ pipe'[c][to] = Append(pipe[c][to], x) /\ wrote'[c][to] = Append(wrote[c][to], x)
        /\ \A f \in {"cap", "log"} \ {to} : pipe'[c][f] = pipe[c][f] /\ wrote'[c][f] = wrote[c][f]
    BY <2>1, <2>3, OutputTypes DEF Streams
  <2>5. Flow(c)'
    <3>1. SUFFICES ASSUME at[c] # "raised"
                   PROVE  /\ stdout[c] \o pipe'[c].cap = wrote'[c].cap
                          /\ (shown[c] \o data[c]) \o pipe'[c].log = wrote'[c].log
      BY <1>1 DEF Flow
    <3>2. /\ stdout[c] \o pipe[c].cap = wrote[c].cap
          /\ (shown[c] \o data[c]) \o pipe[c].log = wrote[c].log
      BY <3>1 DEF OutputInv, Flow
    <3>3. /\ stdout[c] \o Append(pipe[c].cap, x) = Append(wrote[c].cap, x)
          /\ (shown[c] \o data[c]) \o Append(pipe[c].log, x) = Append(wrote[c].log, x)
      <4>1. \A s, t \in Seq(Char) : s \o Append(t, x) = Append(s \o t, x)
        BY <2>2, PutLast
      <4>2. /\ stdout[c] \in Seq(Char) /\ pipe[c].cap \in Seq(Char)
            /\ shown[c] \o data[c] \in Seq(Char) /\ pipe[c].log \in Seq(Char)
        BY OutputTypes
      <4> HIDE DEF x
      <4> QED BY <3>2, <4>1, <4>2, Zenon
    <3> HIDE DEF x
    <3> QED BY <2>1, <2>4, <3>2, <3>3
  <2>6. to \in fds[c]
    BY <1>1, <2>1 DEF OutputInv, Drained, AtEnd
  <2>7. Drained(c)'
    BY <1>1, <2>4, <2>6 DEF OutputInv, Drained, AtEnd, Open
  <2>8. \A f \in {"cap", "log"} : pipe[c][f] # <<>> => pipe'[c][f] # <<>>
    BY <2>2, <2>4, OutputTypes, AppendProperties
  <2>9. Due(c)'
    <3>1. ready[c] \subseteq {"cap", "log"}
      BY DEF ExecTypeOK
    <3> QED BY <1>1, <2>8, <3>1 DEF OutputInv, Due, StaysReadable, Open
  <2>10. Passed(c)'
    BY <1>1, <2>1, <2>3 DEF OutputInv, Passed, Ended
  <2> QED BY <1>1, <2>5, <2>7, <2>9, <2>10 DEF OutputInv
<1> QED BY <1>2, <1>3

LEMMA HelperKept ==
  ASSUME ExecTypeOK, NEW c \in Call, OutputInv(c), Helper(c)
  PROVE  OutputInv(c)'
<1>1. /\ Open(c) /\ (Open(c)' \/ UNCHANGED <<pipe, wrote>>)
      /\ UNCHANGED <<kind, at, child, fds, ready, stdout, data, shown, late>>
  BY DEF Helper, Open, ExecTypeOK, readVars
<1>2. CASE UNCHANGED <<pipe, wrote>>
  <2>1. Flow(c)'
    BY <1>1, <1>2 DEF OutputInv, Flow
  <2>2. Drained(c)'
    BY <1>1, <1>2 DEF OutputInv, Drained, AtEnd
  <2>3. Due(c)' /\ Passed(c)'
    BY <1>1, <1>2 DEF OutputInv, Due, StaysReadable, Passed, NothingLeft, OnlyHelper
  <2> QED BY <1>1, <2>1, <2>2, <2>3 DEF OutputInv
<1>3. CASE ~ UNCHANGED <<pipe, wrote>>
  <2>1. /\ pipe' = [pipe EXCEPT ![c].log = Append(@, "helper")]
        /\ wrote' = [wrote EXCEPT ![c].log = Append(@, "helper")]
        /\ Open(c)'
    BY <1>1, <1>3 DEF Helper
  <2>2. /\ pipe'[c] = [pipe[c] EXCEPT !.log = Append(pipe[c].log, "helper")]
        /\ wrote'[c] = [wrote[c] EXCEPT !.log = Append(wrote[c].log, "helper")]
    BY <2>1 DEF ExecTypeOK
  <2>3. /\ pipe'[c].log = Append(pipe[c].log, "helper") /\ pipe'[c].cap = pipe[c].cap
        /\ wrote'[c].log = Append(wrote[c].log, "helper") /\ wrote'[c].cap = wrote[c].cap
    BY <2>2, OutputTypes DEF Streams
  <2>4. Flow(c)'
    <3>1. at[c] # "raised" =>
            (shown[c] \o data[c]) \o Append(pipe[c].log, "helper") = Append(wrote[c].log, "helper")
      <4>1. \A s, t \in Seq(Char) : s \o Append(t, "helper") = Append(s \o t, "helper")
        BY PutLast, LoggedExecAssumption
      <4>2. shown[c] \o data[c] \in Seq(Char) /\ pipe[c].log \in Seq(Char)
        BY OutputTypes
      <4>3. at[c] # "raised" => (shown[c] \o data[c]) \o pipe[c].log = wrote[c].log
        BY DEF OutputInv, Flow
      <4> QED BY <4>1, <4>2, <4>3, Zenon
    <3> QED BY <1>1, <2>3, <3>1 DEF OutputInv, Flow
  <2>5. Drained(c)'
    BY <1>1, <2>1, <2>3 DEF OutputInv, Drained, AtEnd
  <2>6. pipe'[c].log # <<>>
    <3>1. pipe[c].log \in Seq(Char) /\ "helper" \in Char
      BY OutputTypes, LoggedExecAssumption
    <3>2. Append(pipe[c].log, "helper") # <<>>
      BY <3>1, AppendProperties, Zenon
    <3> QED BY <2>3, <3>2
  <2>7. Due(c)'
    <3>1. ready[c] \subseteq {"cap", "log"}
      BY DEF ExecTypeOK
    <3> QED BY <1>1, <2>3, <2>6, <3>1 DEF OutputInv, Due, StaysReadable
  <2>8. NothingLeft(c) => NothingLeft(c)'
    <3>1. OnlyHelper(pipe[c].log) => OnlyHelper(Append(pipe[c].log, "helper"))
      BY OutputTypes DEF OnlyHelper
    <3> QED BY <2>3, <3>1 DEF NothingLeft, OnlyHelper
  <2>9. Passed(c)'
    BY <1>1, <2>8 DEF OutputInv, Passed
  <2> QED BY <1>1, <2>4, <2>5, <2>7, <2>9 DEF OutputInv
<1> QED BY <1>2, <1>3

LEMMA OutputStep ==
  ASSUME ExecTypeOK, \A c \in Call : OutputInv(c), [ExecNext]_execVars, NEW c \in Call
  PROVE  OutputInv(c)'
<1>1. CASE UNCHANGED execVars
  <2>1. SameOutput(c)
    BY <1>1 DEF execVars, childVars, readVars, SameOutput
  <2> QED BY <2>1, SameOutputKept
<1>2. ASSUME NEW d \in Call, CallStep(d) \/ Answer(d) \/ ChildStep(d) \/ Helper(d), d # c
      PROVE  OutputInv(c)'
  BY <1>2, OthersSame, SameOutputKept
<1>3. CASE CallStep(c) \/ Answer(c) \/ ChildStep(c) \/ Helper(c)
  BY <1>3, QuietSteps, CaptureKept, ReadKept, ShowKept, WriteKept, HelperKept
     DEF CallStep, ChildStep
<1> QED BY <1>1, <1>2, <1>3 DEF ExecNext

LEMMA OutputInit == ASSUME ExecInit, NEW c \in Call PROVE OutputInv(c)
<1>1. kind[c] \in Kinds
  BY LoggedExecAssumption DEF ExecInit
<1>2. <<>> \o <<>> = <<>> /\ (<<>> \o <<>>) \o <<>> = <<>>
  BY EmptySeq, ConcatEmptySeq
<1>3. at[c] \in {"confirm", "spawn"} /\ data[c] = <<>> /\ pipe[c] = [cap |-> <<>>, log |-> <<>>]
  BY DEF ExecInit
<1>4. Flow(c)
  BY <1>2, <1>3 DEF ExecInit, Flow
<1>5. Drained(c)
  BY <1>3 DEF ExecInit, Drained
<1> QED BY <1>3, <1>4, <1>5 DEF OutputInv, Due, Passed

(* What a child has written is all there when logged_exec returns, in its order:
   what is missing at the end of the log is from a process it has left behind. *)
THEOREM NothingCutOff == ExecSpec => []Complete
<1> DEFINE AllKept == \A c \in Call : OutputInv(c)
<1>1. ExecInit => AllKept
  BY OutputInit
<1>2. ExecTypeOK /\ AllKept /\ [ExecNext]_execVars => AllKept'
  BY OutputStep
<1>3. ExecTypeOK /\ AllKept => Complete
  <2> SUFFICES ASSUME ExecTypeOK, AllKept, NEW c \in Call, at[c] = "done", ~ late[c]
               PROVE  /\ stdout[c] = wrote[c].cap
                      /\ shown[c] = SubSeq(wrote[c].log, 1, Len(shown[c]))
                      /\ \A i \in Len(shown[c]) + 1 .. Len(wrote[c].log) :
                           wrote[c].log[i] = "helper"
    BY DEF Complete
  <2> DEFINE s == shown[c]
             p == pipe[c].log
  <2>1. /\ stdout[c] \o pipe[c].cap = wrote[c].cap /\ (s \o data[c]) \o p = wrote[c].log
        /\ pipe[c].cap = <<>> /\ data[c] = <<>> /\ OnlyHelper(p)
    BY DEF OutputInv, Flow, Passed, NothingLeft
  <2>2. s \in Seq(Char) /\ p \in Seq(Char) /\ stdout[c] \in Seq(Char)
    BY OutputTypes
  <2>3. stdout[c] \o <<>> = stdout[c] /\ s \o <<>> = s
    BY <2>2, ConcatEmptySeq
  <2>4. stdout[c] = wrote[c].cap /\ s \o p = wrote[c].log
    BY <2>1, <2>3
  <2> HIDE DEF s, p
  <2>5. SubSeq(s \o p, 1, Len(s)) = s
    BY <2>2, ConcatProperties, SubSeqProperties
  <2>6. \A i \in Len(s) + 1 .. Len(s \o p) : (s \o p)[i] = "helper"
    <3> SUFFICES ASSUME NEW i \in Len(s) + 1 .. Len(s \o p) PROVE (s \o p)[i] = "helper"
      OBVIOUS
    <3>1. Len(s) \in Nat /\ Len(p) \in Nat /\ DOMAIN p = 1 .. Len(p) /\ Len(s \o p) = Len(s) + Len(p)
      BY <2>2
    <3>2. i - Len(s) \in DOMAIN p /\ (s \o p)[i] = p[i - Len(s)]
      BY <2>2, <3>1, ConcatProperties
    <3> QED BY <2>1, <3>2 DEF OnlyHelper
  <2> QED BY <2>4, <2>5, <2>6 DEF s
<1> HIDE DEF AllKept
<1> QED BY <1>1, <1>2, <1>3, ExecTypeInit, ExecTypeStep, PTL DEF ExecSpec
=============================================================================
