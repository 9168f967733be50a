--------------------------- MODULE StateFileProofs ---------------------------
(***************************************************************************)
(* The safety of opening a state file, for any number of processes, any    *)
(* number of tries and any files.                                          *)
(***************************************************************************)
EXTENDS StateFile, TLAPS

Renames == {Rename("Machines", "Resources"), Rename("MachineAttrs", "ResourceAttrs")}
Statements == {Create(t) : t \in Schema} \cup {Insert, Update} \cup Renames

(***************************************************************************)
(* The programs, statement by statement.                                   *)
(***************************************************************************)
LEMMA CreateProgram ==
  /\ Len(Program(0)) = 6
  /\ Program(0)[1] = Create("SchemaVersion")
  /\ Program(0)[2] = Insert
  /\ Program(0)[3] = Create("Deployments")
  /\ Program(0)[4] = Create("DeploymentAttrs")
  /\ Program(0)[5] = Create("Resources")
  /\ Program(0)[6] = Create("ResourceAttrs")
BY DEF Program, _create_schema, _create_schemaversion

LEMMA UpgradeProgram1 ==
  /\ Len(Program(1)) = 5
  /\ Program(1)[1] = Create("SchemaVersion")
  /\ Program(1)[2] = Insert
  /\ Program(1)[3] = Rename("Machines", "Resources")
  /\ Program(1)[4] = Rename("MachineAttrs", "ResourceAttrs")
  /\ Program(1)[5] = Update
BY DEF Program, _upgrade_1_to_2, _upgrade_2_to_3, _create_schemaversion

LEMMA UpgradeProgram2 ==
  ASSUME NEW v, v # 0, v # 1
  PROVE  /\ Len(Program(v)) = 3
         /\ Program(v)[1] = Rename("Machines", "Resources")
         /\ Program(v)[2] = Rename("MachineAttrs", "ResourceAttrs")
         /\ Program(v)[3] = Update
BY DEF Program, _upgrade_2_to_3

LEMMA StatementType ==
  ASSUME NEW v, NEW i \in 1 .. 7, ~ (i > Len(Program(v)))
  PROVE  i < 7 /\ Program(v)[i] \in Statements
<1>1. CASE v = 0
  <2>1. Len(Program(v)) = 6
    BY <1>1, CreateProgram
  <2>2. i \in 1 .. 6
    BY <2>1
  <2>3. i = 1 \/ i = 2 \/ i = 3 \/ i = 4 \/ i = 5 \/ i = 6
    BY <2>2
  <2> QED  BY <1>1, <2>3, CreateProgram DEF Statements, Schema
<1>2. CASE v = 1
  <2>1. Len(Program(v)) = 5
    BY <1>2, UpgradeProgram1
  <2>2. i \in 1 .. 5
    BY <2>1
  <2>3. i = 1 \/ i = 2 \/ i = 3 \/ i = 4 \/ i = 5
    BY <2>2
  <2> QED  BY <1>2, <2>3, UpgradeProgram1 DEF Statements, Schema, Renames
<1>3. CASE v # 0 /\ v # 1
  <2>1. Len(Program(v)) = 3
    BY <1>3, UpgradeProgram2
  <2>2. i \in 1 .. 3
    BY <2>1
  <2>3. i = 1 \/ i = 2 \/ i = 3
    BY <2>2
  <2> QED  BY <1>3, <2>3, UpgradeProgram2 DEF Statements, Renames
<1> QED  BY <1>1, <1>2, <1>3
-----------------------------------------------------------------------------
(* Types.                                                                  *)

\* A process that still connects has a try left.
CountOK(p) == pc[p] \in {"idle", "connecting"} => tries[p] < MaxTries
CountInv == \A p \in Process : CountOK(p)

LEMMA InitType == Init => TypeOK /\ CountInv
<1> SUFFICES ASSUME Init PROVE TypeOK /\ CountInv
  OBVIOUS
<1>1. PICK v \in Files :
        /\ tables = [t \in Tables |-> IF t \in Made(v) THEN "rows" ELSE "absent"]
        /\ versions = IF v < 2 THEN {} ELSE {v}
  BY DEF Init
<1>2. v \in 0 .. 4
  BY StateFileAssumption DEF Newer, current_schema
<1>3. tables \in [Tables -> Content]
  BY <1>1 DEF Content
<1>4. versions \subseteq {2, current_schema, Newer}
  BY <1>1, <1>2 DEF Newer, current_schema
<1>5. tries \in [Process -> 0 .. MaxTries]
  BY StateFileAssumption DEF Init
<1>6. seen \in [Process -> 0 .. Newer]
  BY DEF Init, Newer, current_schema
<1>7. at \in [Process -> 1 .. 7] /\ access \in [Process -> {"ro", "bare", "enforcing"}]
  BY DEF Init
<1>8. pc \in [Process -> Over \cup Opening \cup {"open"}]
  BY DEF Init, Over
<1>9. TypeOK
  BY <1>3, <1>4, <1>5, <1>6, <1>7, <1>8 DEF Init, TypeOK
<1>10. CountInv
  BY StateFileAssumption DEF Init, CountInv, CountOK
<1> QED  BY <1>9, <1>10

(* What a statement does to the file. *)
LEMMA ExecuteType ==
  ASSUME TypeOK, NEW s \in Statements, Execute(s)
  PROVE  /\ tables' \in [Tables -> Content]
         /\ versions' \subseteq versions \cup {current_schema}
<1>1. CASE \E t \in Schema : s = Create(t)
  BY <1>1 DEF TypeOK, Execute, Create, Kept, Exists, Content, Tables
<1>2. CASE s = Insert
  BY <1>2 DEF TypeOK, Execute, Insert, Content
<1>3. CASE s = Update
  <2>1. {current_schema : v \in versions} \subseteq {current_schema}
    OBVIOUS
  <2>2. tables' = tables /\ versions' = {current_schema : v \in versions}
    BY <1>3 DEF Execute, Update
  <2> QED  BY <2>1, <2>2 DEF TypeOK
<1>4. ASSUME NEW t \in Tables, NEW u \in Tables, s = Rename(t, u)
      PROVE  tables' \in [Tables -> Content] /\ versions' = versions
  BY <1>4 DEF TypeOK, Execute, Rename, Content
<1>5. CASE s \in Renames
  BY <1>4, <1>5 DEF Renames, Tables, OldTables, Schema
<1> QED  BY <1>1, <1>2, <1>3, <1>5 DEF Statements

LEMMA StepIsStatement ==
  ASSUME TypeOK, NEW p \in Process, ~ Executed(p)
  PROVE  at[p] < 7 /\ Statement(p) \in Statements
BY StatementType DEF TypeOK, Executed, Statement

LEMMA NextCount == TypeOK /\ CountInv /\ [Next]_vars => CountInv'
<1> SUFFICES ASSUME TypeOK, CountInv, [Next]_vars PROVE CountInv'
  OBVIOUS
<1>1. ASSUME NEW p \in Process, Busy(p) PROVE CountInv'
  <2>1. tries[p] < MaxTries /\ tries[p] \in Nat
    BY <1>1 DEF TypeOK, CountInv, CountOK, Busy, Goes
  <2>2. pc'[p] = "connecting" => tries'[p] < MaxTries
    BY <1>1, <2>1, StateFileAssumption DEF TypeOK, Busy, Goes, GivesUp
  <2>3. pc'[p] \in {"connecting", "checking"}
    BY <1>1 DEF TypeOK, Busy, Goes
  <2>4. \A q \in Process \ {p} : pc'[q] = pc[q] /\ tries'[q] = tries[q]
    BY <1>1 DEF TypeOK, Busy, Goes
  <2> QED  BY <2>2, <2>3, <2>4 DEF CountInv, CountOK
<1>2. CASE /\ tries' = tries
           /\ \A p \in Process : pc'[p] \in {"idle", "connecting"}
                                 => pc[p] \in {"idle", "connecting"}
  BY <1>2 DEF CountInv, CountOK
<1> QED
  BY <1>1, <1>2 DEF TypeOK, Next, vars, Begin, Connect, Breaks, Check, Fetch, Probe,
     Decide, Step, StepFails, Opened, Use, Die, Goes, Opening

LEMMA NextType == TypeOK /\ CountInv /\ [Next]_vars => TypeOK'
<1> SUFFICES ASSUME TypeOK, CountInv, [Next]_vars PROVE TypeOK'
  OBVIOUS
<1>1. CASE UNCHANGED vars
  BY <1>1 DEF TypeOK, vars, fileVars
<1>2. ASSUME NEW p \in Process, Begin(p) PROVE TypeOK'
  BY <1>2 DEF TypeOK, Begin, Goes, Opening, fileVars
<1>3. ASSUME NEW p \in Process, Connect(p) PROVE TypeOK'
  BY <1>3 DEF TypeOK, Connect, Goes, Opening, fileVars
<1>4. ASSUME NEW p \in Process, Busy(p) PROVE TypeOK'
  <2>1. pc' \in [Process -> Over \cup Opening \cup {"open"}]
    BY <1>4 DEF TypeOK, Busy, Goes, Opening
  <2>2. tries[p] < MaxTries /\ tries[p] \in Nat
    BY <1>4 DEF TypeOK, CountInv, CountOK, Busy, Goes
  <2>3. tries' \in [Process -> 0 .. MaxTries]
    BY <1>4, <2>2, StateFileAssumption DEF TypeOK, Busy
  <2> QED  BY <1>4, <2>1, <2>3 DEF TypeOK, Busy, fileVars
<1>5. ASSUME NEW p \in Process, Breaks(p) PROVE TypeOK'
  BY <1>5 DEF TypeOK, Breaks, Goes, Over, fileVars
<1>6. ASSUME NEW p \in Process, Check(p) PROVE TypeOK'
  BY <1>6 DEF TypeOK, Check, Goes, Opening, fileVars
<1>7. ASSUME NEW p \in Process, Fetch(p) PROVE TypeOK'
  BY <1>7 DEF TypeOK, Fetch, Goes, Opening, Over, fileVars, Newer, current_schema
<1>8. ASSUME NEW p \in Process, Probe(p) PROVE TypeOK'
  BY <1>8 DEF TypeOK, Probe, Goes, Opening, fileVars, Newer, current_schema
<1>9. ASSUME NEW p \in Process, Decide(p) PROVE TypeOK'
  BY <1>9 DEF TypeOK, Decide, Goes, Opening, Over, fileVars
<1>10. ASSUME NEW p \in Process, Step(p) PROVE TypeOK'
  <2>1. at[p] < 7 /\ Statement(p) \in Statements
    BY <1>10, StepIsStatement DEF Step
  <2>2. tables' \in [Tables -> Content] /\ versions' \subseteq versions \cup {current_schema}
    BY <1>10, <2>1, ExecuteType DEF Step
  <2>3. at' \in [Process -> 1 .. 7]
    BY <1>10, <2>1 DEF TypeOK, Step
  <2> QED  BY <1>10, <2>2, <2>3 DEF TypeOK, Step
<1>11. ASSUME NEW p \in Process, StepFails(p) PROVE TypeOK'
  BY <1>11 DEF TypeOK, StepFails, Goes, Over, fileVars
<1>12. ASSUME NEW p \in Process, Opened(p) PROVE TypeOK'
  BY <1>12 DEF TypeOK, Opened, Goes, fileVars
<1>13. ASSUME NEW p \in Process, Use(p) PROVE TypeOK'
  BY <1>13 DEF TypeOK, Use, Goes, Over, Content
<1>14. ASSUME NEW p \in Process, Die(p) PROVE TypeOK'
  BY <1>14 DEF TypeOK, Die, Goes, Over, fileVars
<1> QED
  BY <1>1, <1>2, <1>3, <1>4, <1>5, <1>6, <1>7, <1>8, <1>9, <1>10, <1>11, <1>12,
     <1>13, <1>14 DEF Next

(* Every variable keeps its type. *)
THEOREM TypeCorrect == Spec => []TypeOK
BY InitType, NextType, NextCount, PTL DEF Spec
-----------------------------------------------------------------------------
(* No row is lost.                                                         *)

LEMMA StatementKeeps ==
  ASSUME TypeOK, NEW s \in Statements, Possible(s), Execute(s), NEW H \in Homes,
         \E t \in H : tables[t] = "rows"
  PROVE  \E t \in H : tables'[t] = "rows"
<1>1. PICK t \in H : tables[t] = "rows"
  OBVIOUS
<1>2. t \in Tables
  BY DEF Homes, Tables, Schema, OldTables
<1>3. CASE \E u \in Schema : s = Create(u)
  BY <1>1, <1>2, <1>3 DEF TypeOK, Execute, Create, Kept, Exists, Tables
<1>4. CASE s \in {Insert, Update}
  BY <1>1, <1>2, <1>4 DEF TypeOK, Execute, Insert, Update
<1>5. CASE s = Rename("Machines", "Resources")
  <2>1. t # "Resources"
    BY <1>1, <1>5 DEF Possible, Rename, Exists
  <2>2. t = "Machines" => tables'["Resources"] = "rows"
    BY <1>1, <1>5 DEF TypeOK, Execute, Rename, Tables, Schema, OldTables
  <2>3. t # "Machines" => tables'[t] = "rows"
    BY <1>1, <1>2, <1>5, <2>1 DEF TypeOK, Execute, Rename, Tables, Schema, OldTables
  <2> QED  BY <2>2, <2>3 DEF Homes
<1>6. CASE s = Rename("MachineAttrs", "ResourceAttrs")
  <2>1. t # "ResourceAttrs"
    BY <1>1, <1>6 DEF Possible, Rename, Exists
  <2>2. t = "MachineAttrs" => tables'["ResourceAttrs"] = "rows"
    BY <1>1, <1>6 DEF TypeOK, Execute, Rename, Tables, Schema, OldTables
  <2>3. t # "MachineAttrs" => tables'[t] = "rows"
    BY <1>1, <1>2, <1>6, <2>1 DEF TypeOK, Execute, Rename, Tables, Schema, OldTables
  <2> QED  BY <2>2, <2>3 DEF Homes
<1> QED  BY <1>3, <1>4, <1>5, <1>6 DEF Statements, Renames

(* No process loses the rows of a table of the file, whatever its version,
   whoever opens it at the same time and wherever one is killed. *)
THEOREM NoRowLost == Spec => RowsKept
<1>1. ASSUME TypeOK, [Next]_vars, NEW H \in Homes, \E t \in H : tables[t] = "rows"
      PROVE  \E t \in H : tables'[t] = "rows"
  <2>1. ASSUME NEW p \in Process, Step(p) PROVE \E t \in H : tables'[t] = "rows"
    <3>1. Statement(p) \in Statements
      BY <1>1, <2>1, StepIsStatement DEF Step
    <3> QED  BY <1>1, <2>1, <3>1, StatementKeeps DEF Step
  <2>2. ASSUME NEW p \in Process, Use(p) PROVE \E t \in H : tables'[t] = "rows"
    <3>1. \A t \in Tables : tables[t] = "rows" => tables'[t] = "rows"
      BY <1>1, <2>2 DEF TypeOK, Use, Goes, Tables
    <3> QED  BY <1>1, <3>1 DEF Homes, Tables, Schema, OldTables
  <2>3. CASE UNCHANGED tables
    BY <1>1, <2>3
  <2> QED
    BY <1>1, <2>1, <2>2, <2>3 DEF Next, vars, fileVars, Begin, Connect, Busy, Breaks,
       Check, Fetch, Probe, Decide, StepFails, Opened, Die
<1>2. TypeOK /\ [Next]_vars
        => [\A H \in Homes :
              (\E t \in H : tables[t] = "rows") => \E t \in H : tables'[t] = "rows"]_vars
  BY <1>1
<1> QED  BY <1>2, TypeCorrect, PTL DEF Spec, RowsKept
-----------------------------------------------------------------------------
(* A file of a later NixOps: nobody gets as far as changing it.            *)

NewOK(p) ==
  /\ pc[p] \notin {"probing", "upgrading", "open"}
  /\ pc[p] = "deciding" => seen[p] = Newer

NewInv ==
  Newer \in versions =>
    /\ versions = {Newer} /\ Exists("SchemaVersion")
    /\ \A p \in Process : NewOK(p)

LEMMA InitNew == Init => NewInv
<1> SUFFICES ASSUME Init, Newer \in versions PROVE NewInv
  BY DEF NewInv
<1>1. PICK v \in Files :
        /\ tables = [t \in Tables |-> IF t \in Made(v) THEN "rows" ELSE "absent"]
        /\ versions = IF v < 2 THEN {} ELSE {v}
  BY DEF Init
<1>2. v = Newer /\ versions = {Newer}
  BY <1>1
<1>3. Exists("SchemaVersion")
  BY <1>1, <1>2 DEF Exists, Made, Newer, current_schema, Schema, Tables
<1>4. \A p \in Process : NewOK(p)
  BY DEF Init, NewOK
<1> QED  BY <1>2, <1>3, <1>4 DEF NewInv

(* What the next step of an untouched file keeps. *)
LEMMA NewerStep ==
  ASSUME TypeOK, NewInv, [Next]_vars, Newer \in versions
  PROVE  UNCHANGED fileVars /\ NewInv'
<1>0. versions = {Newer} /\ Exists("SchemaVersion") /\ (\A p \in Process : NewOK(p))
  BY DEF NewInv
<1>1. UNCHANGED fileVars
  BY <1>0 DEF NewOK, Next, vars, fileVars, Begin, Connect, Busy, Breaks, Check, Fetch,
     Probe, Decide, Step, StepFails, Opened, Use, Die, Goes
<1>2. ASSUME NEW q \in Process PROVE NewOK(q)'
  <2>1. NewOK(q)
    BY <1>0
  <2>2. CASE UNCHANGED vars
    BY <2>1, <2>2 DEF NewOK, vars
  <2>3. ASSUME NEW p \in Process, p # q,
               pc' = [pc EXCEPT ![p] = pc'[p]], seen' = [seen EXCEPT ![p] = seen'[p]]
        PROVE NewOK(q)'
    BY <2>1, <2>3 DEF TypeOK, NewOK
  <2>4. CASE pc'[q] \notin {"probing", "upgrading", "open", "deciding"}
    BY <2>4 DEF NewOK
  <2>5. CASE Fetch(q)
    BY <1>0, <2>5 DEF TypeOK, NewOK, Fetch, Goes
  <2>6. CASE Check(q)
    BY <1>0, <2>6 DEF TypeOK, NewOK, Check, Goes
  <2>7. CASE Decide(q)
    <3>1. seen[q] = Newer
      BY <2>1, <2>7 DEF NewOK, Decide, Goes
    <3>2. pc'[q] = "failed"
      BY <2>7, <3>1 DEF TypeOK, Decide, Goes, TooNew, Newer, current_schema
    <3> QED  BY <3>2, <2>4
  <2>8. ASSUME NEW p \in Process,
               Begin(p) \/ Connect(p) \/ Busy(p) \/ Breaks(p) \/ Check(p) \/ Fetch(p)
                 \/ Decide(p) \/ StepFails(p) \/ Die(p)
        PROVE  NewOK(q)'
    <3>1. CASE p # q
      BY <2>3, <2>8, <3>1 DEF TypeOK, Begin, Connect, Busy, Breaks, Check, Fetch,
         Decide, StepFails, Die, Goes
    <3>2. CASE p = q
      BY <2>4, <2>5, <2>6, <2>7, <2>8, <3>2 DEF TypeOK, Begin, Connect, Busy, Breaks,
         StepFails, Die, Goes
    <3> QED  BY <3>1, <3>2
  <2>9. ASSUME NEW p \in Process PROVE ~ (Probe(p) \/ Step(p) \/ Opened(p) \/ Use(p))
    BY <1>0 DEF NewOK, Probe, Step, Opened, Use, Goes
  <2> QED  BY <2>2, <2>8, <2>9 DEF Next
<1> QED  BY <1>0, <1>1, <1>2 DEF NewInv, fileVars, Exists

(* Nobody writes the version of a later NixOps. *)
LEMMA NeverNewer ==
  ASSUME TypeOK, [Next]_vars, Newer \notin versions
  PROVE  Newer \notin versions'
<1>1. ASSUME NEW p \in Process, Step(p) PROVE Newer \notin versions'
  <2>1. versions' \subseteq versions \cup {current_schema}
    BY <1>1, StepIsStatement, ExecuteType DEF Step
  <2> QED  BY <2>1 DEF Newer, current_schema
<1> QED
  BY <1>1 DEF Next, vars, fileVars, Begin, Connect, Busy, Breaks, Check, Fetch, Probe,
     Decide, StepFails, Opened, Use, Die

LEMMA NextNew == TypeOK /\ NewInv /\ [Next]_vars => NewInv'
<1> SUFFICES ASSUME TypeOK, NewInv, [Next]_vars PROVE NewInv'
  OBVIOUS
<1>1. CASE Newer \in versions
  BY <1>1, NewerStep
<1>2. CASE Newer \notin versions
  BY <1>2, NeverNewer DEF NewInv
<1> QED  BY <1>1, <1>2

(* No process changes a file of a later NixOps. *)
THEOREM LaterFilesUntouched == Spec => NewerUntouched
<1>1. TypeOK /\ NewInv /\ [Next]_vars => [(Newer \in versions) => UNCHANGED fileVars]_vars
  BY NewerStep
<1> QED  BY <1>1, TypeCorrect, InitNew, NextNew, PTL DEF Spec, NewerUntouched
-----------------------------------------------------------------------------
(***************************************************************************)
(* Under the lock one process at a time.  FileInv: unless one was cut off, *)
(* the file has the shape of one version between two commands, and during  *)
(* an upgrade the shape that the statements executed so far give it.       *)
(***************************************************************************)
\* The tables of a file of version v after the statements of its program
\* before the i-th.
Halfway(v, i) ==
  LET resources == v > 2 \/ (v = 2 /\ i > 1) \/ (v = 1 /\ i > 3) \/ (v = 0 /\ i > 5)
      attrs     == v > 2 \/ (v = 2 /\ i > 2) \/ (v = 1 /\ i > 4) \/ (v = 0 /\ i > 6)
  IN  /\ Exists("SchemaVersion") <=> v > 1 \/ i > 1
      /\ Exists("Deployments") <=> v > 0 \/ i > 3
      /\ Exists("DeploymentAttrs") <=> v > 0 \/ i > 4
      /\ Exists("Resources") <=> resources
      /\ Exists("ResourceAttrs") <=> attrs
      /\ Exists("Machines") <=> v > 0 /\ ~ resources
      /\ Exists("MachineAttrs") <=> v > 0 /\ ~ attrs

Stamp(v, i) ==
  IF v < 2 THEN (IF i > 2 THEN {current_schema} ELSE {})
  ELSE IF v = 2 /\ i > 3 THEN {current_schema} ELSE {v}

Shape(v, i) == Halfway(v, i) /\ versions = Stamp(v, i)

Steady == \E v \in 0 .. 4 : Shape(v, 1)

FileOK(p) ==
  /\ pc[p] = "fetching" => Exists("SchemaVersion")
  /\ pc[p] = "probing" => ~ Exists("SchemaVersion")
  /\ pc[p] = "deciding" => Shape(seen[p], 1)
  /\ pc[p] = "upgrading" => seen[p] \in 0 .. 2 /\ Shape(seen[p], at[p])
  /\ pc[p] = "open" => Shape(current_schema, 1)
  /\ pc[p] \in Opening \ {"upgrading"} => at[p] = 1

FileInv ==
  locked /\ ~ killed =>
    /\ (\A p \in Process : pc[p] # "upgrading") => Steady
    /\ \A p \in Process : FileOK(p)

AloneOK(p) ==
  /\ pc[p] \notin Over => \A q \in Process \ {p} : pc[q] \in Over
  /\ pc[p] \notin Over \cup {"connecting"} => access[p] # "bare"
  /\ pc[p] \in {"idle", "connecting"} => at[p] = 1

AloneInv == locked => \A p \in Process : AloneOK(p)

LEMMA StepShape0 ==
  ASSUME TypeOK, NEW i \in 1 .. 6, Shape(0, i), Execute(Program(0)[i])
  PROVE  Shape(0, i + 1)'
<1> USE CreateProgram DEF TypeOK, Shape, Halfway, Stamp, Execute, Create, Insert, Kept,
      Exists, Tables, Schema, OldTables
<1>1. i = 1 \/ i = 2 \/ i = 3 \/ i = 4 \/ i = 5 \/ i = 6
  OBVIOUS
<1>2. CASE i = 1
  BY <1>2
<1>3. CASE i = 2
  BY <1>3
<1>4. CASE i = 3
  BY <1>4
<1>5. CASE i = 4
  BY <1>5
<1>6. CASE i = 5
  BY <1>6
<1>7. CASE i = 6
  BY <1>7
<1> QED  BY <1>1, <1>2, <1>3, <1>4, <1>5, <1>6, <1>7

LEMMA StepShape1 ==
  ASSUME TypeOK, NEW i \in 1 .. 5, Shape(1, i), Execute(Program(1)[i])
  PROVE  Shape(1, i + 1)'
<1> USE UpgradeProgram1 DEF TypeOK, Shape, Halfway, Stamp, Execute, Create, Insert,
      Kept, Rename, Update, Exists, Tables, Schema, OldTables
<1>1. i = 1 \/ i = 2 \/ i = 3 \/ i = 4 \/ i = 5
  OBVIOUS
<1>2. CASE i = 1
  BY <1>2
<1>3. CASE i = 2
  BY <1>3
<1>4. CASE i = 3
  BY <1>4
<1>5. CASE i = 4
  BY <1>5
<1>6. CASE i = 5
  BY <1>6
<1> QED  BY <1>1, <1>2, <1>3, <1>4, <1>5, <1>6

LEMMA StepShape2 ==
  ASSUME TypeOK, NEW i \in 1 .. 3, Shape(2, i), Execute(Program(2)[i])
  PROVE  Shape(2, i + 1)'
<1> USE UpgradeProgram2 DEF TypeOK, Shape, Halfway, Stamp, Execute, Rename, Update,
      Exists, Tables, Schema, OldTables
<1>1. i = 1 \/ i = 2 \/ i = 3
  OBVIOUS
<1>2. CASE i = 1
  BY <1>2
<1>3. CASE i = 2
  BY <1>3
<1>4. CASE i = 3
  BY <1>4
<1> QED  BY <1>1, <1>2, <1>3, <1>4

(* Every statement of a program does its part, and none is refused. *)
LEMMA StepShape ==
  ASSUME TypeOK, NEW v \in 0 .. 2, NEW i \in 1 .. 7, ~ (i > Len(Program(v))),
         Shape(v, i)
  PROVE  Possible(Program(v)[i]) /\ (Execute(Program(v)[i]) => Shape(v, i + 1)')
<1>1. CASE v = 0
  <2>1. i \in 1 .. 6
    <3>1. Len(Program(v)) = 6
      BY <1>1, CreateProgram
    <3> QED  BY <3>1
  <2>2. Possible(Program(v)[i])
    <3>1. i = 1 \/ i = 2 \/ i = 3 \/ i = 4 \/ i = 5 \/ i = 6
      BY <2>1
    <3> QED  BY <1>1, <3>1, CreateProgram DEF Possible, Create, Insert
  <2> QED  BY <1>1, <2>1, <2>2, StepShape0
<1>2. CASE v = 1
  <2>1. i \in 1 .. 5
    <3>1. Len(Program(v)) = 5
      BY <1>2, UpgradeProgram1
    <3> QED  BY <3>1
  <2>2. Possible(Program(v)[i])
    <3>1. i = 1 \/ i = 2 \/ i = 3 \/ i = 4 \/ i = 5
      BY <2>1
    <3> QED  BY <1>2, <3>1, UpgradeProgram1
             DEF Possible, Create, Insert, Rename, Update, Shape, Halfway
  <2> QED  BY <1>2, <2>1, <2>2, StepShape1
<1>3. CASE v = 2
  <2>1. i \in 1 .. 3
    <3>1. Len(Program(v)) = 3
      BY <1>3, UpgradeProgram2
    <3> QED  BY <3>1
  <2>2. Possible(Program(v)[i])
    <3>1. i = 1 \/ i = 2 \/ i = 3
      BY <2>1
    <3> QED  BY <1>3, <3>1, UpgradeProgram2 DEF Possible, Rename, Update, Shape, Halfway
  <2> QED  BY <1>3, <2>1, <2>2, StepShape2
<1> QED  BY <1>1, <1>2, <1>3

(* After its last statement the file is one of the current schema. *)
LEMMA ProgramCompletes ==
  ASSUME NEW v \in 0 .. 2, NEW i \in 1 .. 7, i > Len(Program(v)), Shape(v, i)
  PROVE  Shape(current_schema, 1)
<1>1. CASE v = 0
  <2>1. Len(Program(v)) = 6
    BY <1>1, CreateProgram
  <2> QED  BY <1>1, <2>1 DEF Shape, Halfway, Stamp, current_schema
<1>2. CASE v = 1
  <2>1. Len(Program(v)) = 5
    BY <1>2, UpgradeProgram1
  <2> QED  BY <1>2, <2>1 DEF Shape, Halfway, Stamp, current_schema
<1>3. CASE v = 2
  <2>1. Len(Program(v)) = 3
    BY <1>3, UpgradeProgram2
  <2>2. i > 3
    BY <2>1
  <2>3. Shape(2, i)
    BY <1>3
  <2>4. Halfway(current_schema, 1)
    BY <2>2, <2>3 DEF Shape, Halfway, current_schema
  <2>5. versions = {current_schema}
    BY <2>2, <2>3 DEF Shape, Stamp
  <2> QED  BY <2>4, <2>5 DEF Shape, Stamp, current_schema
<1> QED  BY <1>1, <1>2, <1>3

LEMMA InitLock == Init => FileInv /\ AloneInv
<1> SUFFICES ASSUME Init PROVE FileInv /\ AloneInv
  OBVIOUS
<1>1. PICK v \in Files :
        /\ tables = [t \in Tables |-> IF t \in Made(v) THEN "rows" ELSE "absent"]
        /\ versions = IF v < 2 THEN {} ELSE {v}
  BY DEF Init
<1>2. v \in 0 .. 4
  BY StateFileAssumption DEF Newer, current_schema
<1>3. \A t \in Tables : Exists(t) <=> t \in Made(v)
  BY <1>1 DEF Exists
<1>4. Halfway(v, 1)
  BY <1>2, <1>3 DEF Halfway, Made, Tables, Schema, OldTables
<1>5. versions = Stamp(v, 1)
  BY <1>1, <1>2 DEF Stamp
<1>6. Steady
  BY <1>2, <1>4, <1>5 DEF Steady, Shape
<1>7. \A p \in Process : FileOK(p)
  BY DEF Init, FileOK, Opening
<1>8. \A p \in Process : AloneOK(p)
  BY DEF Init, AloneOK, Over
<1> QED  BY <1>6, <1>7, <1>8 DEF FileInv, AloneInv

LEMMA NextAlone == TypeOK /\ AloneInv /\ [Next]_vars => AloneInv'
<1> SUFFICES ASSUME TypeOK, AloneInv, [Next]_vars, locked' PROVE \A q \in Process : AloneOK(q)'
  BY DEF AloneInv
<1>0. locked /\ \A q \in Process : AloneOK(q)
  BY DEF AloneInv, Next, vars, Begin, Connect, Busy, Breaks, Check, Fetch, Probe,
     Decide, Step, StepFails, Opened, Use, Die
<1>1. CASE UNCHANGED vars
  BY <1>0, <1>1 DEF AloneOK, vars
<1>2. ASSUME NEW p \in Process, Begin(p) PROVE \A q \in Process : AloneOK(q)'
  <2>1. \A q \in Process : pc[q] \in Over
    BY <1>0, <1>2 DEF Begin
  <2> QED  BY <1>0, <1>2, <2>1 DEF TypeOK, AloneOK, Begin, Goes, Over
<1>3. ASSUME NEW p \in Process, pc[p] \notin Over, pc' = [pc EXCEPT ![p] = pc'[p]],
             pc'[p] \notin {"idle", "connecting"},
             access' = [access EXCEPT ![p] = access'[p]],
             pc'[p] \notin Over => access'[p] # "bare",
             at' = [at EXCEPT ![p] = at'[p]]
      PROVE  \A q \in Process : AloneOK(q)'
  <2>1. \A q \in Process \ {p} :
          pc[q] \in Over /\ pc'[q] = pc[q] /\ at'[q] = at[q] /\ AloneOK(q)
    BY <1>0, <1>3 DEF TypeOK, AloneOK
  <2>2. ASSUME NEW q \in Process \ {p} PROVE AloneOK(q)'
    BY <2>1, <2>2 DEF AloneOK, Over
  <2>3. AloneOK(p)'
    BY <1>3, <2>1 DEF AloneOK
  <2> QED  BY <2>2, <2>3
<1>4. ASSUME NEW p \in Process, Connect(p) PROVE \A q \in Process : AloneOK(q)'
  BY <1>3, <1>4 DEF TypeOK, Connect, Goes, Over
<1>5. ASSUME NEW p \in Process PROVE ~ Busy(p)
  BY <1>0, <1>5 DEF AloneOK, Busy, Goes, Over
<1>6. ASSUME NEW p \in Process, access[p] # "bare" \/ pc'[p] \in Over,
             access' = access, pc[p] \notin Over, pc' = [pc EXCEPT ![p] = pc'[p]],
             pc'[p] \notin {"idle", "connecting"}, at' = [at EXCEPT ![p] = at'[p]]
      PROVE  \A q \in Process : AloneOK(q)'
  BY <1>3, <1>6 DEF TypeOK
<1>7. ASSUME NEW p \in Process, Breaks(p) \/ Die(p) PROVE \A q \in Process : AloneOK(q)'
  <2>1. pc[p] \notin Over /\ pc'[p] \in {"failed", "dead"} /\ pc' = [pc EXCEPT ![p] = pc'[p]]
    BY <1>7 DEF TypeOK, Breaks, Die, Goes, Over, Opening
  <2>2. access' = access /\ at' = at
    BY <1>7 DEF Breaks, Die
  <2> QED  BY <1>6, <2>1, <2>2 DEF TypeOK, Over
<1>8. ASSUME NEW p \in Process, Check(p) \/ Fetch(p) \/ Probe(p) \/ Decide(p)
        PROVE \A q \in Process : AloneOK(q)'
  <2>1. /\ pc[p] \in {"checking", "fetching", "probing", "deciding"}
        /\ pc'[p] \notin {"idle", "connecting"} /\ pc' = [pc EXCEPT ![p] = pc'[p]]
    BY <1>8 DEF TypeOK, Check, Fetch, Probe, Decide, Goes
  <2>2. access' = access /\ at' = at
    BY <1>8 DEF Check, Fetch, Probe, Decide
  <2>3. pc[p] \notin Over /\ access[p] # "bare"
    BY <1>0, <2>1 DEF AloneOK, Over
  <2> QED  BY <1>6, <2>1, <2>2, <2>3 DEF TypeOK
<1>9. ASSUME NEW p \in Process, Step(p) \/ StepFails(p) \/ Opened(p) \/ Use(p)
        PROVE \A q \in Process : AloneOK(q)'
  <2>1. /\ pc[p] \in {"upgrading", "open"}
        /\ pc'[p] \notin {"idle", "connecting"} /\ pc' = [pc EXCEPT ![p] = pc'[p]]
    BY <1>9 DEF TypeOK, Step, StepFails, Opened, Use, Goes
  <2>2. access' = access /\ at' = [at EXCEPT ![p] = at'[p]]
    BY <1>9 DEF TypeOK, Step, StepFails, Opened, Use
  <2>3. pc[p] \notin Over /\ access[p] # "bare"
    BY <1>0, <2>1 DEF AloneOK, Over
  <2> QED  BY <1>6, <2>1, <2>2, <2>3
<1> QED  BY <1>1, <1>2, <1>4, <1>5, <1>7, <1>8, <1>9 DEF Next

(* What a step that leaves the file alone leaves of its shape. *)
LEMMA SameShape ==
  ASSUME UNCHANGED fileVars
  PROVE  /\ \A v, i : Shape(v, i) <=> Shape(v, i)'
         /\ Steady <=> Steady'
         /\ \A t : Exists(t) <=> Exists(t)'
BY DEF fileVars, Shape, Halfway, Stamp, Steady, Exists

LEMMA SteadyVersion ==
  ASSUME NEW v \in 0 .. 4, Shape(v, 1)
  PROVE  /\ Exists("SchemaVersion") <=> v > 1
         /\ Exists("Deployments") <=> v > 0
         /\ v > 1 => versions = {v}
BY DEF Shape, Halfway, Stamp

LEMMA NextFile == TypeOK /\ AloneInv /\ FileInv /\ [Next]_vars => FileInv'
<1> SUFFICES ASSUME TypeOK, AloneInv, FileInv, [Next]_vars, locked', ~ killed'
             PROVE  /\ (\A q \in Process : pc'[q] # "upgrading") => Steady'
                    /\ \A q \in Process : FileOK(q)'
  BY DEF FileInv
<1> DEFINE Goal == /\ (\A q \in Process : pc'[q] # "upgrading") => Steady'
                   /\ \A q \in Process : FileOK(q)'
<1>0. locked /\ ~ killed
  BY DEF TypeOK, Next, vars, Begin, Connect, Busy, Breaks, Check, Fetch, Probe, Decide,
     Step, StepFails, Opened, Use, Die
<1>1. /\ (\A q \in Process : pc[q] # "upgrading") => Steady
      /\ \A q \in Process : FileOK(q) /\ AloneOK(q)
  BY <1>0 DEF FileInv, AloneInv
<1>2. CASE UNCHANGED vars
  BY <1>1, <1>2, SameShape DEF vars, fileVars, FileOK
<1>3. ASSUME NEW p \in Process, Begin(p) PROVE Goal
  <2>1. \A q \in Process : pc[q] \in Over /\ at[p] = 1
    BY <1>0, <1>1, <1>3 DEF Begin, Goes, AloneOK
  <2>2. Steady
    BY <1>1, <2>1 DEF Over
  <2>3. \A q \in Process : pc'[q] \in Over \cup {"connecting"} /\ (q # p => pc'[q] \in Over)
    BY <1>3, <2>1 DEF TypeOK, Begin, Goes
  <2> QED  BY <1>3, <2>1, <2>2, <2>3, SameShape DEF Begin, FileOK, Over, Opening
\* Any other step is of the one process that is not over.
<1>4. ASSUME NEW p \in Process, pc[p] \notin Over, pc' = [pc EXCEPT ![p] = pc'[p]],
             pc'[p] # "upgrading" => Steady', FileOK(p)'
      PROVE  Goal
  <2>1. \A q \in Process \ {p} : pc'[q] \in Over
    BY <1>1, <1>4 DEF TypeOK, AloneOK
  <2>2. \A q \in Process \ {p} : FileOK(q)'
    BY <2>1 DEF FileOK, Over, Opening
  <2> QED  BY <1>4, <2>1, <2>2 DEF Over
<1>5. ASSUME NEW p \in Process, pc[p] \in Opening \cup {"open"} PROVE
        /\ pc[p] \notin Over
        /\ pc[p] # "upgrading" => Steady
  BY <1>1, <1>5 DEF AloneOK, Over, Opening
<1>6. ASSUME NEW p \in Process, Connect(p) PROVE Goal
  <2>1. pc[p] = "connecting" /\ pc'[p] = "checking" /\ pc' = [pc EXCEPT ![p] = pc'[p]]
    BY <1>6 DEF TypeOK, Connect, Goes
  <2>2. at'[p] = 1 /\ UNCHANGED fileVars
    BY <1>1, <1>6, <2>1 DEF AloneOK, Connect
  <2>3. FileOK(p)'
    BY <2>1, <2>2 DEF FileOK
  <2> QED  BY <1>4, <1>5, <2>1, <2>2, <2>3, SameShape DEF Opening
<1>7. ASSUME NEW p \in Process PROVE ~ Busy(p) /\ ~ Breaks(p)
  BY <1>1, <1>7 DEF AloneOK, Busy, Breaks, Goes, Over
<1>8. ASSUME NEW p \in Process, Check(p) PROVE Goal
  <2>1. pc[p] = "checking" /\ pc' = [pc EXCEPT ![p] = pc'[p]]
        /\ pc'[p] = (IF Exists("SchemaVersion") THEN "fetching" ELSE "probing")
    BY <1>8 DEF TypeOK, Check, Goes
  <2>2. at'[p] = 1 /\ UNCHANGED fileVars
    BY <1>1, <1>8, <2>1 DEF FileOK, Check, Opening
  <2>3. FileOK(p)'
    BY <2>1, <2>2, SameShape DEF FileOK
  <2> QED  BY <1>4, <1>5, <2>1, <2>2, <2>3, SameShape DEF Opening
<1>9. ASSUME NEW p \in Process, pc[p] \in {"fetching", "probing"} PROVE
        /\ Steady /\ at[p] = 1 /\ pc[p] \notin Over
        /\ pc[p] = "fetching" => Exists("SchemaVersion")
        /\ pc[p] = "probing" => ~ Exists("SchemaVersion")
  BY <1>1, <1>5, <1>9 DEF FileOK, Opening
<1>10. ASSUME NEW p \in Process, Fetch(p) PROVE Goal
  <2>1. pc[p] = "fetching" /\ UNCHANGED fileVars /\ at' = at
    BY <1>10 DEF Fetch, Goes
  <2>2. PICK v \in 0 .. 4 : Shape(v, 1) /\ v > 1 /\ versions = {v}
    BY <1>9, <2>1, SteadyVersion DEF Steady
  <2>3. seen'[p] = v /\ pc'[p] = "deciding" /\ pc' = [pc EXCEPT ![p] = pc'[p]]
    BY <1>10, <2>2 DEF TypeOK, Fetch, Goes
  <2>4. Shape(seen[p], 1)' /\ at'[p] = 1
    BY <1>9, <2>1, <2>2, <2>3, SameShape
  <2>5. FileOK(p)'
    BY <2>3, <2>4 DEF FileOK
  <2> QED  BY <1>4, <1>9, <2>1, <2>3, <2>5, SameShape
<1>11. ASSUME NEW p \in Process, Probe(p) PROVE Goal
  <2>1. pc[p] = "probing" /\ UNCHANGED fileVars /\ at' = at
        /\ pc'[p] = "deciding" /\ pc' = [pc EXCEPT ![p] = pc'[p]]
        /\ seen'[p] = (IF Exists("Deployments") THEN 1 ELSE 0)
    BY <1>11 DEF TypeOK, Probe, Goes
  <2>2. PICK v \in 0 .. 4 : Shape(v, 1) /\ ~ (v > 1) /\ (Exists("Deployments") <=> v > 0)
    BY <1>9, <2>1, SteadyVersion DEF Steady
  <2>3. seen'[p] = v
    BY <2>1, <2>2
  <2>4. Shape(seen[p], 1)' /\ at'[p] = 1
    BY <1>9, <2>1, <2>2, <2>3, SameShape
  <2>5. FileOK(p)'
    BY <2>1, <2>4 DEF FileOK
  <2> QED  BY <1>4, <1>9, <2>1, <2>5, SameShape
<1>12. ASSUME NEW p \in Process, Decide(p) PROVE Goal
  <2>1. pc[p] = "deciding" /\ UNCHANGED fileVars /\ at' = at /\ seen' = seen
        /\ pc' = [pc EXCEPT ![p] = pc'[p]]
    BY <1>12 DEF TypeOK, Decide, Goes
  <2>2. Shape(seen[p], 1) /\ at[p] = 1 /\ seen[p] \in 0 .. 4
    BY <1>1, <2>1 DEF TypeOK, FileOK, Opening, Newer, current_schema
  <2>3. \/ seen[p] = current_schema /\ pc'[p] = "open"
        \/ pc'[p] = "failed"
        \/ seen[p] \in 0 .. 2 /\ pc'[p] = "upgrading"
    BY <1>12, <2>2 DEF TypeOK, Decide, Goes, TooNew, current_schema
  <2>4. Shape(seen[p], 1)' /\ at'[p] = 1 /\ seen'[p] = seen[p]
    BY <2>1, <2>2, SameShape
  <2>5. FileOK(p)'
    BY <2>3, <2>4 DEF FileOK, Opening
  <2> QED  BY <1>4, <1>5, <2>1, <2>5, SameShape DEF Opening
<1>13. ASSUME NEW p \in Process, pc[p] = "upgrading" PROVE
         /\ seen[p] \in 0 .. 2 /\ at[p] \in 1 .. 7 /\ Shape(seen[p], at[p])
         /\ pc[p] \notin Over
  BY <1>1, <1>5, <1>13 DEF TypeOK, FileOK, Opening
<1>14. ASSUME NEW p \in Process, Step(p) PROVE Goal
  <2>1. pc[p] = "upgrading" /\ pc' = pc /\ seen' = seen /\ at'[p] = at[p] + 1
        /\ ~ (at[p] > Len(Program(seen[p]))) /\ Execute(Program(seen[p])[at[p]])
    BY <1>14 DEF TypeOK, Step, Executed, Statement
  <2>2. ASSUME NEW v \in 0 .. 2, NEW i \in 1 .. 7, v = seen[p], i = at[p]
        PROVE  Shape(v, i + 1)'
    <3>1. Shape(v, i) /\ ~ (i > Len(Program(v))) /\ Execute(Program(v)[i])
      BY <1>13, <2>1, <2>2
    <3> QED  BY <3>1, StepShape
  <2>3. Shape(seen[p], at[p])'
    BY <1>13, <2>1, <2>2
  <2>4. FileOK(p)'
    BY <1>13, <2>1, <2>3 DEF FileOK, Opening
  <2>5. pc' = [pc EXCEPT ![p] = pc'[p]] /\ pc'[p] = "upgrading"
    BY <2>1 DEF TypeOK
  <2> QED  BY <1>4, <1>13, <2>1, <2>4, <2>5
<1>15. ASSUME NEW p \in Process PROVE ~ StepFails(p)
  <2>1. \A v, i : v = seen[p] /\ i = at[p] /\ v \in 0 .. 2 /\ i \in 1 .. 7
                  /\ Shape(v, i) /\ ~ (i > Len(Program(v))) => Possible(Program(v)[i])
    BY StepShape
  <2> QED  BY <1>13, <2>1 DEF StepFails, Goes, Executed, Statement
<1>16. ASSUME NEW p \in Process, Opened(p) PROVE Goal
  <2>1. pc[p] = "upgrading" /\ pc'[p] = "open" /\ pc' = [pc EXCEPT ![p] = pc'[p]]
        /\ UNCHANGED fileVars /\ at[p] > Len(Program(seen[p]))
    BY <1>16 DEF TypeOK, Opened, Goes, Executed
  <2>2. Shape(current_schema, 1)
    BY <1>13, <2>1, ProgramCompletes
  <2>3. Steady' /\ Shape(current_schema, 1)'
    BY <2>1, <2>2, SameShape DEF Steady, current_schema
  <2>4. FileOK(p)'
    BY <2>1, <2>3 DEF FileOK, Opening
  <2> QED  BY <1>4, <1>13, <2>1, <2>3, <2>4
<1>17. ASSUME NEW p \in Process, pc[p] = "open", pc' = [pc EXCEPT ![p] = pc'[p]],
              pc'[p] \in Over, \A t \in Tables : Exists(t) <=> Exists(t)',
              versions' = versions
       PROVE  Goal
  <2>1. Steady
    BY <1>5, <1>17
  <2>2. Steady'
    BY <1>17, <2>1 DEF Steady, Shape, Halfway, Stamp, Tables, Schema, OldTables
  <2>3. FileOK(p)'
    BY <1>17 DEF FileOK, Over, Opening
  <2> QED  BY <1>4, <1>5, <1>17, <2>2, <2>3
<1>18. ASSUME NEW p \in Process, Use(p) PROVE Goal
  <2>1. pc[p] = "open" /\ pc'[p] \in Over /\ pc' = [pc EXCEPT ![p] = pc'[p]]
        /\ versions' = versions
    BY <1>18 DEF TypeOK, Use, Goes, Over
  <2>2. \A t \in Tables : Exists(t) <=> Exists(t)'
    BY <1>18 DEF TypeOK, Use, Exists, Tables
  <2> QED  BY <1>17, <2>1, <2>2
<1>19. ASSUME NEW p \in Process, Die(p) PROVE Goal
  <2>1. pc[p] = "open" /\ pc'[p] \in Over /\ pc' = [pc EXCEPT ![p] = pc'[p]]
        /\ versions' = versions /\ tables' = tables
    BY <1>19 DEF TypeOK, Die, Goes, Over, fileVars
  <2> QED  BY <1>17, <2>1 DEF Exists
<1> QED
  BY <1>2, <1>3, <1>6, <1>7, <1>8, <1>10, <1>11, <1>12, <1>14, <1>15, <1>16, <1>18,
     <1>19 DEF Next

(* Under the lock every open file has the whole current schema, whatever
   version it came from, unless an upgrade was cut off before, and whoever may
   write to it enforces its foreign keys. *)
THEOREM OpenedIsComplete == Spec => []OpenMeansComplete
<1>1. AloneInv /\ FileInv => OpenMeansComplete
  <2> SUFFICES ASSUME AloneInv, FileInv, locked, NEW p \in Process, pc[p] = "open"
               PROVE  access[p] # "bare" /\ (killed \/ Complete)
    BY DEF OpenMeansComplete
  <2>1. access[p] # "bare"
    BY DEF AloneInv, AloneOK, Over
  <2>2. CASE ~ killed
    <3>1. Shape(current_schema, 1)
      BY <2>2 DEF FileInv, FileOK
    <3>2. Halfway(current_schema, 1) /\ versions = {current_schema}
      BY <3>1 DEF Shape, Stamp, current_schema
    <3>3. \A t \in Schema : Exists(t)
      BY <3>2 DEF Halfway, Schema, current_schema
    <3>4. \A t \in OldTables : ~ Exists(t)
      BY <3>2 DEF Halfway, OldTables, current_schema
    <3> QED  BY <2>1, <3>2, <3>3, <3>4 DEF Complete
  <2> QED  BY <2>1, <2>2
<1> QED  BY <1>1, TypeCorrect, InitLock, NextAlone, NextFile, PTL DEF Spec
-----------------------------------------------------------------------------
(***************************************************************************)
(* Without the lock any number of processes upgrade one file.  RaceInv     *)
(* says, for each version the file can come in, how far they have brought  *)
(* it between them: the number of statements a process has executed        *)
(* (at[p] - 1) stays when it has ended, so that it tells who has done what.*)
(***************************************************************************)
\* Where a process is, whatever the file.
PathOK(p) ==
  /\ pc[p] \in {"idle", "connecting", "checking", "fetching", "probing"} => seen[p] = 0
  /\ pc[p] \in Opening \cup {"idle"} => at[p] = 1 \/ pc[p] = "upgrading"
  /\ pc[p] = "upgrading" => seen[p] \in 0 .. 2
  /\ pc[p] \in {"open", "ended"} => seen[p] = current_schema \/ Executed(p)

\* No file: whoever finds no Deployments creates every table, and no statement
\* of its is refused; who finds some, or the version, comes after one of those.
FreshOK(p) ==
  /\ seen[p] \in {0, 1, current_schema}
  /\ seen[p] = 0 =>
       /\ at[p] > 1 => Exists("SchemaVersion")
       /\ at[p] > 2 => current_schema \in versions
       /\ at[p] > 3 => Exists("Deployments")
       /\ at[p] > 4 => Exists("DeploymentAttrs")
       /\ at[p] > 5 => Exists("Resources")
       /\ at[p] > 6 => Exists("ResourceAttrs")
       /\ at[p] > 1 /\ pc[p] \notin Opening => at[p] > 6
  /\ seen[p] = 1 => Exists("Deployments") /\ at[p] < 4
  /\ seen[p] = current_schema => current_schema \in versions /\ at[p] = 1

Fresh ==
  /\ \A t \in OldTables : ~ Exists(t)
  /\ versions \subseteq {current_schema}
  /\ \A p \in Process : FreshOK(p)
  /\ versions # {} \/ Exists("Deployments") => \E p \in Process : seen[p] = 0 /\ at[p] > 2

\* One process alone gets past the first renaming, the k-th statement, and it
\* executes the rest.
Renaming(k) ==
  \/ /\ Exists("Machines") /\ ~ Exists("Resources")
     /\ Exists("MachineAttrs") /\ ~ Exists("ResourceAttrs")
     /\ \A p \in Process : at[p] <= k
  \/ /\ ~ Exists("Machines") /\ Exists("Resources")
     /\ \E w \in Process :
          /\ at[w] > k /\ \A p \in Process \ {w} : at[p] <= k
          /\ at[w] = k + 1 => Exists("MachineAttrs") /\ ~ Exists("ResourceAttrs")
          /\ at[w] > k + 1 => ~ Exists("MachineAttrs") /\ Exists("ResourceAttrs")

\* A file of version 1, which has no SchemaVersion.
FirstOK(p) ==
  /\ seen[p] \in {0, 1, current_schema}
  /\ pc[p] \in {"deciding", "upgrading", "open", "ended"} => seen[p] # 0
  /\ at[p] > 1 => seen[p] = 1 /\ Exists("SchemaVersion")
  /\ at[p] > 2 => current_schema \in versions
  /\ seen[p] = current_schema => current_schema \in versions
  /\ at[p] > 1 /\ pc[p] \notin Opening => at[p] > 5 \/ (at[p] = 3 /\ ~ Exists("Machines"))

First ==
  /\ Exists("Deployments") /\ Exists("DeploymentAttrs")
  /\ versions \subseteq {current_schema}
  /\ \A p \in Process : FirstOK(p)
  /\ versions # {} => \E p \in Process : at[p] > 2
  /\ Renaming(3)

\* A file of version 2.
SecondOK(p) ==
  /\ pc[p] # "probing"
  /\ seen[p] \in {0, 2, current_schema}
  /\ pc[p] \in {"deciding", "upgrading", "open", "ended"} => seen[p] # 0
  /\ at[p] > 1 => seen[p] = 2
  /\ seen[p] = current_schema \/ at[p] > 3 => versions = {current_schema}
  /\ at[p] > 1 /\ pc[p] \notin Opening => at[p] > 3

Second ==
  /\ Exists("Deployments") /\ Exists("DeploymentAttrs") /\ Exists("SchemaVersion")
  /\ versions \in {{2}, {current_schema}}
  /\ \A p \in Process : SecondOK(p)
  /\ versions = {current_schema} => \E p \in Process : at[p] > 3
  /\ Renaming(1)

\* A file of the current version, and a later one.
ThirdOK(p) == /\ pc[p] \notin {"probing", "upgrading"}
              /\ pc[p] = "deciding" => seen[p] = current_schema

Third == Complete /\ \A p \in Process : ThirdOK(p)

LaterOK(p) == /\ pc[p] \notin {"probing", "upgrading", "open", "ended"}
              /\ pc[p] = "deciding" => seen[p] = Newer

Later == /\ Exists("SchemaVersion") /\ versions = {Newer}
         /\ \A p \in Process : LaterOK(p)

PathInv == \A p \in Process : PathOK(p)

RaceInv == ~ killed => PathInv /\ (Fresh \/ First \/ Second \/ Third \/ Later)

\* What a step is: one process executes a statement, or goes on while the file
\* keeps the tables and the versions it has.
SameFile == /\ \A t \in Tables : Exists(t)' <=> Exists(t)
            /\ UNCHANGED <<versions, at>>

Alone(p) == /\ \A q \in Process \ {p} : pc'[q] = pc[q] /\ seen'[q] = seen[q] /\ at'[q] = at[q]
            /\ at'[p] \in Nat

Moves(p) ==
  \/ /\ seen'[p] = seen[p]
     /\ \/ pc[p] = "idle" /\ pc'[p] = "connecting"
        \/ pc[p] = "connecting" /\ pc'[p] \in {"connecting", "checking"}
        \/ pc[p] = "checking" /\ pc'[p] = "fetching" /\ Exists("SchemaVersion")
        \/ pc[p] = "checking" /\ pc'[p] = "probing" /\ ~ Exists("SchemaVersion")
        \/ pc[p] = "fetching" /\ pc'[p] = "failed"
        \/ pc[p] = "deciding" /\ pc'[p] = "open" /\ seen[p] = current_schema
        \/ pc[p] = "deciding" /\ pc'[p] = "failed"
        \/ pc[p] = "deciding" /\ pc'[p] = "upgrading" /\ seen[p] \in 0 .. 2
        \/ pc[p] = "upgrading" /\ pc'[p] = "failed" /\ ~ Executed(p) /\ ~ Possible(Statement(p))
        \/ pc[p] = "upgrading" /\ pc'[p] = "open" /\ Executed(p)
        \/ pc[p] = "open" /\ pc'[p] \in {"ended", "failed", "dead"}
  \/ pc[p] = "fetching" /\ pc'[p] = "deciding" /\ seen'[p] \in versions
  \/ pc[p] = "probing" /\ pc'[p] = "deciding" /\ seen'[p] = IF Exists("Deployments") THEN 1 ELSE 0

Advances(p) ==
  /\ pc[p] = "upgrading" /\ pc'[p] = "upgrading" /\ seen'[p] = seen[p] /\ at'[p] = at[p] + 1
  /\ ~ Executed(p) /\ Possible(Statement(p)) /\ Execute(Statement(p))

LEMMA RaceSteps ==
  ASSUME TypeOK, Next, ~ killed'
  PROVE  ~ killed /\ \E p \in Process : Alone(p) /\ (Advances(p) \/ (SameFile /\ Moves(p)))
<1>1. PICK p \in Process :
        \/ Begin(p) \/ Connect(p) \/ Busy(p) \/ Breaks(p) \/ Check(p) \/ Fetch(p)
        \/ Probe(p) \/ Decide(p) \/ Step(p) \/ StepFails(p) \/ Opened(p) \/ Use(p)
        \/ Die(p)
  BY DEF Next
<1> USE DEF TypeOK
<1> at[p] \in Nat /\ at[p] + 1 \in Nat
  OBVIOUS
<1>2. ~ killed
  BY <1>1 DEF Begin, Connect, Busy, Breaks, Check, Fetch, Probe, Decide, Step, StepFails, Opened,
              Use, Die
<1>3. UNCHANGED fileVars => \A t \in Tables : Exists(t)' <=> Exists(t)
  BY DEF fileVars, Exists
<1>4. CASE Begin(p) \/ Connect(p) \/ Busy(p)
  BY <1>3, <1>4 DEF Begin, Connect, Busy, Goes, Alone, SameFile, Moves, fileVars
<1>5. CASE Check(p)
  BY <1>2, <1>3, <1>5 DEF Check, Goes, Alone, SameFile, Moves, fileVars
<1>6. CASE Fetch(p)
  <2>1. Alone(p) /\ SameFile
    BY <1>3, <1>6 DEF Fetch, Goes, Alone, SameFile, fileVars
  <2>2. Moves(p)
    BY <1>6 DEF Fetch, Goes, Moves
  <2> QED BY <1>2, <2>1, <2>2
<1>7. CASE Probe(p)
  BY <1>2, <1>3, <1>7 DEF Probe, Goes, Alone, SameFile, Moves, fileVars
<1>8. CASE Decide(p)
  <2>1. Alone(p) /\ SameFile
    BY <1>3, <1>8 DEF Decide, Goes, Alone, SameFile, fileVars
  <2>2. seen[p] # current_schema /\ ~ TooNew(p) => seen[p] \in 0 .. 2
    BY DEF TooNew, Newer, current_schema
  <2>3. Moves(p)
    BY <1>8, <2>2 DEF Decide, Goes, Moves
  <2> QED BY <1>2, <2>1, <2>3
<1>9. CASE Step(p)
  BY <1>2, <1>9 DEF Step, Alone, Advances
<1>10. CASE StepFails(p) \/ Opened(p)
  BY <1>2, <1>3, <1>10 DEF StepFails, Opened, Goes, Alone, SameFile, Moves, fileVars
<1>11. CASE Use(p)
  <2>1. \A t \in Tables : Exists(t)' <=> Exists(t)
    BY <1>11 DEF Use, Exists, Tables
  <2> QED BY <1>2, <1>11, <2>1 DEF Use, Goes, Alone, SameFile, Moves
<1>12. CASE Die(p)
  BY <1>2, <1>3, <1>12 DEF Die, Goes, Alone, SameFile, Moves, fileVars, Opening
<1>13. ~ Breaks(p)
  BY DEF Breaks
<1> QED BY <1>1, <1>4, <1>5, <1>6, <1>7, <1>8, <1>9, <1>10, <1>11, <1>12, <1>13

LEMMA PathKept ==
  ASSUME TypeOK, PathInv, NEW p \in Process, Alone(p),
         Advances(p) \/ (SameFile /\ Moves(p))
  PROVE  PathInv'
<1>1. \A q \in Process \ {p} : PathOK(q)'
  BY DEF PathInv, PathOK, Alone, Executed
<1>2. PathOK(p)
  BY DEF PathInv
<1>3. ASSUME Advances(p) PROVE PathOK(p)'
  BY <1>2, <1>3 DEF PathOK, Advances
<1>4. ASSUME SameFile, Moves(p) PROVE PathOK(p)'
  <2>1. at'[p] = at[p]
    BY <1>4 DEF SameFile
  <2>2. Executed(p) /\ seen'[p] = seen[p] => Executed(p)'
    BY <2>1 DEF Executed
  <2>3. CASE pc[p] \in {"fetching", "probing"}
    BY <1>2, <1>4, <2>1, <2>3 DEF PathOK, Moves, Opening
  <2>4. CASE pc[p] \notin {"fetching", "probing"}
    BY <1>2, <1>4, <2>1, <2>2, <2>4 DEF PathOK, Moves, Opening
  <2> QED BY <2>3, <2>4
<1> QED BY <1>1, <1>3, <1>4 DEF PathInv

\* What a statement does to the tables there are.
LEMMA Grows ==
  ASSUME TypeOK, NEW s, NEW t \in Schema, s = Create(t) \/ (s = Insert /\ t = "SchemaVersion"),
         Execute(s)
  PROVE  /\ \A u \in Tables : Exists(u)' <=> Exists(u) \/ u = t
         /\ s = Create(t) => versions' = versions
         /\ s = Insert => versions' = versions \cup {current_schema}
         /\ s # Update
BY DEF TypeOK, Execute, Create, Insert, Update, Kept, Exists, Tables

LEMMA RenameMoves ==
  ASSUME TypeOK, NEW t \in Tables, NEW u \in Tables, t # u, Execute(Rename(t, u)),
         Possible(Rename(t, u))
  PROVE  /\ Exists(t) /\ ~ Exists(u) /\ ~ Exists(t)' /\ Exists(u)'
         /\ \A o \in Tables \ {t, u} : Exists(o)' <=> Exists(o)
         /\ versions' = versions
BY DEF TypeOK, Execute, Rename, Possible, Exists

LEMMA Updates ==
  ASSUME TypeOK, Execute(Update)
  PROVE  /\ \A o \in Tables : Exists(o)' <=> Exists(o)
         /\ versions # {} => versions' = {current_schema}
BY DEF Execute, Update, Exists

LEMMA NeverRefused ==
  Possible(Insert) /\ Possible(Update) /\ \A t : Possible(Create(t))
BY DEF Possible, Insert, Update, Create

\* A file there was not.
LEMMA FreshKept ==
  ASSUME TypeOK, PathInv, Fresh, NEW p \in Process, Alone(p),
         Advances(p) \/ (SameFile /\ Moves(p))
  PROVE  Fresh'
<1> {"SchemaVersion", "Deployments", "DeploymentAttrs", "Resources", "ResourceAttrs", "Machines",
     "MachineAttrs"} \subseteq Tables
  BY DEF Tables, Schema, OldTables
<1>1. FreshOK(p) /\ PathOK(p) /\ at[p] \in 1 .. 7
  BY DEF Fresh, PathInv, TypeOK
<1>2. CASE SameFile /\ Moves(p)
  <2>1. at' = at /\ versions' = versions /\ \A t \in Tables : Exists(t)' <=> Exists(t)
    BY <1>2 DEF SameFile
  <2>2. \A q \in Process \ {p} : FreshOK(q)'
    BY <2>1 DEF Fresh, FreshOK, Alone
  <2>3. pc[p] = "upgrading" /\ seen[p] = 0 /\ pc'[p] \notin Opening => at[p] > 6
    <3>1. ASSUME seen[p] = 0, ~ Executed(p) PROVE Possible(Statement(p))
      <4>1. at[p] = 1 \/ at[p] = 2 \/ at[p] = 3 \/ at[p] = 4 \/ at[p] = 5 \/ at[p] = 6
        <5>1. Len(Program(seen[p])) = 6
          BY <3>1, CreateProgram
        <5>2. at[p] \in 1 .. 6
          <6>1. ~ (at[p] > Len(Program(seen[p])))
            BY <3>1 DEF Executed
          <6>2. ~ (at[p] > 6)
            BY <5>1, <6>1, Zenon
          <6> QED BY <1>1, <6>2
        <5> QED BY <5>2
      <4> QED BY <3>1, <4>1, CreateProgram, NeverRefused DEF Statement
    <3>2. seen[p] = 0 /\ Executed(p) => at[p] > 6
      BY CreateProgram DEF Executed
    <3> QED BY <1>2, <3>1, <3>2 DEF Moves, Opening
  <2>a. ASSUME FreshOK(p)', seen[p] = 0 /\ at[p] > 2 => seen'[p] = 0 PROVE Fresh'
    <3>1. \A t \in OldTables : ~ Exists(t)'
      BY <2>1 DEF Fresh, Tables
    <3>2. (versions # {} \/ Exists("Deployments"))'
            => \E q \in Process : seen'[q] = 0 /\ at'[q] > 2
      BY <2>1, <2>a DEF Fresh, Alone
    <3> QED BY <2>1, <2>2, <2>a, <3>1, <3>2 DEF Fresh
  <2>4. CASE seen'[p] = seen[p]
    <3>1. pc[p] \notin Opening => pc'[p] \notin Opening \/ at[p] = 1
      BY <1>1, <1>2 DEF Moves, PathOK, Opening
    <3>2. pc[p] \in Opening \ {"upgrading"} => at[p] = 1
      BY <1>1 DEF PathOK
    <3>3. FreshOK(p)'
      BY <1>1, <2>1, <2>3, <2>4, <3>1, <3>2 DEF FreshOK
    <3> QED BY <2>4, <2>a, <3>3
  <2>5. CASE seen'[p] # seen[p]
    <3>1. pc[p] \in {"fetching", "probing"} /\ pc'[p] = "deciding" /\ at[p] = 1
      BY <1>1, <1>2, <2>5 DEF Moves, PathOK, Opening
    <3>2. \/ seen'[p] = current_schema /\ current_schema \in versions
          \/ seen'[p] = 1 /\ Exists("Deployments")
          \/ seen'[p] = 0
      BY <1>2, <2>5, <3>1 DEF Moves, Fresh
    <3>3. FreshOK(p)'
      BY <2>1, <3>1, <3>2 DEF FreshOK, Opening, current_schema
    <3> QED BY <2>a, <3>1, <3>3
  <2> QED BY <2>4, <2>5
<1>3. CASE Advances(p)
  <2>1. seen[p] \in {0, 1} /\ seen'[p] = seen[p] /\ at'[p] = at[p] + 1 /\ pc'[p] \in Opening
        /\ ~ Executed(p) /\ Possible(Statement(p)) /\ Execute(Statement(p))
    BY <1>1, <1>3 DEF Advances, PathOK, FreshOK, Opening, current_schema
  \* The statement and its table.
  <2> DEFINE s == Statement(p)
             Makes(t) == s = Create(t) \/ (s = Insert /\ t = "SchemaVersion")
  <2>2. /\ at[p] = 1 => s = Create("SchemaVersion")
        /\ at[p] = 2 => s = Insert
        /\ at[p] > 2 => seen[p] = 0
        /\ at[p] = 3 => s = Create("Deployments")
        /\ at[p] = 4 => s = Create("DeploymentAttrs")
        /\ at[p] = 5 => s = Create("Resources")
        /\ at[p] = 6 => s = Create("ResourceAttrs")
        /\ at[p] \in 1 .. 6
    <3>1. CASE seen[p] = 0
      BY <1>1, <2>1, <3>1, CreateProgram DEF Statement, Executed
    <3>2. CASE seen[p] = 1
      <4>1. at[p] # 3
        BY <2>1, <3>2, UpgradeProgram1 DEF Statement, Possible, Rename, Fresh, OldTables
      <4>2. at[p] = 1 \/ at[p] = 2
        BY <1>1, <3>2, <4>1 DEF FreshOK
      <4> QED BY <3>2, <4>2, UpgradeProgram1 DEF Statement
    <3> QED BY <2>1, <3>1, <3>2
  <2>3. PICK t \in Schema : Makes(t)
    BY <2>2 DEF Schema
  <2> HIDE DEF s
  <2>4. /\ \A u \in Tables : Exists(u)' <=> Exists(u) \/ u = t
        /\ s = Create(t) => versions' = versions
        /\ s = Insert => versions' = versions \cup {current_schema}
    BY <2>1, <2>3, Grows DEF s
  <2>5. versions \subseteq versions' /\ versions' \subseteq {current_schema}
    BY <2>3, <2>4 DEF Fresh
  <2>6. \A q \in Process \ {p} : FreshOK(q)'
    BY <2>4, <2>5 DEF Fresh, FreshOK, Alone
  <2>7. \A u \in OldTables : ~ Exists(u)'
    BY <2>4 DEF Fresh, Schema, OldTables
  <2>8. \A u, w : Create(u) = Create(w) => u = w
    BY DEF Create
  <2>9. \A u : Create(u) # Insert
    BY DEF Create, Insert
  <2>10. /\ at[p] = 1 => t = "SchemaVersion"
         /\ at[p] = 2 => s = Insert
         /\ at[p] = 3 => t = "Deployments"
         /\ at[p] = 4 => t = "DeploymentAttrs"
         /\ at[p] = 5 => t = "Resources"
         /\ at[p] = 6 => t = "ResourceAttrs"
    BY <2>2, <2>3, <2>8, <2>9
  <2>11. FreshOK(p)'
    <3>1. CASE seen[p] = 0
      BY <1>1, <2>1, <2>2, <2>4, <2>5, <2>10, <3>1 DEF FreshOK, current_schema
    <3>2. CASE seen[p] = 1
      <4>1. at[p] < 3 /\ Exists("Deployments")
        BY <1>1, <2>2, <3>2 DEF FreshOK
      <4> QED BY <1>1, <2>1, <2>4, <3>2, <4>1 DEF FreshOK, current_schema
    <3> QED BY <2>1, <3>1, <3>2
  <2>12. versions' # {} \/ Exists("Deployments")'
           => \E q \in Process : seen'[q] = 0 /\ at'[q] > 2
    <3>1. CASE versions # {} \/ Exists("Deployments")
      <4>1. PICK q \in Process : seen[q] = 0 /\ at[q] > 2
        BY <3>1 DEF Fresh
      <4>2. seen'[q] = 0 /\ at'[q] > 2
        BY <1>1, <2>1, <4>1 DEF Alone
      <4> QED BY <4>2
    <3>2. CASE ~ (versions # {} \/ Exists("Deployments"))
      <4>1. seen[p] = 0
        BY <1>1, <2>1, <3>2 DEF FreshOK
      <4>2. versions' # {} \/ Exists("Deployments")' => at[p] \in {2, 3}
        <5>1. versions' # {} => s = Insert
          BY <2>3, <2>4, <3>2
        <5>2. Exists("Deployments")' => s = Create("Deployments")
          BY <2>3, <2>4, <3>2
        <5>3. at[p] = 1 \/ at[p] = 2 \/ at[p] = 3 \/ at[p] = 4 \/ at[p] = 5 \/ at[p] = 6
          BY <2>2
        <5>4. s = Insert => at[p] = 2
          BY <2>2, <2>9, <5>3
        <5>5. s = Create("Deployments") => at[p] = 3
          BY <2>2, <2>8, <2>9, <5>3
        <5> QED BY <5>1, <5>2, <5>4, <5>5
      <4> QED BY <2>1, <4>1, <4>2
    <3> QED BY <3>1, <3>2
  <2> QED BY <2>5, <2>6, <2>7, <2>11, <2>12 DEF Fresh
<1> QED BY <1>2, <1>3

LEMMA FreshCompletes ==
  ASSUME TypeOK, PathInv, Fresh, \A p \in Process : pc[p] \notin Opening,
         NEW p \in Process, pc[p] \in {"open", "ended"}
  PROVE  Complete
<1>1. FreshOK(p) /\ PathOK(p) /\ at[p] \in 1 .. 7
  BY DEF Fresh, PathInv, TypeOK
<1>2. current_schema \in versions
  <2>1. CASE seen[p] = current_schema
    BY <1>1, <2>1 DEF FreshOK
  <2>2. CASE Executed(p)
    <3>1. seen[p] # 1
      BY <1>1, <2>2, UpgradeProgram1 DEF Executed, FreshOK
    <3>2. seen[p] = 0 => at[p] > 6
      BY <2>2, CreateProgram DEF Executed
    <3> QED BY <1>1, <3>1, <3>2 DEF FreshOK
  <2> QED BY <1>1, <2>1, <2>2 DEF PathOK
<1>3. PICK q \in Process : seen[q] = 0 /\ at[q] > 2
  BY <1>2 DEF Fresh
<1>4. FreshOK(q) /\ at[q] \in 1 .. 7 /\ pc[q] \notin Opening
  BY DEF Fresh, TypeOK
<1>5. at[q] > 6
  BY <1>3, <1>4 DEF FreshOK
<1>6. \A t \in Schema : Exists(t)
  BY <1>3, <1>4, <1>5 DEF FreshOK, Schema
<1> QED BY <1>2, <1>6 DEF Fresh, Complete

\* Which statement each number is, of an upgrade.
LEMMA FirstUpgrade ==
  ASSUME TypeOK, NEW p \in Process, seen[p] = 1, ~ Executed(p)
  PROVE  /\ at[p] \in 1 .. 5
         /\ at[p] = 1 => Statement(p) = Create("SchemaVersion")
         /\ at[p] = 2 => Statement(p) = Insert
         /\ at[p] = 3 => Statement(p) = Rename("Machines", "Resources")
         /\ at[p] = 4 => Statement(p) = Rename("MachineAttrs", "ResourceAttrs")
         /\ at[p] = 5 => Statement(p) = Update
<1>1. at[p] \in 1 .. 7 /\ ~ (at[p] > Len(Program(seen[p])))
  BY DEF TypeOK, Executed
<1>2. Len(Program(seen[p])) = 5
  BY UpgradeProgram1
<1>3. ~ (at[p] > 5)
  BY <1>1, <1>2, Zenon
<1>4. at[p] \in 1 .. 5
  BY <1>1, <1>3
<1> QED BY <1>4, UpgradeProgram1 DEF Statement

LEMMA SecondUpgrade ==
  ASSUME TypeOK, NEW p \in Process, seen[p] = 2, ~ Executed(p)
  PROVE  /\ at[p] \in 1 .. 3
         /\ at[p] = 1 => Statement(p) = Rename("Machines", "Resources")
         /\ at[p] = 2 => Statement(p) = Rename("MachineAttrs", "ResourceAttrs")
         /\ at[p] = 3 => Statement(p) = Update
<1>1. at[p] \in 1 .. 7 /\ ~ (at[p] > Len(Program(seen[p])))
  BY DEF TypeOK, Executed
<1>2. Len(Program(seen[p])) = 3
  BY UpgradeProgram2
<1>3. ~ (at[p] > 3)
  BY <1>1, <1>2, Zenon
<1>4. at[p] \in 1 .. 3
  BY <1>1, <1>3
<1> QED BY <1>4, UpgradeProgram2 DEF Statement

\* Who has executed all of it.
LEMMA UpgradeEnd ==
  ASSUME TypeOK, NEW p \in Process, seen[p] \in {1, 2}, Executed(p)
  PROVE  IF seen[p] = 1 THEN at[p] > 5 ELSE at[p] > 3
<1>1. at[p] > Len(Program(seen[p]))
  BY DEF Executed
<1>2. CASE seen[p] = 1
  <2>1. Len(Program(seen[p])) = 5
    BY <1>2, UpgradeProgram1
  <2> QED BY <1>1, <1>2, <2>1, Zenon
<1>3. CASE seen[p] = 2
  <2>1. Len(Program(seen[p])) = 3 /\ seen[p] # 1
    BY <1>3, UpgradeProgram2
  <2> QED BY <1>1, <2>1, Zenon
<1> QED BY <1>2, <1>3

\* The renaming while a statement that renames nothing is executed, or none.
LEMMA RenamingStays ==
  ASSUME TypeOK, NEW k \in {1, 3}, Renaming(k), NEW p \in Process, Alone(p),
         at'[p] = at[p] \/ (at'[p] = at[p] + 1 /\ at[p] # k /\ at[p] # k + 1),
         \A t \in {"Machines", "Resources", "MachineAttrs", "ResourceAttrs"} : Exists(t)' <=> Exists(t)
  PROVE  Renaming(k)'
<1>1. \A q \in Process : at[q] \in 1 .. 7 /\ (q # p => at'[q] = at[q])
  BY DEF TypeOK, Alone
<1>2. at'[p] <= k <=> at[p] <= k
  BY <1>1
<1>3. at'[p] \in Nat /\ (at'[p] = k + 1 => at[p] = k + 1) /\ (at'[p] > k + 1 => at[p] > k + 1)
  BY <1>1
<1>4. CASE Exists("Machines")
  <2>1. \A q \in Process : at'[q] <= k
    BY <1>1, <1>2, <1>4 DEF Renaming
  <2> QED BY <1>4, <2>1 DEF Renaming
<1>5. CASE ~ Exists("Machines")
  <2>1. PICK w \in Process :
          /\ at[w] > k /\ \A q \in Process \ {w} : at[q] <= k
          /\ at[w] = k + 1 => Exists("MachineAttrs") /\ ~ Exists("ResourceAttrs")
          /\ at[w] > k + 1 => ~ Exists("MachineAttrs") /\ Exists("ResourceAttrs")
    BY <1>5 DEF Renaming
  <2>2. at'[w] > k
    BY <1>1, <1>2, <1>3, <2>1
  <2>3. \A q \in Process \ {w} : at'[q] <= k
    BY <1>1, <1>2, <2>1
  <2>4. /\ at'[w] = k + 1 => at[w] = k + 1
        /\ at'[w] > k + 1 => at[w] > k + 1
    BY <1>1, <1>3
  <2>5. ~ Exists("Machines")' /\ Exists("Resources")'
    BY <1>5 DEF Renaming
  <2> QED BY <2>1, <2>2, <2>3, <2>4, <2>5 DEF Renaming
<1> QED BY <1>4, <1>5

\* The first renaming: only one process comes through.
LEMMA RenamingFirst ==
  ASSUME TypeOK, NEW k \in {1, 3}, Renaming(k), NEW p \in Process, Alone(p),
         at[p] = k, at'[p] = k + 1,
         Possible(Rename("Machines", "Resources")), Execute(Rename("Machines", "Resources"))
  PROVE  Renaming(k)'
<1>1. \A q \in Process : at[q] \in 1 .. 7 /\ (q # p => at'[q] = at[q])
  BY DEF TypeOK, Alone
<1>2. /\ Exists("Machines") /\ ~ Exists("Machines")' /\ Exists("Resources")'
      /\ Exists("MachineAttrs")' <=> Exists("MachineAttrs")
      /\ Exists("ResourceAttrs")' <=> Exists("ResourceAttrs")
  BY RenameMoves DEF Tables, Schema, OldTables
<1>3. Exists("MachineAttrs") /\ ~ Exists("ResourceAttrs") /\ \A q \in Process : at[q] <= k
  BY <1>2 DEF Renaming
<1>4. at'[p] > k /\ ~ (at'[p] > k + 1) /\ \A q \in Process \ {p} : at'[q] <= k
  BY <1>1, <1>3
<1> QED BY <1>2, <1>3, <1>4 DEF Renaming

\* The second.
LEMMA RenamingSecond ==
  ASSUME TypeOK, NEW k \in {1, 3}, Renaming(k), NEW p \in Process, Alone(p),
         at[p] = k + 1, at'[p] = k + 2,
         Possible(Rename("MachineAttrs", "ResourceAttrs")),
         Execute(Rename("MachineAttrs", "ResourceAttrs"))
  PROVE  Renaming(k)'
<1>1. \A q \in Process : at[q] \in 1 .. 7 /\ (q # p => at'[q] = at[q])
  BY DEF TypeOK, Alone
<1>2. /\ Exists("Machines")' <=> Exists("Machines")
      /\ Exists("Resources")' <=> Exists("Resources")
      /\ ~ Exists("MachineAttrs")' /\ Exists("ResourceAttrs")'
  BY RenameMoves DEF Tables, Schema, OldTables
<1>3. ~ (at[p] <= k)
  BY <1>1
<1>4. ~ Exists("Machines") /\ Exists("Resources") /\ \A q \in Process \ {p} : at[q] <= k
  BY <1>3 DEF Renaming
<1>5. at'[p] > k /\ at'[p] # k + 1 /\ \A q \in Process \ {p} : at'[q] <= k
  BY <1>1, <1>4
<1> QED BY <1>2, <1>4, <1>5 DEF Renaming

\* The one that comes through is refused nothing afterwards.
LEMMA RenamerGoesOn ==
  ASSUME TypeOK, NEW k \in {1, 3}, Renaming(k), NEW p \in Process
  PROVE  /\ at[p] = k /\ ~ Possible(Rename("Machines", "Resources")) => ~ Exists("Machines")
         /\ at[p] = k + 1 => Possible(Rename("MachineAttrs", "ResourceAttrs"))
<1>1. at[p] = k + 1 => ~ (at[p] <= k)
  BY DEF TypeOK
<1> QED BY <1>1 DEF Renaming, Possible, Rename

\* A file of version 1.
LEMMA FirstKept ==
  ASSUME TypeOK, PathInv, First, NEW p \in Process, Alone(p),
         Advances(p) \/ (SameFile /\ Moves(p))
  PROVE  First'
<1> {"SchemaVersion", "Deployments", "DeploymentAttrs", "Resources", "ResourceAttrs", "Machines",
     "MachineAttrs"} \subseteq Tables
  BY DEF Tables, Schema, OldTables
<1>1. FirstOK(p) /\ PathOK(p) /\ at[p] \in 1 .. 7 /\ Renaming(3) /\ 3 \in {1, 3}
  BY DEF First, PathInv, TypeOK
<1>2. CASE SameFile /\ Moves(p)
  <2>1. at' = at /\ versions' = versions /\ \A t \in Tables : Exists(t)' <=> Exists(t)
    BY <1>2 DEF SameFile
  <2>2. Renaming(3)'
    BY <1>1, <2>1, RenamingStays
  <2>3. \A q \in Process \ {p} : FirstOK(q)'
    BY <2>1 DEF First, FirstOK, Alone
  <2>4. pc[p] \in Opening \ {"upgrading"} => at[p] = 1
    BY <1>1 DEF PathOK
  <2>5. pc[p] = "upgrading" => seen[p] = 1 /\ seen'[p] = 1
    BY <1>1, <1>2 DEF FirstOK, PathOK, Moves, current_schema
  <2>6. ASSUME pc[p] = "upgrading", pc'[p] \notin Opening
        PROVE  at[p] > 5 \/ (at[p] = 3 /\ ~ Exists("Machines"))
    <3>1. CASE Executed(p)
      BY <2>5, <2>6, <3>1, UpgradeEnd
    <3>2. CASE ~ Executed(p) /\ ~ Possible(Statement(p))
      <4>1. /\ at[p] \in 1 .. 5
            /\ at[p] = 1 => Statement(p) = Create("SchemaVersion")
            /\ at[p] = 2 => Statement(p) = Insert
            /\ at[p] = 3 => Statement(p) = Rename("Machines", "Resources")
            /\ at[p] = 4 => Statement(p) = Rename("MachineAttrs", "ResourceAttrs")
            /\ at[p] = 5 => Statement(p) = Update
        BY <2>5, <2>6, <3>2, FirstUpgrade
      <4>2. at[p] # 1 /\ at[p] # 2 /\ at[p] # 5
        BY <2>5, <2>6, <3>2, <4>1, NeverRefused
      <4>3. at[p] # 4
        BY <1>1, <2>5, <2>6, <3>2, <4>1, RenamerGoesOn
      <4>4. at[p] = 3
        BY <2>5, <2>6, <4>1, <4>2, <4>3
      <4> QED BY <1>1, <2>5, <2>6, <3>2, <4>1, <4>4, RenamerGoesOn
    <3> QED BY <1>2, <2>6, <3>1, <3>2 DEF Moves, Opening
  <2>7. FirstOK(p)'
    <3>1. CASE pc[p] \in {"fetching", "probing"} /\ pc'[p] = "deciding"
      <4>1. seen'[p] \in {1, current_schema} /\ (seen'[p] = current_schema => current_schema \in versions)
        <5>1. CASE pc[p] = "fetching"
          <6>1. seen'[p] \in versions
            BY <1>2, <3>1, <5>1 DEF Moves
          <6> QED BY <6>1 DEF First
        <5>2. CASE pc[p] = "probing"
          <6>1. seen'[p] = 1
            BY <1>2, <3>1, <5>2 DEF Moves, First
          <6> QED BY <6>1 DEF current_schema
        <5> QED BY <3>1, <5>1, <5>2
      <4> QED BY <2>1, <2>4, <3>1, <4>1 DEF FirstOK, Opening, current_schema
    <3>2. CASE pc[p] = "upgrading"
      BY <1>1, <2>1, <2>5, <2>6, <3>2 DEF FirstOK, current_schema
    <3>3. CASE /\ pc[p] # "upgrading" /\ seen'[p] = seen[p]
               /\ ~ (pc[p] \in {"fetching", "probing"} /\ pc'[p] = "deciding")
      <4>1. pc[p] \notin Opening => pc'[p] \notin Opening \/ at[p] = 1
        BY <1>1, <1>2 DEF Moves, PathOK, Opening
      <4>2. pc'[p] \in {"deciding", "upgrading", "open", "ended"}
              => pc[p] \in {"deciding", "upgrading", "open", "ended"}
        BY <1>2, <3>3 DEF Moves
      <4> QED BY <1>1, <2>1, <2>4, <3>3, <4>1, <4>2 DEF FirstOK
    <3> QED BY <1>2, <3>1, <3>2, <3>3 DEF Moves
  <2>8. Exists("Deployments")' /\ Exists("DeploymentAttrs")'
    BY <2>1 DEF First
  <2> QED BY <2>1, <2>2, <2>3, <2>7, <2>8 DEF First
<1>3. CASE Advances(p)
  <2>1. seen[p] = 1 /\ seen'[p] = 1 /\ at'[p] = at[p] + 1 /\ pc[p] = "upgrading"
        /\ pc'[p] = "upgrading" /\ ~ Executed(p) /\ Possible(Statement(p)) /\ Execute(Statement(p))
    BY <1>1, <1>3 DEF Advances, PathOK, FirstOK, current_schema
  <2>2. /\ at[p] = 1 => Statement(p) = Create("SchemaVersion")
        /\ at[p] = 2 => Statement(p) = Insert
        /\ at[p] = 3 => Statement(p) = Rename("Machines", "Resources")
        /\ at[p] = 4 => Statement(p) = Rename("MachineAttrs", "ResourceAttrs")
        /\ at[p] = 5 => Statement(p) = Update
        /\ at[p] = 1 \/ at[p] = 2 \/ at[p] = 3 \/ at[p] = 4 \/ at[p] = 5
    <3>1. /\ at[p] \in 1 .. 5
          /\ at[p] = 1 => Statement(p) = Create("SchemaVersion")
          /\ at[p] = 2 => Statement(p) = Insert
          /\ at[p] = 3 => Statement(p) = Rename("Machines", "Resources")
          /\ at[p] = 4 => Statement(p) = Rename("MachineAttrs", "ResourceAttrs")
          /\ at[p] = 5 => Statement(p) = Update
      BY <2>1, FirstUpgrade
    <3> QED BY <3>1
  \* What has to hold of the file afterwards.
  <2>3. ASSUME Exists("SchemaVersion")', Exists("Deployments")', Exists("DeploymentAttrs")',
               versions \subseteq versions', versions' \subseteq {current_schema},
               at[p] > 1 => current_schema \in versions',
               versions' # {} => versions # {} \/ at[p] = 2,
               Exists("Machines")' => Exists("Machines"), Renaming(3)'
        PROVE  First'
    <3>1. \A q \in Process \ {p} : FirstOK(q)'
      BY <2>3 DEF First, FirstOK, Alone
    <3>2. FirstOK(p)'
      BY <1>1, <2>1, <2>3 DEF FirstOK, Opening, current_schema
    <3>3. versions' # {} => \E q \in Process : at'[q] > 2
      <4>1. CASE at[p] = 2
        BY <2>1, <4>1
      <4>2. ASSUME versions # {} PROVE \E q \in Process : at'[q] > 2
        <5>1. PICK q \in Process : at[q] > 2
          BY <4>2 DEF First
        <5>2. at'[q] > 2
          BY <1>1, <2>1, <5>1 DEF Alone
        <5> QED BY <5>2
      <4> QED BY <2>3, <4>1, <4>2
    <3> QED BY <2>3, <3>1, <3>2, <3>3 DEF First
  <2>4. at[p] > 1 => Exists("SchemaVersion")
    BY <1>1 DEF FirstOK
  <2>5. at[p] > 2 => current_schema \in versions
    BY <1>1 DEF FirstOK
  <2>6. CASE at[p] = 1 \/ at[p] = 2
    <3>1. /\ \A u \in Tables : Exists(u)' <=> Exists(u) \/ u = "SchemaVersion"
          /\ at[p] = 1 => versions' = versions
          /\ at[p] = 2 => versions' = versions \cup {current_schema}
      BY <2>1, <2>2, <2>6, Grows DEF Schema
    <3>2. Renaming(3)'
      BY <1>1, <2>1, <2>6, <3>1, RenamingStays
    <3>3. versions \subseteq {current_schema} /\ Exists("Deployments") /\ Exists("DeploymentAttrs")
      BY DEF First
    <3> QED BY <2>3, <2>6, <3>1, <3>2, <3>3
  <2>7. CASE at[p] = 3
    <3>1. /\ Exists("Machines") /\ versions' = versions
          /\ \A o \in Tables \ {"Machines", "Resources"} : Exists(o)' <=> Exists(o)
      BY <2>1, <2>2, <2>7, RenameMoves
    <3>2. at'[p] = 3 + 1
      BY <2>1, <2>7
    <3>3. Renaming(3)'
      BY <1>1, <2>1, <2>2, <2>7, <3>2, RenamingFirst
    <3>4. versions \subseteq {current_schema} /\ Exists("Deployments") /\ Exists("DeploymentAttrs")
      BY DEF First
    <3> QED BY <2>3, <2>4, <2>5, <2>7, <3>1, <3>3, <3>4
  <2>8. CASE at[p] = 4
    <3>1. /\ versions' = versions
          /\ \A o \in Tables \ {"MachineAttrs", "ResourceAttrs"} : Exists(o)' <=> Exists(o)
      BY <2>1, <2>2, <2>8, RenameMoves
    <3>2. at[p] = 3 + 1 /\ at'[p] = 3 + 2
      BY <2>1, <2>8
    <3>3. Renaming(3)'
      BY <1>1, <2>1, <2>2, <2>8, <3>2, RenamingSecond
    <3>4. versions \subseteq {current_schema} /\ Exists("Deployments") /\ Exists("DeploymentAttrs")
      BY DEF First
    <3> QED BY <2>3, <2>4, <2>5, <2>8, <3>1, <3>3, <3>4
  <2>9. CASE at[p] = 5
    <3>1. versions = {current_schema}
      BY <2>5, <2>9 DEF First
    <3>2. versions' = {current_schema} /\ \A o \in Tables : Exists(o)' <=> Exists(o)
      BY <2>1, <2>2, <2>9, <3>1, Updates
    <3>3. Renaming(3)'
      BY <1>1, <2>1, <2>9, <3>2, RenamingStays
    <3>4. Exists("Deployments") /\ Exists("DeploymentAttrs")
      BY DEF First
    <3> QED BY <2>3, <2>4, <2>9, <3>1, <3>2, <3>3, <3>4
  <2> QED BY <2>2, <2>6, <2>7, <2>8, <2>9
<1> QED BY <1>2, <1>3

LEMMA RenamedIsComplete ==
  ASSUME Exists("SchemaVersion"), Exists("Deployments"), Exists("DeploymentAttrs"),
         versions = {current_schema}, ~ Exists("Machines"), Exists("Resources"),
         ~ Exists("MachineAttrs"), Exists("ResourceAttrs")
  PROVE  Complete
BY DEF Complete, Schema, OldTables

LEMMA FirstCompletes ==
  ASSUME TypeOK, PathInv, First, \A p \in Process : pc[p] \notin Opening,
         NEW p \in Process, pc[p] \in {"open", "ended"}
  PROVE  Complete
<1>1. \A q \in Process : FirstOK(q) /\ PathOK(q) /\ at[q] \in 1 .. 7
  BY DEF First, PathInv, TypeOK
<1>2. current_schema \in versions
  <2>1. CASE seen[p] = current_schema
    BY <1>1, <2>1 DEF FirstOK
  <2>2. CASE seen[p] = 1
    <3>1. at[p] > 5
      BY <1>1, <2>2, UpgradeEnd DEF PathOK, current_schema
    <3> QED BY <1>1, <3>1 DEF FirstOK
  <2> QED BY <1>1, <2>1, <2>2 DEF FirstOK
<1>3. PICK q \in Process : at[q] > 2
  BY <1>2 DEF First
<1>4. at[q] > 5 \/ ~ Exists("Machines")
  BY <1>1, <1>3 DEF FirstOK
<1>5. ~ Exists("Machines") /\ Exists("Resources")
  BY <1>1, <1>4 DEF First, Renaming
<1>6. PICK w \in Process :
        /\ at[w] > 3
        /\ at[w] > 3 + 1 => ~ Exists("MachineAttrs") /\ Exists("ResourceAttrs")
  BY <1>5 DEF First, Renaming
<1>7. at[w] > 5 /\ Exists("SchemaVersion")
  BY <1>1, <1>6 DEF FirstOK
<1>8. ~ Exists("MachineAttrs") /\ Exists("ResourceAttrs")
  BY <1>1, <1>6, <1>7
<1> QED BY <1>2, <1>5, <1>7, <1>8, RenamedIsComplete DEF First

\* A file of version 2.
LEMMA SecondKept ==
  ASSUME TypeOK, PathInv, Second, NEW p \in Process, Alone(p),
         Advances(p) \/ (SameFile /\ Moves(p))
  PROVE  Second'
<1> {"SchemaVersion", "Deployments", "DeploymentAttrs", "Resources", "ResourceAttrs", "Machines",
     "MachineAttrs"} \subseteq Tables
  BY DEF Tables, Schema, OldTables
<1>1. SecondOK(p) /\ PathOK(p) /\ at[p] \in 1 .. 7 /\ Renaming(1) /\ 1 \in {1, 3}
  BY DEF Second, PathInv, TypeOK
<1>2. CASE SameFile /\ Moves(p)
  <2>1. at' = at /\ versions' = versions /\ \A t \in Tables : Exists(t)' <=> Exists(t)
    BY <1>2 DEF SameFile
  <2>2. Renaming(1)'
    BY <1>1, <2>1, RenamingStays
  <2>3. \A q \in Process \ {p} : SecondOK(q)'
    BY <2>1 DEF Second, SecondOK, Alone
  <2>4. pc[p] \in Opening \ {"upgrading"} => at[p] = 1
    BY <1>1 DEF PathOK
  <2>5. pc[p] = "upgrading" => seen[p] = 2 /\ seen'[p] = 2
    BY <1>1, <1>2 DEF SecondOK, PathOK, Moves, current_schema
  <2>6. ASSUME pc[p] = "upgrading", pc'[p] \notin Opening
        PROVE  at[p] = 1 \/ at[p] > 3
    <3>1. CASE Executed(p)
      BY <2>5, <2>6, <3>1, UpgradeEnd
    <3>2. CASE ~ Executed(p) /\ ~ Possible(Statement(p))
      <4>1. /\ at[p] \in 1 .. 3
            /\ at[p] = 2 => Statement(p) = Rename("MachineAttrs", "ResourceAttrs")
            /\ at[p] = 3 => Statement(p) = Update
        BY <2>5, <2>6, <3>2, SecondUpgrade
      <4>2. at[p] # 3
        BY <3>2, <4>1, NeverRefused
      <4>3. at[p] # 2
        BY <1>1, <3>2, <4>1, RenamerGoesOn
      <4> QED BY <4>1, <4>2, <4>3
    <3> QED BY <1>2, <2>6, <3>1, <3>2 DEF Moves, Opening
  <2>7. SecondOK(p)'
    <3>1. CASE pc[p] \in {"fetching", "probing"} /\ pc'[p] = "deciding"
      <4>1. pc[p] = "fetching"
        BY <1>1, <3>1 DEF SecondOK
      <4>2. seen'[p] \in versions
        BY <1>2, <3>1, <4>1 DEF Moves
      <4>3. /\ seen'[p] \in {2, current_schema}
            /\ seen'[p] = current_schema => versions = {current_schema}
        BY <4>2 DEF Second, current_schema
      <4> QED BY <2>1, <2>4, <3>1, <4>1, <4>3 DEF SecondOK, Opening, current_schema
    <3>2. CASE pc[p] = "upgrading"
      <4>1. pc'[p] # "probing"
        BY <1>2, <3>2 DEF Moves
      <4> QED BY <1>1, <2>1, <2>5, <2>6, <3>2, <4>1 DEF SecondOK, current_schema
    <3>3. CASE /\ pc[p] # "upgrading" /\ seen'[p] = seen[p]
               /\ ~ (pc[p] \in {"fetching", "probing"} /\ pc'[p] = "deciding")
      <4>1. pc[p] \notin Opening => pc'[p] \notin Opening \/ at[p] = 1
        BY <1>1, <1>2 DEF Moves, PathOK, Opening
      <4>2. pc'[p] \in {"deciding", "upgrading", "open", "ended"}
              => pc[p] \in {"deciding", "upgrading", "open", "ended"}
        BY <1>2, <3>3 DEF Moves
      <4>3. pc'[p] # "probing"
        BY <1>2 DEF Moves, Second
      <4> QED BY <1>1, <2>1, <2>4, <3>3, <4>1, <4>2, <4>3 DEF SecondOK
    <3> QED BY <1>2, <3>1, <3>2, <3>3 DEF Moves
  <2>8. Exists("Deployments")' /\ Exists("DeploymentAttrs")' /\ Exists("SchemaVersion")'
    BY <2>1 DEF Second
  <2> QED BY <2>1, <2>2, <2>3, <2>7, <2>8 DEF Second
<1>3. CASE Advances(p)
  <2>1. seen[p] = 2 /\ seen'[p] = 2 /\ at'[p] = at[p] + 1 /\ pc[p] = "upgrading"
        /\ pc'[p] = "upgrading" /\ ~ Executed(p) /\ Possible(Statement(p)) /\ Execute(Statement(p))
    BY <1>1, <1>3 DEF Advances, PathOK, SecondOK, current_schema
  <2>2. /\ at[p] = 1 => Statement(p) = Rename("Machines", "Resources")
        /\ at[p] = 2 => Statement(p) = Rename("MachineAttrs", "ResourceAttrs")
        /\ at[p] = 3 => Statement(p) = Update
        /\ at[p] = 1 \/ at[p] = 2 \/ at[p] = 3
    <3>1. /\ at[p] \in 1 .. 3
          /\ at[p] = 1 => Statement(p) = Rename("Machines", "Resources")
          /\ at[p] = 2 => Statement(p) = Rename("MachineAttrs", "ResourceAttrs")
          /\ at[p] = 3 => Statement(p) = Update
      BY <2>1, SecondUpgrade
    <3> QED BY <3>1
  <2>3. Exists("Deployments") /\ Exists("DeploymentAttrs") /\ Exists("SchemaVersion")
        /\ versions \in {{2}, {current_schema}}
    BY DEF Second
  \* What has to hold of the file afterwards.
  <2>4. ASSUME Exists("SchemaVersion")', Exists("Deployments")', Exists("DeploymentAttrs")',
               (at[p] # 3 /\ versions' = versions) \/ (at[p] = 3 /\ versions' = {current_schema}),
               Renaming(1)'
        PROVE  Second'
    <3>1. \A q \in Process \ {p} : SecondOK(q)'
      BY <2>3, <2>4 DEF Second, SecondOK, Alone
    <3>2. SecondOK(p)'
      BY <1>1, <2>1, <2>4 DEF SecondOK, Opening, current_schema
    <3>3. versions' = {current_schema} => \E q \in Process : at'[q] > 3
      <4>1. CASE at[p] = 3
        BY <2>1, <4>1
      <4>2. ASSUME versions = {current_schema} PROVE \E q \in Process : at'[q] > 3
        <5>1. PICK q \in Process : at[q] > 3
          BY <4>2 DEF Second
        <5>2. at'[q] > 3
          BY <1>1, <2>1, <5>1 DEF Alone
        <5> QED BY <5>2
      <4> QED BY <2>4, <4>1, <4>2
    <3>4. versions' \in {{2}, {current_schema}}
      BY <2>3, <2>4
    <3> QED BY <2>4, <3>1, <3>2, <3>3, <3>4 DEF Second
  <2>5. CASE at[p] = 1
    <3>1. /\ versions' = versions
          /\ \A o \in Tables \ {"Machines", "Resources"} : Exists(o)' <=> Exists(o)
      BY <2>1, <2>2, <2>5, RenameMoves
    <3>2. at'[p] = 1 + 1
      BY <2>1, <2>5
    <3>3. Renaming(1)'
      BY <1>1, <2>1, <2>2, <2>5, <3>2, RenamingFirst
    <3> QED BY <2>3, <2>4, <2>5, <3>1, <3>3
  <2>6. CASE at[p] = 2
    <3>1. /\ versions' = versions
          /\ \A o \in Tables \ {"MachineAttrs", "ResourceAttrs"} : Exists(o)' <=> Exists(o)
      BY <2>1, <2>2, <2>6, RenameMoves
    <3>2. at[p] = 1 + 1 /\ at'[p] = 1 + 2
      BY <2>1, <2>6
    <3>3. Renaming(1)'
      BY <1>1, <2>1, <2>2, <2>6, <3>2, RenamingSecond
    <3> QED BY <2>3, <2>4, <2>6, <3>1, <3>3
  <2>7. CASE at[p] = 3
    <3>1. versions' = {current_schema} /\ \A o \in Tables : Exists(o)' <=> Exists(o)
      BY <2>1, <2>2, <2>3, <2>7, Updates
    <3>2. Renaming(1)'
      BY <1>1, <2>1, <2>7, <3>1, RenamingStays
    <3> QED BY <2>3, <2>4, <2>7, <3>1, <3>2
  <2> QED BY <2>2, <2>5, <2>6, <2>7
<1> QED BY <1>2, <1>3

LEMMA SecondCompletes ==
  ASSUME TypeOK, PathInv, Second, \A p \in Process : pc[p] \notin Opening,
         NEW p \in Process, pc[p] \in {"open", "ended"}
  PROVE  Complete
<1>1. \A q \in Process : SecondOK(q) /\ PathOK(q) /\ at[q] \in 1 .. 7
  BY DEF Second, PathInv, TypeOK
<1>2. versions = {current_schema}
  <2>1. CASE seen[p] = current_schema
    BY <1>1, <2>1 DEF SecondOK
  <2>2. CASE seen[p] = 2
    <3>1. at[p] > 3
      BY <1>1, <2>2, UpgradeEnd DEF PathOK, current_schema
    <3> QED BY <1>1, <3>1 DEF SecondOK
  <2> QED BY <1>1, <2>1, <2>2 DEF SecondOK
<1>3. PICK q \in Process : at[q] > 3
  BY <1>2 DEF Second
<1>4. ~ (at[q] <= 1)
  BY <1>1, <1>3
<1>5. ~ Exists("Machines") /\ Exists("Resources")
  BY <1>4 DEF Second, Renaming
<1>6. PICK w \in Process :
        /\ at[w] > 1 /\ \A o \in Process \ {w} : at[o] <= 1
        /\ at[w] > 1 + 1 => ~ Exists("MachineAttrs") /\ Exists("ResourceAttrs")
  BY <1>5 DEF Second, Renaming
<1>7. w = q
  BY <1>4, <1>6
<1>8. ~ Exists("MachineAttrs") /\ Exists("ResourceAttrs")
  BY <1>1, <1>3, <1>6, <1>7
<1> QED BY <1>2, <1>5, <1>8, RenamedIsComplete DEF Second

\* A file of the current version, and one of a later.
LEMMA ThirdKept ==
  ASSUME Third, NEW p \in Process, Alone(p), Advances(p) \/ (SameFile /\ Moves(p))
  PROVE  Third'
<1>1. ThirdOK(p) /\ \A q \in Process \ {p} : ThirdOK(q)'
  BY DEF Third, ThirdOK, Alone
<1>2. SameFile /\ Moves(p)
  BY <1>1 DEF ThirdOK, Advances
<1>3. Complete'
  BY <1>2 DEF Third, Complete, SameFile, Tables
<1>4. Exists("SchemaVersion") /\ versions = {current_schema}
  BY DEF Third, Complete, Schema
<1>5. ThirdOK(p)'
  BY <1>1, <1>2, <1>4 DEF ThirdOK, Moves, current_schema
<1> QED BY <1>1, <1>3, <1>5 DEF Third

LEMMA LaterKept ==
  ASSUME Later, NEW p \in Process, Alone(p), Advances(p) \/ (SameFile /\ Moves(p))
  PROVE  Later'
<1>1. LaterOK(p) /\ \A q \in Process \ {p} : LaterOK(q)'
  BY DEF Later, LaterOK, Alone
<1>2. SameFile /\ Moves(p)
  BY <1>1 DEF LaterOK, Advances
<1>3. Exists("SchemaVersion")' /\ versions' = {Newer}
  BY <1>2 DEF Later, SameFile, Tables, Schema
<1>4. LaterOK(p)'
  BY <1>1, <1>2 DEF Later, LaterOK, Moves, current_schema, Newer
<1> QED BY <1>1, <1>3, <1>4 DEF Later

LEMMA InitRace == Init => RaceInv
<1> SUFFICES ASSUME Init PROVE RaceInv
  OBVIOUS
<1>1. PICK v \in Files :
        /\ tables = [t \in Tables |-> IF t \in Made(v) THEN "rows" ELSE "absent"]
        /\ versions = IF v < 2 THEN {} ELSE {v}
  BY DEF Init
<1>2. v \in 0 .. 4
  BY StateFileAssumption DEF Newer, current_schema
<1>3. \A t \in Tables : Exists(t) <=> t \in Made(v)
  BY <1>1 DEF Exists
<1>4. \A p \in Process : pc[p] = "idle" /\ seen[p] = 0 /\ at[p] = 1
  BY DEF Init
<1>5. PathInv
  BY <1>4 DEF PathInv, PathOK
<1> USE DEF Made, Tables, Schema, OldTables
<1>6. CASE v = 0
  <2>1. versions = {} /\ \A t \in Tables : ~ Exists(t)
    BY <1>1, <1>3, <1>6
  <2>2. Fresh
    BY <1>4, <2>1 DEF Fresh, FreshOK, current_schema
  <2> QED BY <1>5, <2>2 DEF RaceInv
<1>7. CASE v = 1
  <2>1. versions = {} /\ \A t \in Tables :
          Exists(t) <=> t \in {"Deployments", "DeploymentAttrs", "Machines", "MachineAttrs"}
    BY <1>1, <1>3, <1>7
  <2>2. First
    BY <1>4, <2>1 DEF First, FirstOK, Renaming, current_schema
  <2> QED BY <1>5, <2>2 DEF RaceInv
<1>8. CASE v = 2
  <2>1. versions = {2} /\ \A t \in Tables :
          Exists(t) <=> t \in {"SchemaVersion", "Deployments", "DeploymentAttrs", "Machines",
                               "MachineAttrs"}
    BY <1>1, <1>3, <1>8
  <2>2. Second
    BY <1>4, <2>1 DEF Second, SecondOK, Renaming, current_schema
  <2> QED BY <1>5, <2>2 DEF RaceInv
<1>9. CASE v = 3
  <2>1. versions = {3} /\ \A t \in Tables : Exists(t) <=> t \in Schema
    BY <1>1, <1>3, <1>9
  <2>2. Third
    BY <1>4, <2>1 DEF Third, ThirdOK, Complete, current_schema
  <2> QED BY <1>5, <2>2 DEF RaceInv
<1>10. CASE v = 4
  <2>1. versions = {4} /\ Exists("SchemaVersion")
    BY <1>1, <1>3, <1>10
  <2>2. Later
    BY <1>4, <2>1 DEF Later, LaterOK, current_schema, Newer
  <2> QED BY <1>5, <2>2 DEF RaceInv
<1> QED BY <1>2, <1>6, <1>7, <1>8, <1>9, <1>10

(* However many commands open a file at the same time without a lock: when none
   of them is killed, and none is still at it, and one has got its file open,
   then the file is complete. *)
THEOREM RacersComplete == Spec => []RaceCompletes
<1>1. TypeOK /\ RaceInv /\ [Next]_vars => RaceInv'
  <2> SUFFICES ASSUME TypeOK, RaceInv, [Next]_vars PROVE RaceInv'
    OBVIOUS
  <2>1. CASE Next /\ ~ killed'
    <3>1. PICK p \in Process : Alone(p) /\ (Advances(p) \/ (SameFile /\ Moves(p)))
      BY <2>1, RaceSteps
    <3>2. PathInv /\ (Fresh \/ First \/ Second \/ Third \/ Later)
      BY <2>1, RaceSteps DEF RaceInv
    <3> QED
      BY <3>1, <3>2, PathKept, FreshKept, FirstKept, SecondKept, ThirdKept, LaterKept DEF RaceInv
  <2>2. CASE UNCHANGED vars
    <3> USE <2>2, SameShape DEF vars, fileVars
    <3>1. \A t : Exists(t)' <=> Exists(t)
      OBVIOUS
    <3>2. PathInv' <=> PathInv
      BY DEF PathInv, PathOK, Executed
    <3>3. RaceInv'
      BY <3>1, <3>2 DEF RaceInv, Fresh, FreshOK, First, FirstOK, Second, SecondOK, Third, ThirdOK, Complete,
                  Later, LaterOK, Renaming
    <3> QED BY <3>3
  <2>3. CASE killed'
    BY <2>3 DEF RaceInv
  <2> QED BY <2>1, <2>2, <2>3
<1>2. TypeOK /\ RaceInv => RaceCompletes
  <2> SUFFICES ASSUME TypeOK, RaceInv, ~ killed, \A p \in Process : pc[p] \notin Opening,
                      NEW p \in Process, pc[p] \in {"open", "ended"}
               PROVE  Complete
    BY DEF RaceCompletes
  <2>1. ~ Later
    BY DEF Later, LaterOK
  <2> QED BY <2>1, FreshCompletes, FirstCompletes, SecondCompletes DEF RaceInv, Third
<1> QED BY <1>1, <1>2, TypeCorrect, InitRace, PTL DEF Spec
=============================================================================
