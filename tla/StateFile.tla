----------------------------- MODULE StateFile -----------------------------
(***************************************************************************)
(* Opening a state file (nixops/statefile.py: StateFile.__init__, the      *)
(* schema and its upgrades).  The connection commits every statement by    *)
(* itself (isolation_level=None), `with db' or not: a process may be       *)
(* killed, and another one may look, between any two.                      *)
(*                                                                         *)
(* A table is absent, empty or has rows.  SchemaVersion is the set of its  *)
(* rows beside that.                                                       *)
(***************************************************************************)
EXTENDS Integers, Sequences

CONSTANTS
  Process,      \* the processes that open the file, each once
  MaxTries,     \* how often a busy database is opened again
  Files         \* the schema versions of the files there are, 0 for none

current_schema == 3

Newer == current_schema + 1

ASSUME StateFileAssumption ==
  MaxTries \in Nat \ {0} /\ Files \subseteq 0 .. Newer

VARIABLES
  locked,       \* whether the network's lock keeps the processes apart
  tables,       \* what each table holds
  versions,     \* the rows of SchemaVersion
  pc,           \* where each process is
  tries,        \* the times it has found the database busy
  seen,         \* the version it has read
  at,           \* the statement of its upgrade it executes next
  access,       \* its connection: read-only, bare (no pragma executed yet) or
                \* one that enforces foreign keys
  killed        \* history: a process was killed, or got an error from sqlite,
                \* before its file was open

fileVars == <<tables, versions>>
vars == <<locked, tables, versions, pc, tries, seen, at, access, killed>>

OldTables == {"Machines", "MachineAttrs"}
Schema == {"SchemaVersion", "Deployments", "DeploymentAttrs", "Resources",
           "ResourceAttrs"}
Tables == Schema \cup OldTables
Content == {"absent", "empty", "rows"}

\* The tables of a file of version v, in use.
Made(v) ==
  IF v = 0 THEN {}
  ELSE {"Deployments", "DeploymentAttrs"}
         \cup (IF v >= 2 THEN {"SchemaVersion"} ELSE {})
         \cup (IF v >= 3 THEN {"Resources", "ResourceAttrs"} ELSE OldTables)

Init ==
  /\ locked \in BOOLEAN
  /\ \E v \in Files :
       /\ tables = [t \in Tables |-> IF t \in Made(v) THEN "rows" ELSE "absent"]
       /\ versions = IF v < 2 THEN {} ELSE {v}
  /\ pc = [p \in Process |-> "idle"]
  /\ tries = [p \in Process |-> 0]
  /\ seen = [p \in Process |-> 0]
  /\ at = [p \in Process |-> 1]
  /\ access = [p \in Process |-> "bare"]
  /\ killed = FALSE

Exists(t) == tables[t] # "absent"
-----------------------------------------------------------------------------
(* Statements.                                                             *)

Create(t)    == [op |-> "create", table |-> t, to |-> t]
Rename(t, u) == [op |-> "rename", table |-> t, to |-> u]
Insert       == [op |-> "insert", table |-> "SchemaVersion", to |-> "SchemaVersion"]
Update       == [op |-> "update", table |-> "SchemaVersion", to |-> "SchemaVersion"]

_create_schemaversion == <<Create("SchemaVersion"), Insert>>

_create_schema ==
  _create_schemaversion \o
    <<Create("Deployments"), Create("DeploymentAttrs"), Create("Resources"),
      Create("ResourceAttrs")>>

_upgrade_1_to_2 == _create_schemaversion

_upgrade_2_to_3 ==
  <<Rename("Machines", "Resources"), Rename("MachineAttrs", "ResourceAttrs")>>

FaultOneStepAtATime(v) ==
  IF v = 0 THEN _create_schema
  ELSE IF v = 1 THEN Append(_upgrade_1_to_2, Update)
  ELSE Append(_upgrade_2_to_3, Update)

\* What brings a file of version v up to date: every upgrade from there on.
Program(v) ==
  IF v = 0 THEN _create_schema
  ELSE (IF v = 1 THEN _upgrade_1_to_2 ELSE << >>) \o Append(_upgrade_2_to_3, Update)

FaultCreateAnew(t) == "empty"

\* `create table if not exists'
Kept(t) == IF Exists(t) THEN tables[t] ELSE "empty"

\* sqlite renames only what is there, to what is not.
Possible(s) == s.op = "rename" => Exists(s.table) /\ ~ Exists(s.to)

Execute(s) ==
  /\ tables' = IF s.op = "create" THEN [tables EXCEPT ![s.table] = Kept(s.table)]
               ELSE IF s.op = "rename"
                 THEN [tables EXCEPT ![s.to] = tables[s.table], ![s.table] = "absent"]
               ELSE IF s.op = "insert" THEN [tables EXCEPT ![s.table] = "rows"]
               ELSE tables
  /\ versions' = IF s.op = "insert" THEN versions \cup {current_schema}
                 ELSE IF s.op = "update" THEN {current_schema : v \in versions}
                 ELSE versions
-----------------------------------------------------------------------------
(* One process.                                                            *)

Over == {"idle", "ended", "failed", "dead"}
Opening == {"connecting", "checking", "fetching", "probing", "deciding", "upgrading"}

Goes(p, from, to) == pc[p] = from /\ pc' = [pc EXCEPT ![p] = to]

Begin(p) ==
  /\ locked => \A q \in Process : pc[q] \in Over
  /\ Goes(p, "idle", "connecting")
  /\ \E writable \in BOOLEAN :
       access' = [access EXCEPT ![p] = IF writable THEN "bare" ELSE "ro"]
  /\ UNCHANGED <<locked, fileVars, tries, seen, at, killed>>

\* The pragmas, if it may write.
Connect(p) ==
  /\ Goes(p, "connecting", "checking")
  /\ access' = [access EXCEPT ![p] = IF @ = "ro" THEN "ro" ELSE "enforcing"]
  /\ UNCHANGED <<locked, fileVars, tries, seen, at, killed>>

GivesUp(p) == tries[p] + 1 = MaxTries

\* `database is locked': after the last try the loop just ends, with a
\* connection whose pragmas were not executed.
Busy(p) ==
  /\ access[p] # "ro"
  /\ \E q \in Process \ {p} : pc[q] \notin Over
  /\ Goes(p, "connecting", IF GivesUp(p) THEN "checking" ELSE "connecting")
  /\ tries' = [tries EXCEPT ![p] = @ + 1]
  /\ UNCHANGED <<locked, fileVars, seen, at, access, killed>>

\* Any other error of sqlite, at any statement.
Breaks(p) ==
  /\ \E from \in Opening : Goes(p, from, "failed")
  /\ killed' = TRUE
  /\ UNCHANGED <<locked, fileVars, tries, seen, at, access>>

Check(p) ==
  /\ Goes(p, "checking", IF Exists("SchemaVersion") THEN "fetching" ELSE "probing")
  /\ UNCHANGED <<locked, fileVars, tries, seen, at, access, killed>>

\* `select version': fetchone() is None when there is no row yet.
Fetch(p) ==
  /\ \/ \E v \in versions :
          seen' = [seen EXCEPT ![p] = v] /\ Goes(p, "fetching", "deciding")
     \/ versions = {} /\ Goes(p, "fetching", "failed") /\ UNCHANGED seen
  /\ UNCHANGED <<locked, fileVars, tries, at, access, killed>>

Probe(p) ==
  /\ Goes(p, "probing", "deciding")
  /\ seen' = [seen EXCEPT ![p] = IF Exists("Deployments") THEN 1 ELSE 0]
  /\ UNCHANGED <<locked, fileVars, tries, at, access, killed>>

TooNew(p) == seen[p] > current_schema

Decide(p) ==
  /\ \/ seen[p] = current_schema /\ Goes(p, "deciding", "open")
     \/ TooNew(p) /\ Goes(p, "deciding", "failed")
     \/ seen[p] # current_schema /\ ~ TooNew(p) /\ Goes(p, "deciding", "upgrading")
  /\ UNCHANGED <<locked, fileVars, tries, seen, at, access, killed>>

Executed(p) == at[p] > Len(Program(seen[p]))
Statement(p) == Program(seen[p])[at[p]]

Step(p) ==
  /\ pc[p] = "upgrading" /\ ~ Executed(p)
  /\ Possible(Statement(p))
  /\ Execute(Statement(p))
  /\ at' = [at EXCEPT ![p] = @ + 1]
  /\ UNCHANGED <<locked, pc, tries, seen, access, killed>>

StepFails(p) ==
  /\ ~ Executed(p) /\ ~ Possible(Statement(p))
  /\ Goes(p, "upgrading", "failed")
  /\ UNCHANGED <<locked, fileVars, tries, seen, at, access, killed>>

Opened(p) ==
  /\ Executed(p)
  /\ Goes(p, "upgrading", "open")
  /\ UNCHANGED <<locked, fileVars, tries, seen, at, access, killed>>

\* The command: it puts rows into a table or reads one, or finds one missing.
Use(p) ==
  /\ \/ \E t \in Schema : /\ Exists(t) /\ Goes(p, "open", "ended")
                          /\ IF access[p] = "ro" THEN UNCHANGED tables
                             ELSE tables' = [tables EXCEPT ![t] = "rows"]
     \/ (\E t \in Schema : ~ Exists(t)) /\ Goes(p, "open", "failed") /\ UNCHANGED tables
  /\ UNCHANGED <<locked, versions, tries, seen, at, access, killed>>

Die(p) ==
  /\ \E from \in Opening \cup {"open"} : Goes(p, from, "dead")
  /\ killed' = (killed \/ pc[p] \in Opening)
  /\ UNCHANGED <<locked, fileVars, tries, seen, at, access>>

Next ==
  \E p \in Process :
    \/ Begin(p) \/ Connect(p) \/ Busy(p) \/ Breaks(p) \/ Check(p) \/ Fetch(p)
    \/ Probe(p) \/ Decide(p) \/ Step(p) \/ StepFails(p) \/ Opened(p) \/ Use(p)
    \/ Die(p)

Spec == Init /\ [][Next]_vars
-----------------------------------------------------------------------------
(* Properties.                                                             *)

TypeOK ==
  /\ locked \in BOOLEAN /\ killed \in BOOLEAN
  /\ tables \in [Tables -> Content]
  /\ versions \subseteq {2, current_schema, Newer}
  /\ pc \in [Process -> Over \cup Opening \cup {"open"}]
  /\ tries \in [Process -> 0 .. MaxTries]
  /\ seen \in [Process -> 0 .. Newer]
  /\ at \in [Process -> 1 .. 7]
  /\ access \in [Process -> {"ro", "bare", "enforcing"}]

Complete ==
  /\ versions = {current_schema}
  /\ \A t \in Schema : Exists(t)
  /\ \A t \in OldTables : ~ Exists(t)

\* Where the rows of a table are, before and after version 3.
Homes ==
  {{"Deployments"}, {"DeploymentAttrs"}, {"Machines", "Resources"},
   {"MachineAttrs", "ResourceAttrs"}}

(* Opening a file never loses rows of it, whatever its version, whoever else
   opens it meanwhile and wherever a process is killed. *)
RowsKept ==
  [][\A H \in Homes :
       (\E t \in H : tables[t] = "rows") => \E t \in H : tables'[t] = "rows"]_vars

(* A command that has opened its state file under the network's lock finds the
   whole current schema, from whichever version the file came, unless an
   earlier command was stopped in the middle of an upgrade, and never writes
   to it without enforcing its foreign keys. *)
OpenMeansComplete ==
  locked => \A p \in Process :
              pc[p] = "open" => access[p] # "bare" /\ (killed \/ Complete)

(* Without a lock (the legacy storage) commands may upgrade one file at the
   same time.  Some then fail, but between them they complete the file. *)
RaceCompletes ==
  ~ killed /\ (\A p \in Process : pc[p] \notin Opening)
    /\ (\E p \in Process : pc[p] \in {"open", "ended"}) => Complete

(* A file of a later NixOps is left as it is. *)
NewerUntouched == [][(Newer \in versions) => UNCHANGED fileVars]_vars
=============================================================================
