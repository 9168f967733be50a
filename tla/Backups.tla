------------------------------ MODULE Backups ------------------------------
(***************************************************************************)
(* Backups of the machines' disks (nixops/deployment.py: get_backups,      *)
(* backup, clean_backups, remove_backup, restore; the commands that call   *)
(* them in script_defs.py).  The cloud makes a backup in its own time: it  *)
(* runs on after the command that has asked for it.                        *)
(*                                                                         *)
(* Backups and what is done with them are the plugins' (the MachineState   *)
(* of backends/__init__.py does nothing).  Commands come one after the     *)
(* other, at least a second apart: a backup's name is the second it is     *)
(* made in.                                                                *)
(***************************************************************************)
EXTENDS Integers, Sequences, FiniteSets

CONSTANTS
  M,            \* the machines are 1 .. M, in the order of Deployment.machines
  MaxId,        \* bound on the backups ever made
  Setups        \* the machines, backups and sequences of commands there are

Machine == 1 .. M
Id == 1 .. MaxId

\* unavailable: the cloud has lost or not been able to make it.
Status == {"none", "running", "complete", "unavailable"}

\* Only backup has --force; clean-backups has --keep or --keep-days, and selects
\* no machines; backup-status shows all backups, the latest, or the one named.
Requests ==
  {c \in [op : {"backup", "clean", "remove", "restore", "status"}, include : SUBSET Machine,
          force : BOOLEAN, keep : Nat, days : Nat, id : Id, wait : BOOLEAN,
          which : {"all", "latest", "id"}] :
     /\ c.force => c.op = "backup"
     /\ c.op = "clean" => c.include = {} /\ (c.keep = 0 <=> c.days # 0)}

ASSUME BackupsAssumption ==
  /\ M \in Nat \ {0} /\ MaxId \in Nat \ {0}
  /\ \A s \in Setups :
       /\ s.active \subseteq Machine /\ s.cloud \in [Machine -> [Id -> Status]]
       /\ s.now \in 0 .. MaxId /\ s.todo \in Seq(Requests)

VARIABLES
  active,       \* Deployment.active_machines
  cloud,        \* the backups each machine has
  now,          \* the last one made
  disk,         \* what each machine's disk has been restored to
  started,      \* the machines a restore has started
  todo,         \* the commands to come, the one under way at the head
  stage, outcome,
  answers,      \* what the machines have answered to get_backups
  report,       \* what get_backups returns: the status of each backup
  queue,        \* the machines a run_tasks is still to work on
  errors,       \* whether a task has raised
  tbr,          \* clean_backups: those to be removed, the first one under way
  before        \* history: cloud when the command began

worldVars == <<active, cloud, now, disk, started>>
localVars == <<answers, report, queue, errors, tbr, before>>
backupVars == <<worldVars, todo, stage, outcome, localVars>>

Nothing == [i \in {} |-> "none"]
NoAnswers == [m \in {} |-> Nothing]

BackupInit ==
  /\ \E s \in Setups : /\ active = s.active /\ cloud = s.cloud /\ todo = s.todo
                      /\ now = s.now
  /\ disk = [m \in Machine |-> 0] /\ started = {}
  /\ stage = "idle" /\ outcome = "none"
  /\ answers = NoAnswers /\ report = Nothing /\ queue = {} /\ errors = FALSE /\ tbr = {}
  /\ before = cloud

Command == Head(todo)

\* should_do.
Selected == {m \in active : Command.include = {} \/ m \in Command.include}

Least(S) == CHOOSE x \in S : \A y \in S : x <= y

End(how) == stage' = "ended" /\ outcome' = how

\* Where each command begins.
First ==
  IF Command.op \in {"remove", "restore"} THEN Command.op
  ELSE IF Command.force THEN "backup" ELSE "ask"

Begin ==
  /\ stage = "idle" /\ todo # <<>>
  /\ Command.op = "backup" => now < MaxId
  /\ before' = cloud /\ stage' = First
  /\ tbr' = IF First = "remove" THEN {Command.id} ELSE {}
  /\ queue' = IF First = "remove" THEN Machine
              ELSE IF First = "ask" THEN {} ELSE Selected
  /\ now' = IF First = "backup" THEN now + 1 ELSE now
  /\ started' = {} /\ answers' = NoAnswers /\ report' = Nothing /\ errors' = FALSE
  /\ UNCHANGED <<active, cloud, disk, todo, outcome>>
-----------------------------------------------------------------------------
(* Deployment.get_backups: the machines one after the other.               *)

Has(m) == {i \in Id : cloud[m][i] # "none"}

Ask ==
  /\ stage = "ask"
  /\ \E m \in Selected \ DOMAIN answers :
       /\ \A n \in Selected \ DOMAIN answers : m <= n
       /\ answers' = [n \in DOMAIN answers \cup {m} |->
                        IF n = m THEN [i \in Has(m) |-> cloud[m][i]] ELSE answers[n]]
  /\ UNCHANGED <<worldVars, todo, stage, outcome, report, queue, errors, tbr, before>>

\* A machine's get_backups raises.
AskFails ==
  /\ stage = "ask" /\ Selected \ DOMAIN answers # {}
  /\ End("failed")
  /\ UNCHANGED <<worldVars, todo, localVars>>

FaultLast(status, own) == own

\* `Status is always running when one of the backups is still running'.
WithOwn(status, own) == IF own # "complete" /\ status # "running" THEN own ELSE status

FaultNotCounted(status) == status

\* A machine that has no backup of that name.
WithNone(status) == "incomplete"

\* The status of i after the first k machines.
Merge(i) ==
  LET status[k \in 0 .. M] ==
        IF k = 0 THEN "complete"
        ELSE IF k \notin Selected THEN status[k - 1]
        ELSE IF i \in DOMAIN answers[k] THEN WithOwn(status[k - 1], answers[k][i])
        ELSE WithNone(status[k - 1])
  IN  status[M]

Report ==
  /\ stage = "ask" /\ Selected \subseteq DOMAIN answers
  /\ report' = [i \in UNION {DOMAIN answers[m] : m \in Selected} |-> Merge(i)]
  /\ stage' = "decide"
  /\ UNCHANGED <<worldVars, todo, outcome, answers, queue, errors, tbr, before>>

Newer(i) == {j \in DOMAIN report : j > i}

FaultFromTheOtherEnd(n) == {i \in DOMAIN report : Cardinality(Newer(i)) < n}

\* backup_ids[: len(backup_ids) - n]; a negative end counts from the end.
Older(n) ==
  LET length == Cardinality(DOMAIN report)
      end == IF length >= n THEN length - n
             ELSE IF 2 * length >= n THEN 2 * length - n ELSE 0
  IN  {i \in DOMAIN report : length - Cardinality(Newer(i)) <= end}

ToBeRemoved ==
  IF Command.days = 0 THEN Older(Command.keep)
  ELSE {i \in DOMAIN report : i < now - Command.days}

FaultNeverAgain(s) == "decide"

\* op_backup_status --wait asks again; time.sleep.
Again(s) == "ask"

Shown ==
  CASE Command.which = "all" -> DOMAIN report
    [] Command.which = "latest" -> {i \in DOMAIN report : Newer(i) = {}}
    [] Command.which = "id" -> {Command.id} \cap DOMAIN report

StillRunning == \E i \in Shown : report[i] = "running"

Decide ==
  /\ stage = "decide"
  /\ \/ /\ Command.op = "backup"
        /\ IF \E i \in DOMAIN report : report[i] = "running"
             THEN End("failed") /\ UNCHANGED <<now, queue, answers>>
             ELSE /\ now' = now + 1 /\ queue' = Selected
                  /\ stage' = "backup" /\ UNCHANGED <<outcome, answers>>
        /\ UNCHANGED tbr
     \/ /\ Command.op = "clean"
        /\ tbr' = ToBeRemoved /\ queue' = Machine /\ stage' = "remove"
        /\ UNCHANGED <<now, outcome, answers>>
     \/ /\ Command.op = "status"
        /\ IF Command.which # "all" /\ Shown = {} THEN End("failed") /\ UNCHANGED answers
           ELSE IF ~ StillRunning THEN End("ok") /\ UNCHANGED answers
           ELSE IF ~ Command.wait THEN End("failed") /\ UNCHANGED answers
           ELSE stage' = Again(report) /\ answers' = NoAnswers /\ UNCHANGED outcome
        /\ UNCHANGED <<now, queue, tbr>>
  /\ UNCHANGED <<active, cloud, disk, started, todo, report, errors, before>>
-----------------------------------------------------------------------------
(* run_tasks: every task is done, in any order; then it raises if one has. *)

Task(m) == m \in queue /\ queue' = queue \ {m}

\* A task has done its part or raises, perhaps having done it.
Does(part) == \/ part /\ UNCHANGED errors
              \/ errors' = TRUE /\ (part \/ UNCHANGED cloud)

\* The sync before it may fail: that is only logged.
Make ==
  /\ stage = "backup"
  /\ \E m \in Machine : Task(m) /\ Does(cloud' = [cloud EXCEPT ![m][now] = "running"])
  /\ UNCHANGED <<active, now, disk, started, todo, stage, outcome, answers, report, tbr,
                 before>>

Made ==
  /\ stage = "backup" /\ queue = {}
  /\ End(IF errors THEN "failed" ELSE "ok")
  /\ UNCHANGED <<worldVars, todo, localVars>>

FaultActiveOnly(m) == m \in active

\* Also a machine that is obsolete.
Concerned(m) == TRUE

\* With no active machine run_tasks has no worker, and refuses.
Remove ==
  /\ stage = "remove" /\ tbr # {} /\ active # {}
  /\ \E m \in Machine :
       /\ Task(m)
       /\ Does(cloud' = IF Concerned(m) THEN [cloud EXCEPT ![m][Least(tbr)] = "none"] ELSE cloud)
  /\ UNCHANGED <<active, now, disk, started, todo, stage, outcome, answers, report, tbr,
                 before>>

Removed ==
  /\ stage = "remove"
  /\ \/ tbr = {} /\ End("ok") /\ UNCHANGED <<queue, tbr>>
     \/ /\ tbr # {} /\ (active = {} \/ (queue = {} /\ errors))
        /\ End("failed") /\ UNCHANGED <<queue, tbr>>
     \/ /\ tbr # {} /\ active # {} /\ queue = {} /\ ~ errors
        /\ tbr' = tbr \ {Least(tbr)} /\ queue' = Machine /\ UNCHANGED <<stage, outcome>>
  /\ UNCHANGED <<worldVars, todo, answers, report, errors, before>>

Restore ==
  /\ stage = "restore"
  /\ \E m \in Machine :
       /\ Task(m)
       /\ \/ /\ cloud[m][Command.id] = "complete"
             /\ disk' = [disk EXCEPT ![m] = Command.id] /\ UNCHANGED errors
          \/ errors' = TRUE /\ UNCHANGED disk
  /\ UNCHANGED <<active, cloud, now, started, todo, stage, outcome, answers, report, tbr,
                 before>>

\* Their tasks may fail too.
StartMachines ==
  \E up \in SUBSET Selected :
    started' = up /\ End(IF up = Selected THEN "ok" ELSE "failed")

Restored ==
  /\ stage = "restore" /\ queue = {}
  /\ IF ~ errors THEN StartMachines ELSE UNCHANGED started /\ End("failed")
  /\ UNCHANGED <<active, cloud, now, disk, todo, localVars>>
-----------------------------------------------------------------------------
Return ==
  /\ stage = "ended"
  /\ stage' = "idle" /\ outcome' = "none" /\ todo' = Tail(todo)
  /\ UNCHANGED <<worldVars, localVars>>

\* The cloud makes an end of a backup.
Progress(m, i) ==
  /\ cloud[m][i] = "running"
  /\ \E s \in {"complete", "unavailable"} : cloud' = [cloud EXCEPT ![m][i] = s]
  /\ UNCHANGED <<active, now, disk, started, todo, stage, outcome, localVars>>

Step ==
  \/ Begin \/ Ask \/ AskFails \/ Report \/ Decide \/ Make \/ Made \/ Remove \/ Removed
  \/ Restore \/ Restored \/ Return

BackupNext == Step \/ \E m \in Machine, i \in Id : Progress(m, i)

BackupSpec == BackupInit /\ [][BackupNext]_backupVars

\* A command goes on; a backup does not run for ever.
FairBackupSpec ==
  /\ BackupSpec /\ WF_backupVars(Step)
  /\ \A m \in Machine, i \in Id : WF_backupVars(Progress(m, i))
-----------------------------------------------------------------------------
(* Properties.                                                             *)

Answers(f) == DOMAIN f \subseteq Id /\ \A i \in DOMAIN f : f[i] \in Status \ {"none"}

BackupTypeOK ==
  /\ active \subseteq Machine /\ cloud \in [Machine -> [Id -> Status]] /\ now \in 0 .. MaxId
  /\ disk \in [Machine -> 0 .. MaxId] /\ started \subseteq Machine
  /\ todo \in Seq(Requests) /\ before \in [Machine -> [Id -> Status]]
  /\ stage \in {"idle", "ask", "decide", "backup", "remove", "restore", "ended"}
  /\ outcome \in {"none", "ok", "failed"}
  /\ DOMAIN answers \subseteq Machine /\ \A m \in DOMAIN answers : Answers(answers[m])
  /\ DOMAIN report \subseteq Id
  /\ queue \subseteq Machine /\ errors \in BOOLEAN /\ tbr \subseteq Id

(* A backup that is called complete is there, and complete, on every machine
   that was asked for: also on those that had not answered yet when the others
   did. *)
CompleteMeansAll ==
  stage = "decide" =>
    \A i \in DOMAIN report : report[i] = "complete" =>
      \A m \in Selected : cloud[m][i] = "complete"

Everywhere(i) == \A m \in Selected : before[m][i] # "none"

(* Without --force no backup begins while one that all these machines take part
   in is running on any of them.  (One that another machine has no part in is
   reported as incomplete.) *)
NotWhileRunning ==
  [][stage = "decide" /\ stage' = "backup" =>
       \A m \in Selected, i \in Id : Everywhere(i) => cloud[m][i] # "running"]_backupVars

Cleaning == todo # <<>> /\ Command.op = "clean" /\ Command.days = 0 /\ stage # "idle"
Listed == {i \in Id : \E m \in active : before[m][i] # "none"}
Kept == {i \in Listed : Cardinality({j \in Listed : j > i}) < Command.keep}

(* clean-backups --keep n, given that there are n backups: wherever it stops, the
   n newest are untouched. *)
NewestKept ==
  Cleaning /\ Cardinality(Listed) >= Command.keep =>
    \A i \in Kept, m \in Machine : before[m][i] # "none" => cloud[m][i] # "none"

(* When it succeeds, what an active machine still had of an older backup is gone,
   from every machine that had it, obsolete ones included.  What only an obsolete
   machine had left of one, as it has when an earlier attempt failed there, is
   not listed: it stays. *)
OlderGone ==
  Cleaning /\ outcome = "ok" =>
    \A m \in Machine :
      /\ \A i \in Listed \ Kept : cloud[m][i] = "none"
      /\ \A i \in Id \ Listed : cloud[m][i] = "none" <=> before[m][i] = "none"

(* backup-status --wait comes to an end. *)
WaitEnds ==
  (todo # <<>> /\ Command.op = "status" /\ stage = "ask") ~> stage = "ended"
=============================================================================
