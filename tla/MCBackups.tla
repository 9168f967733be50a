----------------------------- MODULE MCBackups -----------------------------
(***************************************************************************)
(* Three machines, of which one may be obsolete, or all; pairs of commands *)
(* after which the cloud may still be at work.                             *)
(***************************************************************************)
EXTENDS Backups

Plain == [op |-> "", include |-> {}, force |-> FALSE, keep |-> 0, days |-> 0, id |-> 1,
          wait |-> FALSE, which |-> "all"]

BackupCommands ==
  {[Plain EXCEPT !.op = "backup", !.include = i, !.force = f] :
     i \in {{}, {1}, {2, 3}}, f \in BOOLEAN}
CleanCommands ==
  {[Plain EXCEPT !.op = "clean", !.keep = k, !.days = d] : k \in {1, 3}, d \in {0}}
    \cup {[Plain EXCEPT !.op = "clean", !.days = 1]}
OtherCommands ==
  {[Plain EXCEPT !.op = "remove", !.id = i] : i \in {1}}
    \cup {[Plain EXCEPT !.op = "restore", !.id = 2]}
    \cup {[Plain EXCEPT !.op = "status", !.wait = w, !.which = s, !.id = 3] :
            w \in BOOLEAN, s \in {"all", "latest", "id"}}

Commands == BackupCommands \cup CleanCommands \cup OtherCommands

Clouds ==
  {[m \in Machine |-> [i \in Id |-> IF i <= 2 THEN "complete" ELSE "none"]],
   [m \in Machine |-> [i \in Id |-> IF i = 1 /\ m = 1 THEN "none"
                                    ELSE IF i <= 2 THEN "complete" ELSE "none"]]}

MCSetups ==
  [active : {{}, {1, 2}, {1, 2, 3}}, cloud : Clouds, now : {2},
   todo : {<<c, d>> : c \in BackupCommands, d \in Commands}
          \cup {<<c, d>> : c \in {x \in CleanCommands : x.days = 0}, d \in CleanCommands}]
=============================================================================
