------------------------------ MODULE Records ------------------------------
(***************************************************************************)
(* The rows of a deployment in the state file, and the commands that make, *)
(* change and delete them (nixops/deployment.py, statefile.py,             *)
(* resources/__init__.py, script_defs.py).  Every statement is committed   *)
(* by itself.  A command opens the deployment and reads its rows once; it  *)
(* works with what it has read, and reads only attributes again.           *)
(*                                                                         *)
(* On a network with a lock driver commands come one after the other.  On  *)
(* one without, only deploy, destroy and restore exclude each other, by an *)
(* flock they take after they have read the rows.                          *)
(***************************************************************************)
EXTENDS Integers, FiniteSets

CONSTANTS
  Process,      \* the commands run on the state file, each once
  Name,         \* names of resources
  Arg,          \* names of network arguments
  MaxRow,       \* bound on the rows ever made
  Setups,       \* the networks, the commands and the rows there are at first
  Nobody

ASSUME RecordsAssumption ==
  MaxRow \in Nat \ {0} /\ Nobody \notin Process

\* The deployment the commands are about, and the one clone or import makes.
Uuid == {"first", "second"}
Row == 1 .. MaxRow

Ops == {"deploy", "backup", "destroy", "delete", "delete-resources", "rename",
        "clone", "import", "set-args"}

\* A command with its names: those a network defines, those a dump has, of
\* which the bad ones lack their type; for set-args arguments.
Command(c) ==
  /\ c.op \in Ops /\ c.from \in Name /\ c.to \in Name
  /\ c.names \subseteq (IF c.op = "set-args" THEN Arg ELSE Name)

\* A row of Resources with what matters of its ResourceAttrs.
Shape == [depl : Uuid, name : Name, obsolete : BOOLEAN, index : -1 .. MaxRow]

\* The rows there are at first: a deployment in order.
Ordered(s) ==
  /\ \A i \in DOMAIN s : s[i] \in Shape /\ s[i].depl = "first"
  /\ \A i, j \in DOMAIN s : s[i].name = s[j].name \/ s[i].index = s[j].index => i = j

ASSUME SetupsAssumption ==
  \A s \in Setups :
    /\ s.locked \in BOOLEAN /\ DOMAIN s.kind = Process
    /\ \A p \in Process : Command(s.kind[p])
    /\ \E n \in 0 .. MaxRow : DOMAIN s.rows = 1 .. n
    /\ Ordered(s.rows)

VARIABLES
  locked,       \* whether the network has a lock driver
  kind,         \* what each command is
  deployments,  \* Deployments
  rows,         \* Resources: a function from the ids there are
  lastRow,      \* its autoincrement
  args, configs,\* DeploymentAttrs: networkArgs, configsPath
  real,         \* the ids whose resources exist outside the state file
  flock,        \* who has the lock file of the deployment
  pc, view,     \* where a command is; Deployment.resources
  work,         \* what is left of the loop it is in
  read          \* what it has read of networkArgs

dbVars == <<deployments, rows, lastRow, args, configs>>
localVars == <<view, work, read>>
vars == <<locked, kind, dbVars, real, flock, pc, localVars>>

Ids(u) == {i \in DOMAIN rows : rows[i].depl = u}
Named(u, n) == {i \in Ids(u) : rows[i].name = n}

Ended == {"ok", "failed", "dead"}

Init ==
  /\ \E s \in Setups :
       /\ locked = s.locked /\ kind = s.kind
       /\ rows = s.rows /\ lastRow = Cardinality(DOMAIN s.rows) /\ real = DOMAIN s.rows
  /\ deployments = {"first"}
  /\ args = [u \in Uuid |-> {}] /\ configs = [u \in Uuid |-> u = "first"]
  /\ flock = Nobody
  /\ pc = [p \in Process |-> "idle"]
  /\ view = [p \in Process |-> [n \in {} |-> 0]]
  /\ work = [p \in Process |-> {}] /\ read = [p \in Process |-> {}]
-----------------------------------------------------------------------------
(* Statements.                                                             *)

At(p, where) == pc[p] = where
To(p, where) == pc' = [pc EXCEPT ![p] = where]

Leave(p, how) ==
  /\ To(p, how)
  /\ flock' = IF flock = p THEN Nobody ELSE flock
  /\ UNCHANGED localVars

\* Any exception: the flock is closed on the way out, nothing is undone.
Raise(p) == Leave(p, "failed") /\ UNCHANGED <<dbVars, real>>

FaultNoForeignKeys(i) == TRUE

\* An attribute can be stored only for a row there is (foreign key).  Only a
\* connection that found the database busy at every try goes on without that
\* (bare, in StateFile): no command here has such a one.
Storable(i) == i \in DOMAIN rows

WithRow(u, n, index) ==
  [i \in DOMAIN rows \cup {lastRow + 1} |->
     IF i = lastRow + 1
       THEN [depl |-> u, name |-> n, obsolete |-> FALSE, index |-> index]
       ELSE rows[i]]

Without(ids) == [i \in DOMAIN rows \ ids |-> rows[i]]

Update(i, row) == [j \in DOMAIN rows |-> IF j = i THEN row ELSE rows[j]]
-----------------------------------------------------------------------------
(* Opening: _find_deployment, Deployment.__init__.                         *)

Flocks == {"deploy", "destroy"}

\* create_deployment
Made(u) == u \notin deployments /\ deployments' = deployments \cup {u}

\* With a lock driver a command waits for the one that is under way.
Start(p) ==
  /\ At(p, "idle")
  /\ locked => \A q \in Process : pc[q] \in {"idle"} \cup Ended
  /\ To(p, "open")
  /\ UNCHANGED <<locked, kind, dbVars, real, flock, localVars>>

Found == {rows[i].name : i \in Ids("first")}

\* One entry per name; of two rows of a name the later one is read last.
Resources(v) ==
  \A n \in Found : v[n] \in Named("first", n) /\ \A j \in Named("first", n) : j <= v[n]

First(p) ==
  IF kind[p].op \in Flocks THEN "flock"
  ELSE IF kind[p].op = "backup" THEN "make"
  ELSE IF kind[p].op = "delete-resources" THEN "forget" ELSE kind[p].op

Open(p) ==
  /\ At(p, "open") /\ kind[p].op # "import"
  /\ IF "first" \notin deployments THEN Raise(p)
     ELSE \E v \in [Found -> Ids("first")] :
            /\ Resources(v)
            /\ view' = [view EXCEPT ![p] = v]
            /\ work' = [work EXCEPT ![p] =
                 IF kind[p].op = "backup" THEN kind[p].names \ Found ELSE Found]
            /\ To(p, First(p))
            /\ UNCHANGED <<dbVars, real, flock, read>>
  /\ UNCHANGED <<locked, kind>>

Flock(p) ==
  /\ At(p, "flock") /\ flock = Nobody
  /\ flock' = p
  /\ To(p, IF kind[p].op = "deploy" THEN "make" ELSE "destroy")
  /\ work' = [work EXCEPT ![p] =
       IF kind[p].op = "deploy" THEN kind[p].names \ DOMAIN view[p] ELSE DOMAIN view[p]]
  /\ UNCHANGED <<locked, kind, dbVars, real, view, read>>
-----------------------------------------------------------------------------
(* deploy and backup: evaluate_active, the indices, the resources.         *)

FaultNoSelect(u, n) == FALSE

\* _create_resource looks before it inserts.
Taken(u, n) == Named(u, n) # {}

\* The name p is about to insert is the one it has looked for.
Select(p) ==
  /\ At(p, "make")
  /\ IF work[p] = {} THEN /\ To(p, "mark")
                          /\ work' = [work EXCEPT ![p] = DOMAIN view[p]]
                          /\ UNCHANGED <<dbVars, real, flock, view, read>>
     ELSE \E n \in work[p] :
            IF Taken("first", n) THEN Raise(p)
            ELSE /\ To(p, "insert") /\ read' = [read EXCEPT ![p] = {n}]
                 /\ UNCHANGED <<dbVars, real, flock, view, work>>
  /\ UNCHANGED <<locked, kind>>

Insert(p) ==
  /\ At(p, "insert") /\ lastRow < MaxRow
  /\ IF "first" \notin deployments THEN Raise(p)
     ELSE \E n \in read[p] :
            /\ rows' = WithRow("first", n, -1) /\ lastRow' = lastRow + 1
            /\ view' = [view EXCEPT ![p] = [m \in DOMAIN @ \cup {n} |->
                                              IF m = n THEN lastRow + 1 ELSE @[m]]]
            /\ To(p, "make") /\ work' = [work EXCEPT ![p] = @ \ {n}]
            /\ read' = [read EXCEPT ![p] = {}]
            /\ UNCHANGED <<deployments, args, configs, real, flock>>
  /\ UNCHANGED <<locked, kind>>

\* obsolete is read from the state file, and stored only if it changes.
Obsolete(i) == i \in DOMAIN rows /\ rows[i].obsolete

Active(p) == {n \in DOMAIN view[p] : ~ Obsolete(view[p][n])}

Mark(p) ==
  /\ At(p, "mark")
  /\ IF work[p] = {}
       THEN IF kind[p].op = "backup"
              THEN Leave(p, "ok") /\ UNCHANGED <<dbVars, real>>
              ELSE /\ To(p, "index") /\ work' = [work EXCEPT ![p] = Active(p)]
                   /\ UNCHANGED <<dbVars, real, flock, view, read>>
       ELSE \E n \in work[p] :
              LET i == view[p][n]
                  o == n \notin kind[p].names
                  changes == Obsolete(i) # o IN
              IF changes /\ ~ Storable(i) THEN Raise(p)
              ELSE /\ rows' = IF changes /\ i \in DOMAIN rows
                                THEN Update(i, [rows[i] EXCEPT !.obsolete = o]) ELSE rows
                   /\ work' = [work EXCEPT ![p] = @ \ {n}]
                   /\ UNCHANGED <<deployments, lastRow, args, configs, real, flock, pc,
                                  view, read>>
  /\ UNCHANGED <<locked, kind>>

Index(i) == IF i \in DOMAIN rows THEN rows[i].index ELSE -1

FaultCount(p, k) == k = Cardinality({n \in DOMAIN view[p] : Index(view[p][n]) # -1})

\* _get_free_resource_index, among the resources p knows of.
Free(p, k) ==
  /\ \A n \in DOMAIN view[p] : Index(view[p][n]) < k
  /\ k = 0 \/ \E n \in DOMAIN view[p] : Index(view[p][n]) = k - 1

Number(p) ==
  /\ At(p, "index")
  /\ IF work[p] = {} THEN /\ To(p, "create") /\ work' = [work EXCEPT ![p] = Active(p)]
                          /\ UNCHANGED <<dbVars, real, flock, view, read>>
     ELSE \E n \in work[p] :
            LET i == view[p][n] IN
            IF Index(i) = -1 /\ ~ Storable(i) THEN Raise(p)
            ELSE /\ IF Index(i) = -1 /\ i \in DOMAIN rows
                      THEN \E k \in 0 .. MaxRow :
                             /\ Free(p, k)
                             /\ rows' = Update(i, [rows[i] EXCEPT !.index = k])
                      ELSE UNCHANGED rows
                 /\ work' = [work EXCEPT ![p] = @ \ {n}]
                 /\ UNCHANGED <<deployments, lastRow, args, configs, real, flock, pc,
                                view, read>>
  /\ UNCHANGED <<locked, kind>>

\* The worker of _deploy stores a creation time, then create() makes the
\* resource; it raises if the row is gone.
Create(p) ==
  /\ At(p, "create")
  /\ IF work[p] = {} THEN Leave(p, "ok") /\ UNCHANGED <<dbVars, real>>
     ELSE \E n \in work[p] :
            IF ~ Storable(view[p][n]) THEN Raise(p)
            ELSE /\ real' = real \cup {view[p][n]}
                 /\ work' = [work EXCEPT ![p] = @ \ {n}]
                 /\ UNCHANGED <<dbVars, flock, pc, view, read>>
  /\ UNCHANGED <<locked, kind>>
-----------------------------------------------------------------------------
(* destroy, delete-resources, delete.                                      *)

\* destroy() makes an end of the resource, or is declined; then its row goes.
Destroy(p) ==
  /\ At(p, "destroy")
  /\ IF work[p] = {} THEN Leave(p, "ok") /\ UNCHANGED <<dbVars, real>>
     ELSE \E n \in work[p] :
            \/ /\ real' = real \ {view[p][n]} /\ To(p, "drop")
               /\ read' = [read EXCEPT ![p] = {n}]
               /\ UNCHANGED <<dbVars, flock, view, work>>
            \/ /\ work' = [work EXCEPT ![p] = @ \ {n}]
               /\ UNCHANGED <<dbVars, real, flock, pc, view, read>>
  /\ UNCHANGED <<locked, kind>>

\* delete_resource: by the id that was read.
Deleted(p, n) == {view[p][n]}

Forget(p, n) ==
  /\ rows' = Without(Deleted(p, n))
  /\ view' = [view EXCEPT ![p] = [m \in DOMAIN @ \ {n} |-> @[m]]]
  /\ work' = [work EXCEPT ![p] = @ \ {n}]

Drop(p) ==
  /\ At(p, "drop")
  /\ \E n \in read[p] : Forget(p, n)
  /\ To(p, "destroy") /\ read' = [read EXCEPT ![p] = {}]
  /\ UNCHANGED <<locked, kind, deployments, lastRow, args, configs, real, flock>>

\* delete_resources: the user confirms or not.
DeleteResources(p) ==
  /\ At(p, "forget")
  /\ IF work[p] = {} THEN Leave(p, "ok") /\ UNCHANGED <<dbVars, real>>
     ELSE \E n \in work[p] :
            \/ Forget(p, n) /\ UNCHANGED <<pc, read, deployments, lastRow, args, configs,
                                          real, flock>>
            \/ /\ work' = [work EXCEPT ![p] = @ \ {n}]
               /\ UNCHANGED <<dbVars, real, flock, pc, view, read>>
  /\ UNCHANGED <<locked, kind>>

\* Without --force a deployment that has resources is not deleted.
Deletable(p) == DOMAIN view[p] = {}

\* The row of the deployment takes the others with it (on delete cascade).
Delete(p) ==
  /\ At(p, "delete")
  /\ IF ~ Deletable(p) THEN Raise(p)
     ELSE /\ deployments' = deployments \ {"first"}
          /\ rows' = Without(Ids("first"))
          /\ args' = [args EXCEPT !["first"] = {}]
          /\ configs' = [configs EXCEPT !["first"] = FALSE]
          /\ Leave(p, "ok") /\ UNCHANGED <<lastRow, real>>
  /\ UNCHANGED <<locked, kind>>
-----------------------------------------------------------------------------
(* rename, clone, import, set-args.                                        *)

\* Both names are looked for in the resources that were read.
Renamable(p, n) == n \notin DOMAIN view[p]

Rename(p) ==
  /\ At(p, "rename")
  /\ LET from == kind[p].from
         to == kind[p].to IN
     IF from \notin DOMAIN view[p] \/ ~ Renamable(p, to) THEN Raise(p)
     ELSE LET i == view[p][from] IN
          /\ rows' = IF i \in DOMAIN rows THEN Update(i, [rows[i] EXCEPT !.name = to])
                     ELSE rows
          /\ Leave(p, "ok")
          /\ UNCHANGED <<deployments, lastRow, args, configs, real>>
  /\ UNCHANGED <<locked, kind>>

\* _get_attr, _set_attrs: there is nothing to read of a deployment that is gone,
\* and nowhere to write.
Got(u) == args[u]

Set(u, value) == u \in deployments /\ args' = [args EXCEPT ![u] = value]

\* Three statements.
Clone(p) ==
  \/ /\ At(p, "clone") /\ Made("second")
     /\ To(p, "copy")
     /\ UNCHANGED <<locked, kind, rows, lastRow, args, configs, real, flock, localVars>>
  \/ /\ At(p, "copy")
     /\ args' = [args EXCEPT !["second"] = args["first"]]
     /\ configs' = [configs EXCEPT !["second"] = configs["first"]]
     /\ To(p, "uncopy")
     /\ UNCHANGED <<locked, kind, deployments, rows, lastRow, real, flock, localVars>>
  \/ /\ At(p, "uncopy")
     /\ configs' = [configs EXCEPT !["second"] = FALSE]
     /\ Leave(p, "ok")
     /\ UNCHANGED <<locked, kind, deployments, rows, lastRow, args, real>>

\* A resource brings its index.
Brought(u) == Cardinality(Ids(u))

\* A dump of the deployment "second".
Import(p) ==
  /\ At(p, "open") /\ kind[p].op = "import"
  /\ IF "second" \in deployments THEN Raise(p)
     ELSE /\ Made("second")
          /\ To(p, "import") /\ work' = [work EXCEPT ![p] = kind[p].names]
          /\ UNCHANGED <<rows, lastRow, args, configs, real, flock, view, read>>
  /\ UNCHANGED <<locked, kind>>

ImportResource(p) ==
  /\ At(p, "import")
  /\ IF work[p] = {} THEN Leave(p, "ok") /\ UNCHANGED <<dbVars, real>>
     ELSE \E n \in work[p] :
            IF n \in kind[p].bad \/ Taken("second", n) THEN Raise(p)
            ELSE /\ lastRow < MaxRow
                 /\ rows' = WithRow("second", n, Brought("second"))
                 /\ lastRow' = lastRow + 1
                 /\ work' = [work EXCEPT ![p] = @ \ {n}]
                 /\ UNCHANGED <<deployments, args, configs, real, flock, pc, view, read>>
  /\ UNCHANGED <<locked, kind>>

\* set_arg: the arguments that were read, and one more.
Together(p) == read[p] \cup kind[p].names

SetArgs(p) ==
  \/ /\ At(p, "set-args")
     /\ read' = [read EXCEPT ![p] = Got("first")]
     /\ To(p, "store")
     /\ UNCHANGED <<locked, kind, dbVars, real, flock, view, work>>
  \/ /\ At(p, "store")
     /\ IF "first" \notin deployments THEN Raise(p)
        ELSE /\ Set("first", Together(p))
             /\ Leave(p, "ok")
             /\ UNCHANGED <<deployments, rows, lastRow, configs, real>>
     /\ UNCHANGED <<locked, kind>>
-----------------------------------------------------------------------------
\* Killed: the kernel closes the flock.
Die(p) ==
  /\ pc[p] \notin {"idle"} \cup Ended
  /\ Leave(p, "dead")
  /\ UNCHANGED <<locked, kind, dbVars, real>>

Step(p) ==
  \/ Start(p) \/ Open(p) \/ Flock(p)
  \/ Select(p) \/ Insert(p) \/ Mark(p) \/ Number(p) \/ Create(p)
  \/ Destroy(p) \/ Drop(p) \/ DeleteResources(p) \/ Delete(p)
  \/ Rename(p) \/ Clone(p) \/ Import(p) \/ ImportResource(p) \/ SetArgs(p)

Next == \E p \in Process : Step(p) \/ Die(p)

Spec == Init /\ [][Next]_vars
-----------------------------------------------------------------------------
(* Properties.                                                             *)

TypeOK ==
  /\ locked \in BOOLEAN /\ deployments \subseteq Uuid
  /\ DOMAIN kind = Process /\ \A p \in Process : Command(kind[p])
  /\ DOMAIN rows \subseteq 1 .. lastRow /\ \A i \in DOMAIN rows : rows[i] \in Shape
  /\ lastRow \in 0 .. MaxRow
  /\ args \in [Uuid -> SUBSET Arg] /\ configs \in [Uuid -> BOOLEAN]
  /\ real \subseteq Row /\ flock \in Process \cup {Nobody}
  /\ DOMAIN pc = Process /\ DOMAIN view = Process
  /\ \A p \in Process : DOMAIN view[p] \subseteq Name
                       /\ \A n \in DOMAIN view[p] : view[p][n] \in Row
  /\ work \in [Process -> SUBSET Name] /\ read \in [Process -> SUBSET (Name \cup Arg)]

\* One command after the other, or only such as exclude each other by the
\* flock.
KeptApart == locked \/ \A p \in Process : kind[p].op \in Flocks

(* A deployment never has two resources of one name, of which the next command
   would see only the later: also when a command works with rows it has read
   before it got the flock. *)
NamesUnique ==
  KeptApart =>
    \A i, j \in DOMAIN rows :
      rows[i].depl = rows[j].depl /\ rows[i].name = rows[j].name => i = j

(* What exists has its row: a deployment that others have changed since it was
   read is not deployed, one that has resources is not deleted, and no command
   takes away the row of another resource than it has destroyed, wherever it
   is killed.  (delete-resources is there to forget.) *)
NothingLost ==
  KeptApart /\ (\A p \in Process : kind[p].op # "delete-resources")
    => real \subseteq DOMAIN rows

(* No two resources of a deployment have one index, whatever was deleted,
   renamed or imported before. *)
IndicesUnique ==
  locked =>
    \A i, j \in DOMAIN rows :
      rows[i].depl = rows[j].depl /\ rows[i].index = rows[j].index /\ rows[i].index # -1
        => i = j
=============================================================================
