--------------------------- MODULE RecordsProofs ----------------------------
(***************************************************************************)
(* Proofs about Records: for any number of commands on any rows, with a    *)
(* lock driver or with nothing but the flock, names and indices stay       *)
(* unique and what exists keeps its row.                                   *)
(***************************************************************************)
EXTENDS Records, FiniteSetTheorems, TLAPS

\* Where a command of each kind can be.
Phase(p) ==
  /\ pc[p] \in {"idle", "open", "flock", "make", "insert", "mark", "index", "create",
               "destroy", "drop", "forget", "delete", "rename", "clone", "copy",
               "uncopy", "import", "set-args", "store"} \cup Ended
  /\ pc[p] = "flock" => kind[p].op \in Flocks
  /\ pc[p] \in {"make", "insert", "mark"} => kind[p].op \in {"deploy", "backup"}
  /\ pc[p] \in {"index", "create"} => kind[p].op = "deploy"
  /\ pc[p] \in {"destroy", "drop"} => kind[p].op = "destroy"
  /\ pc[p] = "forget" => kind[p].op = "delete-resources"
  /\ pc[p] = "delete" => kind[p].op = "delete"
  /\ pc[p] = "rename" => kind[p].op = "rename"
  /\ pc[p] \in {"clone", "copy", "uncopy"} => kind[p].op = "clone"
  /\ pc[p] = "import" => kind[p].op = "import"
  /\ pc[p] \in {"set-args", "store"} => kind[p].op = "set-args"

\* What it has in hand there.
Hand(p) ==
  /\ pc[p] \in {"mark", "index", "create", "destroy", "drop", "forget"} =>
       work[p] \subseteq DOMAIN view[p]
  /\ pc[p] = "drop" => read[p] \subseteq DOMAIN view[p]
  /\ pc[p] \in {"insert", "drop"} => read[p] \subseteq Name
  /\ pc[p] = "store" => read[p] \subseteq Arg

Places == \A p \in Process : Phase(p) /\ Hand(p)

Busy(p) == pc[p] \notin {"idle"} \cup Ended
Acting(p) == pc[p] \notin {"idle", "open", "flock"} \cup Ended

\* With a lock one command at a time is under way; the flock is with the one
\* that acts.
Apart ==
  /\ locked => \A p, q \in Process : Busy(p) /\ Busy(q) => p = q
  /\ \A p \in Process : kind[p].op \in Flocks /\ Acting(p) => flock = p

\* The ids a command knows are those of the first deployment, and are not used
\* again.
Ours ==
  \A p \in Process : \A n \in DOMAIN view[p] :
    /\ view[p][n] <= lastRow
    /\ view[p][n] \in DOMAIN rows => rows[view[p][n]].depl = "first"

\* Under the lock what has been read is what there is.
Seen ==
  locked => \A p \in Process : (Acting(p) /\ kind[p].op # "import") \/ pc[p] = "flock" =>
    \A i \in Ids("first") : rows[i].name \in DOMAIN view[p] /\ view[p][rows[i].name] = i

\* The name about to be inserted is free; the row about to go is of nothing.
Fresh ==
  KeptApart => \A p \in Process :
    /\ pc[p] = "insert" => \A n \in read[p] : Named("first", n) = {}
    /\ pc[p] = "drop" => \A n \in read[p] : view[p][n] \notin real

\* The resources of an imported deployment are numbered in order.
Counted == \A i \in Ids("second") : rows[i].index < Cardinality(Ids("second"))

IInv == Apart /\ Ours /\ NamesUnique /\ Seen /\ Fresh /\ Counted
-----------------------------------------------------------------------------
(* The rows under the statements that change them.                         *)

RowsOK == /\ DOMAIN rows \subseteq 1 .. lastRow /\ lastRow \in 0 .. MaxRow
          /\ \A i \in DOMAIN rows : rows[i] \in Shape

ViewOK(v) == DOMAIN v \subseteq Name /\ \A n \in DOMAIN v : v[n] \in Row

LEMMA RowsWith ==
  ASSUME RowsOK, lastRow < MaxRow, NEW u \in Uuid, NEW n \in Name,
         NEW k \in -1 .. MaxRow, rows' = WithRow(u, n, k), lastRow' = lastRow + 1
  PROVE  /\ RowsOK' /\ lastRow' \notin DOMAIN rows /\ lastRow' \in Row
         /\ DOMAIN rows' = DOMAIN rows \cup {lastRow'}
         /\ rows'[lastRow'] = [depl |-> u, name |-> n, obsolete |-> FALSE, index |-> k]
         /\ \A i \in DOMAIN rows : rows'[i] = rows[i]
<1>1. MaxRow \in Nat
  BY RecordsAssumption
<1>2. lastRow \in 0 .. MaxRow /\ lastRow' \in 1 .. MaxRow
  BY <1>1 DEF RowsOK
<1>3. lastRow' \notin DOMAIN rows
  BY <1>2 DEF RowsOK
<1>4. /\ DOMAIN rows' = DOMAIN rows \cup {lastRow'}
      /\ rows'[lastRow'] = [depl |-> u, name |-> n, obsolete |-> FALSE, index |-> k]
      /\ \A i \in DOMAIN rows : rows'[i] = rows[i]
  BY <1>3 DEF WithRow
<1>5. rows'[lastRow'] \in Shape
  BY <1>4 DEF Shape
<1>6. DOMAIN rows' \subseteq 1 .. lastRow'
  BY <1>2, <1>4 DEF RowsOK
<1> QED
  BY <1>1, <1>2, <1>3, <1>4, <1>5, <1>6 DEF RowsOK, Row

LEMMA RowsWithout ==
  ASSUME RowsOK, NEW ids, rows' = Without(ids), UNCHANGED lastRow
  PROVE  /\ RowsOK' /\ DOMAIN rows' = DOMAIN rows \ ids
         /\ \A i \in DOMAIN rows' : rows'[i] = rows[i]
BY DEF RowsOK, Without

LEMMA RowsUpdate ==
  ASSUME RowsOK, NEW i \in DOMAIN rows, NEW r \in Shape, rows' = Update(i, r), UNCHANGED lastRow
  PROVE  /\ RowsOK' /\ DOMAIN rows' = DOMAIN rows /\ rows'[i] = r
         /\ \A j \in DOMAIN rows \ {i} : rows'[j] = rows[j]
BY DEF RowsOK, Update

\* A change of one field.
LEMMA Fields ==
  ASSUME NEW r \in Shape
  PROVE  /\ \A o \in BOOLEAN :
              LET s == [r EXCEPT !.obsolete = o] IN
              s \in Shape /\ s.depl = r.depl /\ s.name = r.name /\ s.index = r.index
         /\ \A k \in -1 .. MaxRow :
              LET s == [r EXCEPT !.index = k] IN
              s \in Shape /\ s.depl = r.depl /\ s.name = r.name /\ s.index = k
         /\ \A n \in Name :
              LET s == [r EXCEPT !.name = n] IN
              s \in Shape /\ s.depl = r.depl /\ s.name = n /\ s.index = r.index
BY DEF Shape

LEMMA IdsCount ==
  ASSUME RowsOK, NEW u
  PROVE  /\ IsFiniteSet(Ids(u)) /\ Cardinality(Ids(u)) \in Nat
         /\ Cardinality(Ids(u)) <= lastRow
<1>1. lastRow \in Nat /\ 1 \in Int /\ lastRow \in Int
  BY RecordsAssumption DEF RowsOK
<1>2. IsFiniteSet(1 .. lastRow) /\ Cardinality(1 .. lastRow) = lastRow
  BY <1>1, FS_Interval
<1>3. Ids(u) \subseteq 1 .. lastRow
  BY DEF Ids, RowsOK
<1> QED
  BY <1>2, <1>3, FS_Subset, FS_CardinalityType
-----------------------------------------------------------------------------
(* Types.                                                                  *)

\* A step changes what its own command has, and no command.
Own(p) ==
  /\ UNCHANGED <<locked, kind>>
  /\ DOMAIN pc' = Process /\ DOMAIN view' = Process
  /\ work' = [q \in Process |-> work'[q]] /\ read' = [q \in Process |-> read'[q]]
  /\ \A q \in Process \ {p} :
       /\ pc'[q] = pc[q] /\ view'[q] = view[q]
       /\ work'[q] = work[q] /\ read'[q] = read[q]

Shaped == /\ DOMAIN pc = Process /\ DOMAIN view = Process
          /\ work = [q \in Process |-> work[q]] /\ read = [q \in Process |-> read[q]]

LEMMA OwnStep ==
  ASSUME Shaped, NEW p \in Process, Step(p) \/ Die(p)
  PROVE  Own(p)
<1> USE DEF Shaped, Own, localVars, dbVars, To, Leave, Raise
<1>1. CASE Start(p)  BY <1>1 DEF Start
<1>2. CASE Open(p)  BY <1>2 DEF Open
<1>3. CASE Flock(p)  BY <1>3 DEF Flock
<1>4. CASE Select(p)  BY <1>4 DEF Select
<1>5. CASE Insert(p)  BY <1>5 DEF Insert
<1>6. CASE Mark(p)  BY <1>6 DEF Mark
<1>7. CASE Number(p)  BY <1>7 DEF Number
<1>8. CASE Create(p)  BY <1>8 DEF Create
<1>9. CASE Destroy(p)  BY <1>9 DEF Destroy
<1>10. CASE Drop(p)  BY <1>10 DEF Drop, Forget
<1>11. CASE DeleteResources(p)  BY <1>11 DEF DeleteResources, Forget
<1>12. CASE Delete(p)  BY <1>12 DEF Delete
<1>13. CASE Rename(p)  BY <1>13 DEF Rename
<1>14. CASE Clone(p)  BY <1>14 DEF Clone
<1>15. CASE Import(p)  BY <1>15 DEF Import
<1>16. CASE ImportResource(p)  BY <1>16 DEF ImportResource
<1>17. CASE SetArgs(p)  BY <1>17 DEF SetArgs
<1>18. CASE Die(p)  BY <1>18 DEF Die
<1> QED
  BY <1>1, <1>2, <1>3, <1>4, <1>5, <1>6, <1>7, <1>8, <1>9, <1>10, <1>11, <1>12, <1>13,
     <1>14, <1>15, <1>16, <1>17, <1>18 DEF Step

LEMMA OwnPlaces ==
  ASSUME Places, NEW p \in Process, Own(p), Phase(p)', Hand(p)'
  PROVE  Places'
<1>1. SUFFICES ASSUME NEW q \in Process \ {p}  PROVE Phase(q)' /\ Hand(q)'
  BY DEF Places
<1>2. /\ kind' = kind /\ pc'[q] = pc[q] /\ view'[q] = view[q]
      /\ work'[q] = work[q] /\ read'[q] = read[q]
  BY DEF Own
<1>3. Phase(q) /\ Hand(q)
  BY DEF Places
<1> QED
  BY <1>2, <1>3 DEF Phase, Hand

\* TypeOK and Places in parts: the state file, the flock and what exists, and
\* what one command has.
HeadsOK == /\ deployments \subseteq Uuid
           /\ args \in [Uuid -> SUBSET Arg] /\ configs \in [Uuid -> BOOLEAN]

DbOK == RowsOK /\ HeadsOK /\ real \subseteq Row /\ flock \in Process \cup {Nobody}

LocalOK(p) == /\ ViewOK(view[p]) /\ work[p] \subseteq Name
              /\ read[p] \subseteq Name \cup Arg

\* What there is of a command when it takes a step, and what is left.
Typed(p) == DbOK /\ Command(kind[p]) /\ LocalOK(p) /\ Phase(p) /\ Hand(p) /\ Shaped

Keeps(p) == DbOK' /\ LocalOK(p)' /\ Phase(p)' /\ Hand(p)'

LEMMA LeaveTypes ==
  ASSUME NEW p \in Process, Typed(p), NEW how \in Ended, Leave(p, how),
         UNCHANGED <<locked, kind>>
  PROVE  /\ flock' \in Process \cup {Nobody}
         /\ LocalOK(p)' /\ Phase(p)' /\ Hand(p)'
BY DEF Leave, To, localVars, Ended, Typed, Phase, Hand, LocalOK, ViewOK, DbOK, Shaped

LEMMA RaiseTypes ==
  ASSUME NEW p \in Process, Typed(p), Raise(p), UNCHANGED <<locked, kind>>
  PROVE  Keeps(p)
<1>1. "failed" \in Ended /\ Leave(p, "failed") /\ UNCHANGED <<dbVars, real>>
  BY DEF Raise, Ended
<1>2. RowsOK' /\ HeadsOK' /\ real' \subseteq Row
  BY <1>1 DEF Typed, DbOK, RowsOK, HeadsOK, dbVars
<1> QED
  BY <1>1, <1>2, LeaveTypes DEF Keeps, DbOK

\* The same for an end with nothing done.
LEMMA DoneTypes ==
  ASSUME NEW p \in Process, Typed(p), Leave(p, "ok"), UNCHANGED <<locked, kind, dbVars, real>>
  PROVE  Keeps(p)
<1>1. "ok" \in Ended
  BY DEF Ended
<1>2. RowsOK' /\ HeadsOK' /\ real' \subseteq Row
  BY DEF Typed, DbOK, RowsOK, HeadsOK, dbVars
<1> QED
  BY <1>1, <1>2, LeaveTypes DEF Keeps, DbOK

\* A step that keeps the state file.
LEMMA DbSame ==
  ASSUME DbOK, UNCHANGED <<dbVars, real, flock>>
  PROVE  DbOK'
BY DEF DbOK, RowsOK, HeadsOK, dbVars

LEMMA StartTypes ==
  ASSUME NEW p \in Process, Typed(p), Start(p)
  PROVE  Keeps(p)
<1>1. DbOK'
  BY DbSame DEF Start, Typed
<1> QED
  BY <1>1 DEF Start, Typed, Keeps, Phase, Hand, LocalOK, ViewOK, Shaped, At, To, localVars, Ended

LEMMA OpenTypes ==
  ASSUME NEW p \in Process, Typed(p), Open(p)
  PROVE  Keeps(p)
<1>1. CASE "first" \notin deployments
  BY <1>1, RaiseTypes DEF Open
<1>2. CASE "first" \in deployments
  <2>1. PICK v \in [Found -> Ids("first")] :
          /\ view' = [view EXCEPT ![p] = v]
          /\ work' = [work EXCEPT ![p] =
               IF kind[p].op = "backup" THEN kind[p].names \ Found ELSE Found]
          /\ To(p, First(p))
          /\ UNCHANGED <<dbVars, real, flock, read>>
    BY <1>2 DEF Open
  <2>2. /\ kind' = kind /\ pc[p] = "open" /\ kind[p].op # "import"
        /\ pc'[p] = First(p) /\ read'[p] = read[p] /\ view'[p] = v
        /\ work'[p] = IF kind[p].op = "backup" THEN kind[p].names \ Found ELSE Found
    BY <2>1 DEF Open, At, To, Typed, Shaped
  <2>3. Found \subseteq Name /\ Ids("first") \subseteq Row /\ DOMAIN v = Found
    BY <2>1, RecordsAssumption DEF Found, Ids, Typed, DbOK, RowsOK, Shape, Row
  <2>4. DbOK'
    BY <2>1, DbSame DEF Typed
  <2>5. kind[p].op # "set-args" => kind[p].names \subseteq Name
    BY DEF Typed, Command
  <2>6. LocalOK(p)'
    BY <2>1, <2>2, <2>3, <2>5 DEF LocalOK, ViewOK, Typed
  <2>7. Phase(p)'
    BY <2>2 DEF Phase, First, Flocks, Ended, Typed, Command, Ops
  <2>8. pc'[p] \in {"destroy", "forget"} => work'[p] = DOMAIN view'[p]
    BY <2>2, <2>3 DEF First, Flocks
  <2>9. pc'[p] \notin {"mark", "index", "create", "drop", "insert", "store"}
    BY <2>2 DEF First, Flocks, Typed, Command, Ops
  <2> QED
    BY <2>4, <2>6, <2>7, <2>8, <2>9 DEF Keeps, Hand
<1> QED
  BY <1>1, <1>2

LEMMA FlockTypes ==
  ASSUME NEW p \in Process, Typed(p), Flock(p)
  PROVE  Keeps(p)
<1>1. RowsOK' /\ HeadsOK' /\ real' \subseteq Row /\ flock' = p
  BY DEF Flock, Typed, DbOK, RowsOK, HeadsOK, dbVars
<1>2. /\ kind' = kind /\ view' = view /\ read' = read /\ pc[p] = "flock"
      /\ pc'[p] = IF kind[p].op = "deploy" THEN "make" ELSE "destroy"
      /\ work'[p] = IF kind[p].op = "deploy" THEN kind[p].names \ DOMAIN view[p]
                    ELSE DOMAIN view[p]
  BY DEF Flock, At, To, Typed, Shaped
<1>3. kind[p].op # "set-args" => kind[p].names \subseteq Name
  BY DEF Typed, Command
<1>4. LocalOK(p)'
  BY <1>2, <1>3 DEF LocalOK, ViewOK, Typed, Phase, Flocks
<1>5. Phase(p)' /\ Hand(p)'
  BY <1>2 DEF Phase, Hand, Typed, Flocks
<1> QED
  BY <1>1, <1>4, <1>5 DEF Keeps, DbOK

LEMMA SelectTypes ==
  ASSUME NEW p \in Process, Typed(p), Select(p)
  PROVE  Keeps(p)
<1>1. CASE \E n \in work[p] : Taken("first", n) /\ Raise(p)
  BY <1>1, RaiseTypes DEF Select
<1>2. CASE ~ \E n \in work[p] : Taken("first", n) /\ Raise(p)
  <2>1. DbOK'
    BY <1>2, DbSame DEF Select, Typed
  <2> QED
    BY <1>2, <2>1 DEF Select, Typed, Keeps, Phase, Hand, LocalOK, ViewOK, Shaped, At, To, Ended
<1> QED
  BY <1>1, <1>2

LEMMA InsertTypes ==
  ASSUME NEW p \in Process, Typed(p), Insert(p)
  PROVE  Keeps(p)
<1>1. CASE "first" \notin deployments
  BY <1>1, RaiseTypes DEF Insert
<1>2. CASE "first" \in deployments
  <2>1. PICK n \in read[p] :
          /\ rows' = WithRow("first", n, -1) /\ lastRow' = lastRow + 1
          /\ view' = [view EXCEPT ![p] = [m \in DOMAIN @ \cup {n} |->
                                            IF m = n THEN lastRow + 1 ELSE @[m]]]
          /\ To(p, "make") /\ work' = [work EXCEPT ![p] = @ \ {n}]
          /\ read' = [read EXCEPT ![p] = {}]
          /\ UNCHANGED <<deployments, args, configs, real, flock>>
    BY <1>2 DEF Insert
  <2>2. /\ kind' = kind /\ pc[p] = "insert" /\ lastRow < MaxRow
        /\ pc'[p] = "make" /\ work'[p] = work[p] \ {n} /\ read'[p] = {}
        /\ view'[p] = [m \in DOMAIN view[p] \cup {n} |->
                         IF m = n THEN lastRow + 1 ELSE view[p][m]]
    BY <2>1 DEF Insert, At, To, Typed, Shaped
  <2>3. n \in Name
    BY <2>2 DEF Typed, Hand
  <2>4. "first" \in Uuid /\ -1 \in -1 .. MaxRow /\ RowsOK
    BY RecordsAssumption DEF Uuid, Typed, DbOK
  <2>5. RowsOK' /\ lastRow' \in Row
    BY <2>1, <2>2, <2>3, <2>4, RowsWith
  <2>6. DbOK'
    BY <2>1, <2>5 DEF DbOK, HeadsOK, Typed
  <2>7. ViewOK(view'[p])
    BY <2>1, <2>2, <2>3, <2>5 DEF Typed, LocalOK, ViewOK
  <2>8. LocalOK(p)'
    BY <2>2, <2>7 DEF Typed, LocalOK, ViewOK
  <2>9. Phase(p)' /\ Hand(p)'
    BY <2>2 DEF Phase, Hand, Typed
  <2> QED
    BY <2>6, <2>8, <2>9 DEF Keeps
<1> QED
  BY <1>1, <1>2

\* A step of mark, index or create: p has done with one name.
LEMMA LoopTypes ==
  ASSUME NEW p \in Process, Typed(p), RowsOK', NEW n, work' = [work EXCEPT ![p] = @ \ {n}],
         real' \subseteq Row,
         UNCHANGED <<locked, kind, deployments, args, configs, flock, pc, view, read>>
  PROVE  Keeps(p)
<1>1. work'[p] = work[p] \ {n}
  BY DEF Typed, Shaped
<1> QED
  BY <1>1 DEF Typed, Keeps, DbOK, HeadsOK, LocalOK, ViewOK, Phase, Hand

\* One row is changed, or none.
LEMMA RowsMaybe ==
  ASSUME RowsOK, NEW i, NEW r, i \in DOMAIN rows => r \in Shape, UNCHANGED lastRow,
         \/ i \in DOMAIN rows /\ rows' = Update(i, r)
         \/ UNCHANGED rows
  PROVE  RowsOK'
<1>1. CASE i \in DOMAIN rows /\ rows' = Update(i, r)
  BY <1>1, RowsUpdate
<1>2. CASE UNCHANGED rows
  BY <1>2 DEF RowsOK
<1> QED
  BY <1>1, <1>2

LEMMA MarkTypes ==
  ASSUME NEW p \in Process, Typed(p), Mark(p)
  PROVE  Keeps(p)
<1>1. CASE work[p] = {} /\ kind[p].op = "backup"
  BY <1>1, DoneTypes DEF Mark
<1>2. CASE work[p] = {} /\ kind[p].op # "backup"
  <2>1. DbOK'
    BY <1>2, DbSame DEF Mark, Typed
  <2>2. /\ kind' = kind /\ view' = view /\ read' = read /\ pc[p] = "mark"
        /\ pc'[p] = "index" /\ work'[p] = Active(p)
    BY <1>2 DEF Mark, At, To, Typed, Shaped
  <2>3. Active(p) \subseteq DOMAIN view[p]
    BY DEF Active
  <2> QED
    BY <1>2, <2>1, <2>2, <2>3 DEF Keeps, LocalOK, ViewOK, Phase, Hand, Typed
<1>3. CASE work[p] # {}
  <2>1. PICK n \in work[p] :
          LET i == view[p][n]
              o == n \notin kind[p].names
              changes == Obsolete(i) # o IN
          IF changes /\ ~ Storable(i) THEN Raise(p)
          ELSE /\ rows' = IF changes /\ i \in DOMAIN rows
                            THEN Update(i, [rows[i] EXCEPT !.obsolete = o]) ELSE rows
               /\ work' = [work EXCEPT ![p] = @ \ {n}]
               /\ UNCHANGED <<deployments, lastRow, args, configs, real, flock, pc,
                              view, read>>
    BY <1>3 DEF Mark
  <2> DEFINE i == view[p][n]
             o == n \notin kind[p].names
             r == [rows[i] EXCEPT !.obsolete = o]
  <2>2. CASE Raise(p)
    BY <2>2, RaiseTypes DEF Mark
  <2>3. CASE ~ Raise(p)
    <3>1. /\ \/ i \in DOMAIN rows /\ rows' = Update(i, r)
             \/ UNCHANGED rows
          /\ work' = [work EXCEPT ![p] = @ \ {n}]
          /\ UNCHANGED <<deployments, lastRow, args, configs, real, flock, pc, view, read>>
      BY <2>1, <2>3
    <3>2. RowsOK /\ (i \in DOMAIN rows => rows[i] \in Shape) /\ o \in BOOLEAN
      BY DEF Typed, DbOK, RowsOK
    <3>3. i \in DOMAIN rows => r \in Shape
      BY <3>2, Fields
    <3> HIDE DEF i, r, o
    <3>4. RowsOK'
      BY <3>1, <3>2, <3>3, RowsMaybe
    <3>5. real' \subseteq Row
      BY <3>1 DEF Typed, DbOK
    <3> QED
      BY <3>1, <3>4, <3>5, LoopTypes DEF Mark
  <2> QED
    BY <2>2, <2>3
<1> QED
  BY <1>1, <1>2, <1>3

LEMMA NumberTypes ==
  ASSUME NEW p \in Process, Typed(p), Number(p)
  PROVE  Keeps(p)
<1>1. CASE work[p] = {}
  <2>1. DbOK'
    BY <1>1, DbSame DEF Number, Typed
  <2>2. /\ kind' = kind /\ view' = view /\ read' = read /\ pc[p] = "index"
        /\ pc'[p] = "create" /\ work'[p] = Active(p)
    BY <1>1 DEF Number, At, To, Typed, Shaped
  <2>3. Active(p) \subseteq DOMAIN view[p]
    BY DEF Active
  <2> QED
    BY <2>1, <2>2, <2>3 DEF Keeps, LocalOK, ViewOK, Phase, Hand, Typed
<1>2. CASE work[p] # {}
  <2>1. PICK n \in work[p] :
          LET i == view[p][n] IN
          IF Index(i) = -1 /\ ~ Storable(i) THEN Raise(p)
          ELSE /\ IF Index(i) = -1 /\ i \in DOMAIN rows
                    THEN \E k \in 0 .. MaxRow :
                           /\ Free(p, k)
                           /\ rows' = Update(i, [rows[i] EXCEPT !.index = k])
                    ELSE UNCHANGED rows
               /\ work' = [work EXCEPT ![p] = @ \ {n}]
               /\ UNCHANGED <<deployments, lastRow, args, configs, real, flock, pc,
                              view, read>>
    BY <1>2 DEF Number
  <2> DEFINE i == view[p][n]
  <2>2. CASE Raise(p)
    BY <2>2, RaiseTypes DEF Number
  <2>3. CASE ~ Raise(p)
    <3>1. /\ \/ i \in DOMAIN rows /\ \E k \in 0 .. MaxRow :
                                       rows' = Update(i, [rows[i] EXCEPT !.index = k])
             \/ UNCHANGED rows
          /\ work' = [work EXCEPT ![p] = @ \ {n}]
          /\ UNCHANGED <<deployments, lastRow, args, configs, real, flock, pc, view, read>>
      BY <2>1, <2>3
    <3>2. RowsOK
      BY DEF Typed, DbOK
    <3>3. RowsOK'
      <4>1. CASE UNCHANGED rows
        BY <3>1, <3>2, <4>1 DEF RowsOK
      <4>2. CASE ~ UNCHANGED rows
        <5>1. PICK k \in 0 .. MaxRow : /\ i \in DOMAIN rows
                                       /\ rows' = Update(i, [rows[i] EXCEPT !.index = k])
          BY <3>1, <4>2
        <5>2. rows[i] \in Shape /\ k \in -1 .. MaxRow
          BY <3>2, <5>1, RecordsAssumption DEF RowsOK
        <5>3. [rows[i] EXCEPT !.index = k] \in Shape
          BY <5>2, Fields
        <5> QED
          BY <3>1, <3>2, <5>1, <5>3, RowsUpdate
      <4> QED
        BY <4>1, <4>2
    <3>4. real' \subseteq Row
      BY <3>1 DEF Typed, DbOK
    <3> QED
      BY <3>1, <3>3, <3>4, LoopTypes DEF Number
  <2> QED
    BY <2>2, <2>3
<1> QED
  BY <1>1, <1>2

LEMMA CreateTypes ==
  ASSUME NEW p \in Process, Typed(p), Create(p)
  PROVE  Keeps(p)
<1>1. CASE Raise(p)
  BY <1>1, RaiseTypes DEF Create
<1>2. CASE Leave(p, "ok") /\ UNCHANGED <<dbVars, real>>
  BY <1>2, DoneTypes DEF Create
<1>3. CASE ~ Raise(p) /\ work[p] # {}
  <2>1. PICK n \in work[p] :
          /\ real' = real \cup {view[p][n]} /\ work' = [work EXCEPT ![p] = @ \ {n}]
          /\ UNCHANGED <<dbVars, flock, pc, view, read>>
    BY <1>3 DEF Create
  <2>2. view[p][n] \in Row
    BY DEF Create, At, Typed, Hand, LocalOK, ViewOK
  <2>3. RowsOK' /\ real' \subseteq Row
    BY <2>1, <2>2 DEF Typed, DbOK, RowsOK, dbVars
  <2> QED
    BY <2>1, <2>3, LoopTypes DEF Create, dbVars
<1> QED
  BY <1>1, <1>2, <1>3 DEF Create

LEMMA DestroyTypes ==
  ASSUME NEW p \in Process, Typed(p), Destroy(p)
  PROVE  Keeps(p)
<1>1. CASE work[p] = {}
  BY <1>1, DoneTypes DEF Destroy
<1>2. CASE work[p] # {}
  <2>1. DbOK'
    BY <1>2 DEF Destroy, Typed, DbOK, RowsOK, HeadsOK, dbVars
  <2>2. LocalOK(p)'
    BY <1>2 DEF Destroy, Typed, Shaped, LocalOK, ViewOK
  <2>3. Phase(p)' /\ Hand(p)'
    BY <1>2 DEF Destroy, Typed, Shaped, At, To, LocalOK, Phase, Hand
  <2> QED
    BY <2>1, <2>2, <2>3 DEF Keeps
<1> QED
  BY <1>1, <1>2

LEMMA ForgetTypes ==
  ASSUME NEW p \in Process, Typed(p), NEW n, Forget(p, n), UNCHANGED lastRow
  PROVE  /\ RowsOK' /\ ViewOK(view'[p]) /\ DOMAIN view'[p] = DOMAIN view[p] \ {n}
         /\ work'[p] = work[p] \ {n}
<1>1. RowsOK'
  BY RowsWithout DEF Forget, Typed, DbOK
<1>2. /\ view'[p] = [m \in DOMAIN view[p] \ {n} |-> view[p][m]]
      /\ work'[p] = work[p] \ {n}
  BY DEF Forget, Typed, Shaped
<1> QED
  BY <1>1, <1>2 DEF Typed, LocalOK, ViewOK

LEMMA DropTypes ==
  ASSUME NEW p \in Process, Typed(p), Drop(p)
  PROVE  Keeps(p)
<1>1. PICK n \in read[p] : Forget(p, n)
  BY DEF Drop
<1>2. /\ RowsOK' /\ ViewOK(view'[p]) /\ DOMAIN view'[p] = DOMAIN view[p] \ {n}
      /\ work'[p] = work[p] \ {n}
  BY <1>1, ForgetTypes DEF Drop
<1>3. /\ pc[p] = "drop" /\ pc'[p] = "destroy" /\ read'[p] = {} /\ kind' = kind
      /\ UNCHANGED <<deployments, args, configs, real, flock>>
  BY DEF Drop, At, To, Typed, Shaped
<1>4. DbOK'
  BY <1>2, <1>3 DEF DbOK, HeadsOK, Typed
<1>5. LocalOK(p)'
  BY <1>2, <1>3 DEF LocalOK, ViewOK, Typed
<1>6. Phase(p)' /\ Hand(p)'
  BY <1>2, <1>3 DEF Phase, Hand, Typed
<1> QED
  BY <1>4, <1>5, <1>6 DEF Keeps

LEMMA DeleteResourcesTypes ==
  ASSUME NEW p \in Process, Typed(p), DeleteResources(p)
  PROVE  Keeps(p)
<1>1. CASE work[p] = {}
  BY <1>1, DoneTypes DEF DeleteResources
<1>2. CASE \E n \in work[p] : Forget(p, n) /\ UNCHANGED <<pc, read, deployments, lastRow,
                                                          args, configs, real, flock>>
  <2>1. PICK n \in work[p] : Forget(p, n)
    BY <1>2
  <2>2. /\ RowsOK' /\ ViewOK(view'[p]) /\ DOMAIN view'[p] = DOMAIN view[p] \ {n}
        /\ work'[p] = work[p] \ {n}
    BY <1>2, <2>1, ForgetTypes
  <2>3. pc[p] = "forget" /\ kind' = kind
    BY DEF DeleteResources, At
  <2>4. DbOK'
    BY <1>2, <2>2 DEF DbOK, HeadsOK, Typed
  <2>5. LocalOK(p)'
    BY <1>2, <2>2 DEF LocalOK, ViewOK, Typed
  <2>6. Phase(p)' /\ Hand(p)'
    BY <1>2, <2>2, <2>3 DEF Phase, Hand, Typed
  <2> QED
    BY <2>4, <2>5, <2>6 DEF Keeps
<1>3. CASE \E n \in work[p] : /\ work' = [work EXCEPT ![p] = @ \ {n}]
                              /\ UNCHANGED <<dbVars, real, flock, pc, view, read>>
  <2>1. RowsOK' /\ real' \subseteq Row
    BY <1>3 DEF Typed, DbOK, RowsOK, dbVars
  <2> QED
    BY <1>3, <2>1, LoopTypes DEF DeleteResources, dbVars
<1> QED
  BY <1>1, <1>2, <1>3 DEF DeleteResources

LEMMA DeleteTypes ==
  ASSUME NEW p \in Process, Typed(p), Delete(p)
  PROVE  Keeps(p)
<1>1. CASE ~ Deletable(p)
  BY <1>1, RaiseTypes DEF Delete
<1>2. CASE Deletable(p)
  <2>1. RowsOK'
    BY <1>2, RowsWithout DEF Delete, Typed, DbOK
  <2>2. HeadsOK' /\ real' \subseteq Row
    BY <1>2 DEF Delete, Typed, DbOK, HeadsOK
  <2>3. Leave(p, "ok") /\ "ok" \in Ended /\ UNCHANGED <<locked, kind>>
    BY <1>2 DEF Delete, Ended
  <2> QED
    BY <2>1, <2>2, <2>3, LeaveTypes DEF Keeps, DbOK
<1> QED
  BY <1>1, <1>2

LEMMA RenameTypes ==
  ASSUME NEW p \in Process, Typed(p), Rename(p)
  PROVE  Keeps(p)
<1> DEFINE from == kind[p].from
           to == kind[p].to
           i == view[p][from]
<1>1. CASE from \notin DOMAIN view[p] \/ ~ Renamable(p, to)
  BY <1>1, RaiseTypes DEF Rename
<1>2. CASE ~ (from \notin DOMAIN view[p] \/ ~ Renamable(p, to))
  <2>1. /\ rows' = IF i \in DOMAIN rows THEN Update(i, [rows[i] EXCEPT !.name = to]) ELSE rows
        /\ Leave(p, "ok") /\ UNCHANGED <<deployments, lastRow, args, configs, real>>
        /\ UNCHANGED <<locked, kind>>
    BY <1>2 DEF Rename
  <2>2. i \in DOMAIN rows => [rows[i] EXCEPT !.name = to] \in Shape
    BY Fields DEF Typed, Command, DbOK, RowsOK
  <2>3. RowsOK
    BY DEF Typed, DbOK
  <2>4. RowsOK'
    BY <2>1, <2>2, <2>3, RowsMaybe
  <2>5. HeadsOK' /\ real' \subseteq Row /\ "ok" \in Ended
    BY <2>1 DEF Typed, DbOK, HeadsOK, Ended
  <2> QED
    BY <2>1, <2>4, <2>5, LeaveTypes DEF Keeps, DbOK
<1> QED
  BY <1>1, <1>2

LEMMA CloneTypes ==
  ASSUME NEW p \in Process, Typed(p), Clone(p)
  PROVE  Keeps(p)
<1>1. RowsOK' /\ real' \subseteq Row
  BY DEF Clone, Typed, DbOK, RowsOK, localVars
<1>2. HeadsOK'
  BY DEF Clone, Made, Typed, DbOK, HeadsOK, Uuid
<1>3. CASE At(p, "uncopy")
  <2>1. Leave(p, "ok") /\ "ok" \in Ended /\ UNCHANGED <<locked, kind>>
    BY <1>3 DEF Clone, At, Ended
  <2> QED
    BY <1>1, <1>2, <2>1, LeaveTypes DEF Keeps, DbOK
<1>4. CASE ~ At(p, "uncopy")
  <2>1. DbOK' /\ LocalOK(p)'
    BY <1>1, <1>2, <1>4 DEF Clone, DbOK, LocalOK, ViewOK, Typed, localVars
  <2>2. Phase(p)' /\ Hand(p)'
    BY <1>4 DEF Clone, At, To, Phase, Hand, Typed, Shaped, localVars
  <2> QED
    BY <2>1, <2>2 DEF Keeps
<1> QED
  BY <1>3, <1>4

LEMMA ImportTypes ==
  ASSUME NEW p \in Process, Typed(p), Import(p)
  PROVE  Keeps(p)
<1>1. CASE "second" \in deployments
  BY <1>1, RaiseTypes DEF Import
<1>2. CASE "second" \notin deployments
  <2>1. DbOK'
    BY <1>2 DEF Import, Made, Typed, DbOK, RowsOK, HeadsOK, Uuid
  <2>2. /\ kind' = kind /\ kind[p].op = "import" /\ view' = view /\ read' = read
        /\ pc'[p] = "import" /\ work'[p] = kind[p].names
    BY <1>2 DEF Import, To, Typed, Shaped
  <2>3. LocalOK(p)'
    BY <2>2 DEF Typed, LocalOK, ViewOK, Command
  <2>4. Phase(p)' /\ Hand(p)'
    BY <2>2 DEF Phase, Hand
  <2> QED
    BY <2>1, <2>3, <2>4 DEF Keeps
<1> QED
  BY <1>1, <1>2

LEMMA ImportResourceTypes ==
  ASSUME NEW p \in Process, Typed(p), ImportResource(p)
  PROVE  Keeps(p)
<1>1. CASE work[p] = {}
  BY <1>1, DoneTypes DEF ImportResource
<1>2. CASE work[p] # {} /\ Raise(p)
  BY <1>2, RaiseTypes DEF ImportResource
<1>3. CASE work[p] # {} /\ ~ Raise(p)
  <2>1. PICK n \in work[p] :
          /\ lastRow < MaxRow
          /\ rows' = WithRow("second", n, Brought("second"))
          /\ lastRow' = lastRow + 1
          /\ work' = [work EXCEPT ![p] = @ \ {n}]
          /\ UNCHANGED <<deployments, args, configs, real, flock, pc, view, read>>
    BY <1>3 DEF ImportResource
  <2>2. RowsOK /\ n \in Name /\ "second" \in Uuid
    BY DEF Typed, DbOK, LocalOK, Uuid
  <2>3. Brought("second") \in Nat /\ Brought("second") <= lastRow
    BY <2>2, IdsCount DEF Brought
  <2>4. Brought("second") \in -1 .. MaxRow
    BY <2>1, <2>2, <2>3, RecordsAssumption DEF RowsOK
  <2>5. RowsOK'
    BY <2>1, <2>2, <2>4, RowsWith
  <2>6. DbOK'
    BY <2>1, <2>5 DEF Typed, DbOK, HeadsOK
  <2>7. kind' = kind /\ work'[p] = work[p] \ {n} /\ pc[p] = "import"
    BY <2>1 DEF ImportResource, At, Typed, Shaped
  <2>8. LocalOK(p)'
    BY <2>1, <2>7 DEF Typed, LocalOK, ViewOK
  <2>9. Phase(p)' /\ Hand(p)'
    BY <2>1, <2>7 DEF Typed, Phase, Hand
  <2> QED
    BY <2>6, <2>8, <2>9 DEF Keeps
<1> QED
  BY <1>1, <1>2, <1>3

LEMMA SetArgsTypes ==
  ASSUME NEW p \in Process, Typed(p), SetArgs(p)
  PROVE  Keeps(p)
<1>1. CASE At(p, "set-args")
  <2>1. pc[p] = "set-args" /\ "first" \in Uuid /\ UNCHANGED <<dbVars, real, flock, view, work>>
        /\ kind' = kind /\ read' = [read EXCEPT ![p] = args["first"]] /\ To(p, "store")
    BY <1>1 DEF SetArgs, At, Got, Uuid
  <2>2. DbOK'
    BY <2>1, DbSame DEF Typed
  <2>3. pc'[p] = "store" /\ read'[p] = args["first"] /\ args["first"] \subseteq Arg
    BY <2>1 DEF To, Typed, Shaped, DbOK, HeadsOK
  <2>4. LocalOK(p)' /\ Hand(p)'
    BY <2>1, <2>3 DEF Typed, LocalOK, ViewOK, Hand
  <2>5. Phase(p)'
    BY <2>1, <2>3 DEF Typed, Phase
  <2> QED
    BY <2>2, <2>4, <2>5 DEF Keeps
<1>2. CASE At(p, "store") /\ "first" \notin deployments
  BY <1>2, RaiseTypes DEF SetArgs, At
<1>3. CASE At(p, "store") /\ "first" \in deployments
  <2>1. /\ args' = [args EXCEPT !["first"] = Together(p)] /\ Leave(p, "ok")
        /\ UNCHANGED <<deployments, rows, lastRow, configs, real, locked, kind>>
        /\ pc[p] = "store" /\ "ok" \in Ended
    BY <1>3 DEF SetArgs, At, Set, Ended
  <2>2. Together(p) \subseteq Arg
    BY <2>1 DEF Together, Typed, Hand, Phase, Command
  <2>3. RowsOK' /\ HeadsOK' /\ real' \subseteq Row
    BY <2>1, <2>2 DEF Typed, DbOK, RowsOK, HeadsOK
  <2> QED
    BY <2>1, <2>3, LeaveTypes DEF Keeps, DbOK
<1> QED
  BY <1>1, <1>2, <1>3 DEF SetArgs

LEMMA DieTypes ==
  ASSUME NEW p \in Process, Typed(p), Die(p)
  PROVE  Keeps(p)
<1>1. RowsOK' /\ HeadsOK' /\ real' \subseteq Row /\ "dead" \in Ended
  BY DEF Die, Typed, DbOK, RowsOK, HeadsOK, dbVars, Ended
<1> QED
  BY <1>1, LeaveTypes DEF Die, Keeps, DbOK

\* The type invariant has the parts for every command.
LEMMA TypesSplit ==
  ASSUME TypeOK, Places, NEW p \in Process
  PROVE  Typed(p)
BY DEF TypeOK, Places, Typed, DbOK, RowsOK, HeadsOK, LocalOK, ViewOK, Shaped

LEMMA StepTypes ==
  ASSUME TypeOK, Places, NEW p \in Process, Step(p) \/ Die(p)
  PROVE  TypeOK' /\ Places' /\ Own(p) /\ Typed(p)
<1>1. Typed(p) /\ Shaped /\ Own(p)
  BY TypesSplit, OwnStep DEF Typed
<1>2. Keeps(p)
  BY <1>1, StartTypes, OpenTypes, FlockTypes, SelectTypes, InsertTypes, MarkTypes,
     NumberTypes, CreateTypes, DestroyTypes, DropTypes, DeleteResourcesTypes, DeleteTypes,
     RenameTypes, CloneTypes, ImportTypes, ImportResourceTypes, SetArgsTypes, DieTypes
     DEF Step
<1>3. Places'
  BY <1>1, <1>2, OwnPlaces DEF Keeps
<1>4. \A q \in Process \ {p} : /\ view'[q] = view[q] /\ work'[q] = work[q]
                               /\ read'[q] = read[q] /\ LocalOK(q)
  BY <1>1, TypesSplit DEF Own, Typed
<1>5. \A q \in Process : ViewOK(view'[q]) /\ work'[q] \subseteq Name
                         /\ read'[q] \subseteq Name \cup Arg
  BY <1>2, <1>4 DEF Keeps, LocalOK, ViewOK
<1>6. work' \in [Process -> SUBSET Name] /\ read' \in [Process -> SUBSET (Name \cup Arg)]
  <2>1. /\ \A q \in Process : work'[q] \subseteq Name /\ read'[q] \subseteq Name \cup Arg
        /\ DOMAIN work' = Process /\ DOMAIN read' = Process
    BY <1>1, <1>5 DEF Own
  <2>2. work' = [q \in Process |-> work'[q]] /\ read' = [q \in Process |-> read'[q]]
    BY <1>1 DEF Own
  <2> QED
    BY <2>1, <2>2
<1>7. TypeOK'
  BY <1>1, <1>2, <1>5, <1>6
     DEF TypeOK, Own, Keeps, DbOK, RowsOK, HeadsOK, ViewOK
<1> QED
  BY <1>1, <1>3, <1>7

\* What the setups say of a first state.
LEMMA InitTypes ==
  ASSUME Init  PROVE TypeOK /\ Places
<1>1. PICK s \in Setups :
        /\ locked = s.locked /\ kind = s.kind
        /\ rows = s.rows /\ lastRow = Cardinality(DOMAIN s.rows) /\ real = DOMAIN s.rows
  BY DEF Init
<1>2. /\ s.locked \in BOOLEAN /\ DOMAIN s.kind = Process
      /\ \A p \in Process : Command(s.kind[p])
      /\ Ordered(s.rows)
  BY SetupsAssumption
<1>3. PICK n \in 0 .. MaxRow : DOMAIN rows = 1 .. n
  BY <1>1, SetupsAssumption
<1>4. 1 \in Int /\ n \in Int /\ n \in Nat /\ MaxRow \in Nat
  BY RecordsAssumption
<1>5. lastRow = n
  BY <1>1, <1>3, <1>4, FS_Interval
<1>6. RowsOK
  BY <1>1, <1>2, <1>3, <1>4, <1>5 DEF RowsOK, Ordered
<1>7. real \subseteq Row
  BY <1>1, <1>3, <1>4 DEF Row
<1>8. TypeOK
  BY <1>1, <1>2, <1>6, <1>7 DEF Init, TypeOK, RowsOK, Uuid
<1>9. Places
  BY DEF Init, Places, Phase, Hand
<1> QED
  BY <1>8, <1>9

(* The rows, the attributes, and what every command knows of them, keep their
   types, and a command has in hand what its place in the code says. *)
THEOREM TypeCorrect == Spec => [](TypeOK /\ Places)
<1>1. Init => TypeOK /\ Places
  BY InitTypes
<1>2. TypeOK /\ Places /\ [Next]_vars => TypeOK' /\ Places'
  <2> SUFFICES ASSUME TypeOK, Places, [Next]_vars  PROVE TypeOK' /\ Places'
    OBVIOUS
  <2>1. CASE Next
    BY <2>1, StepTypes DEF Next
  <2>2. CASE UNCHANGED vars
    BY <2>2 DEF vars, dbVars, localVars, TypeOK, Places, Phase, Hand
  <2> QED
    BY <2>1, <2>2
<1> QED
  BY <1>1, <1>2, PTL DEF Spec
-----------------------------------------------------------------------------
(* What a step can do to the rows, to what exists, and to the flock.       *)

\* Nothing, whether p reads them or not.
Same(p) ==
  /\ UNCHANGED <<rows, lastRow>>
  /\ \/ view'[p] = view[p]
     \/ pc[p] = "open" /\ \E v \in [Found -> Ids("first")] : Resources(v) /\ view'[p] = v

Adds(p) ==
  /\ pc[p] = "insert" /\ lastRow < MaxRow
  /\ \E n \in read[p] :
       /\ rows' = WithRow("first", n, -1) /\ lastRow' = lastRow + 1
       /\ view'[p] = [m \in DOMAIN view[p] \cup {n} |->
                        IF m = n THEN lastRow + 1 ELSE view[p][m]]

Brings(p) ==
  /\ pc[p] = "import" /\ lastRow < MaxRow /\ view'[p] = view[p]
  /\ \E n \in work[p] :
       /\ ~ Taken("second", n)
       /\ rows' = WithRow("second", n, Brought("second")) /\ lastRow' = lastRow + 1

Takes(p) ==
  /\ pc[p] \in {"drop", "forget"} /\ UNCHANGED lastRow
  /\ \E n \in DOMAIN view[p] :
       /\ pc[p] = "drop" => n \in read[p]
       /\ rows' = Without({view[p][n]})
       /\ view'[p] = [m \in DOMAIN view[p] \ {n} |-> view[p][m]]

Ends(p) ==
  /\ pc[p] = "delete" /\ DOMAIN view[p] = {} /\ pc'[p] \in Ended
  /\ rows' = Without(Ids("first")) /\ UNCHANGED lastRow /\ view'[p] = view[p]

Numbers(p, old, new) ==
  pc[p] = "index" /\ new.name = old.name /\ old.index = -1 /\ Free(p, new.index)

Renames(p, old, new) ==
  /\ pc[p] = "rename" /\ pc'[p] \in Ended
  /\ new.name \notin DOMAIN view[p] /\ new.index = old.index

Changes(p) ==
  /\ UNCHANGED lastRow /\ view'[p] = view[p]
  /\ \E n \in DOMAIN view[p], new \in Shape :
       LET i == view[p][n] IN
       /\ i \in DOMAIN rows /\ rows' = Update(i, new) /\ new.depl = rows[i].depl
       /\ \/ pc[p] \in {"mark", "index"} /\ new.name = rows[i].name /\ new.index = rows[i].index
          \/ Numbers(p, rows[i], new) \/ Renames(p, rows[i], new)

RowStep(p) == Same(p) \/ Adds(p) \/ Brings(p) \/ Takes(p) \/ Ends(p) \/ Changes(p)

LEMMA RaiseSame ==
  ASSUME NEW p \in Process, Raise(p)  PROVE Same(p)
BY DEF Raise, Leave, localVars, dbVars, Same

LEMMA MarkRows ==
  ASSUME NEW p \in Process, Typed(p), Mark(p)
  PROVE  RowStep(p)
<1>1. CASE work[p] = {}
  BY <1>1 DEF Mark, Leave, localVars, dbVars, RowStep, Same
<1>2. CASE work[p] # {}
  <2>1. PICK n \in work[p] :
          LET i == view[p][n]
              o == n \notin kind[p].names
              changes == Obsolete(i) # o IN
          IF changes /\ ~ Storable(i) THEN Raise(p)
          ELSE /\ rows' = IF changes /\ i \in DOMAIN rows
                            THEN Update(i, [rows[i] EXCEPT !.obsolete = o]) ELSE rows
               /\ work' = [work EXCEPT ![p] = @ \ {n}]
               /\ UNCHANGED <<deployments, lastRow, args, configs, real, flock, pc,
                              view, read>>
    BY <1>2 DEF Mark
  <2> DEFINE i == view[p][n]
             o == n \notin kind[p].names
             r == [rows[i] EXCEPT !.obsolete = o]
  <2>2. pc[p] = "mark" /\ n \in DOMAIN view[p]
    BY DEF Mark, At, Typed, Hand
  <2>3. CASE Raise(p)
    BY <2>3, RaiseSame DEF RowStep
  <2>4. CASE ~ Raise(p) /\ UNCHANGED rows
    BY <2>1, <2>4 DEF RowStep, Same
  <2>5. CASE ~ Raise(p) /\ ~ UNCHANGED rows
    <3>1. i \in DOMAIN rows /\ rows' = Update(i, r) /\ UNCHANGED <<lastRow, view>>
      BY <2>1, <2>5
    <3>2. rows[i] \in Shape /\ o \in BOOLEAN
      BY <3>1 DEF Typed, DbOK, RowsOK
    <3>3. r \in Shape /\ r.depl = rows[i].depl /\ r.name = rows[i].name /\ r.index = rows[i].index
      BY <3>2, Fields
    <3> HIDE DEF r
    <3>4. Changes(p)
      BY <2>2, <3>1, <3>3 DEF Changes
    <3> QED
      BY <3>4 DEF RowStep
  <2> QED
    BY <2>3, <2>4, <2>5
<1> QED
  BY <1>1, <1>2

LEMMA NumberRows ==
  ASSUME NEW p \in Process, Typed(p), Number(p)
  PROVE  RowStep(p)
<1>1. CASE work[p] = {}
  BY <1>1 DEF Number, dbVars, RowStep, Same
<1>2. CASE work[p] # {}
  <2>1. PICK n \in work[p] :
          LET i == view[p][n] IN
          IF Index(i) = -1 /\ ~ Storable(i) THEN Raise(p)
          ELSE /\ IF Index(i) = -1 /\ i \in DOMAIN rows
                    THEN \E k \in 0 .. MaxRow :
                           /\ Free(p, k)
                           /\ rows' = Update(i, [rows[i] EXCEPT !.index = k])
                    ELSE UNCHANGED rows
               /\ work' = [work EXCEPT ![p] = @ \ {n}]
               /\ UNCHANGED <<deployments, lastRow, args, configs, real, flock, pc,
                              view, read>>
    BY <1>2 DEF Number
  <2> DEFINE i == view[p][n]
  <2>2. pc[p] = "index" /\ n \in DOMAIN view[p]
    BY DEF Number, At, Typed, Hand
  <2>3. CASE Raise(p)
    BY <2>3, RaiseSame DEF RowStep
  <2>4. CASE ~ Raise(p) /\ UNCHANGED rows
    BY <2>1, <2>4 DEF RowStep, Same
  <2>5. CASE ~ Raise(p) /\ ~ UNCHANGED rows
    <3>1. PICK k \in 0 .. MaxRow : /\ i \in DOMAIN rows /\ Index(i) = -1 /\ Free(p, k)
                                   /\ rows' = Update(i, [rows[i] EXCEPT !.index = k])
                                   /\ UNCHANGED <<lastRow, view>>
      BY <2>1, <2>5
    <3>2. rows[i] \in Shape /\ k \in -1 .. MaxRow /\ rows[i].index = -1
      BY <3>1, RecordsAssumption DEF Typed, DbOK, RowsOK, Index
    <3> DEFINE r == [rows[i] EXCEPT !.index = k]
    <3>3. r \in Shape /\ r.depl = rows[i].depl /\ r.name = rows[i].name /\ r.index = k
      BY <3>2, Fields
    <3>4. rows' = Update(i, r)
      BY <3>1
    <3> HIDE DEF r
    <3>5. Numbers(p, rows[i], r)
      BY <2>2, <3>1, <3>2, <3>3 DEF Numbers
    <3>6. Changes(p)
      BY <2>2, <3>1, <3>3, <3>4, <3>5 DEF Changes
    <3> QED
      BY <3>6 DEF RowStep
  <2> QED
    BY <2>3, <2>4, <2>5
<1> QED
  BY <1>1, <1>2

LEMMA RenameRows ==
  ASSUME NEW p \in Process, Typed(p), Rename(p)
  PROVE  RowStep(p)
<1> DEFINE from == kind[p].from
           to == kind[p].to
           i == view[p][from]
           r == [rows[i] EXCEPT !.name = to]
<1>1. CASE from \notin DOMAIN view[p] \/ ~ Renamable(p, to)
  BY <1>1, RaiseSame DEF Rename, RowStep
<1>2. CASE ~ (from \notin DOMAIN view[p] \/ ~ Renamable(p, to))
  <2>1. /\ rows' = IF i \in DOMAIN rows THEN Update(i, r) ELSE rows
        /\ Leave(p, "ok") /\ UNCHANGED lastRow
        /\ from \in DOMAIN view[p] /\ to \notin DOMAIN view[p] /\ pc[p] = "rename"
    BY <1>2 DEF Rename, Renamable, At
  <2>2. view' = view /\ pc'[p] \in Ended
    BY <2>1 DEF Leave, To, localVars, Ended, Typed, Shaped
  <2>3. CASE i \notin DOMAIN rows
    BY <2>1, <2>2, <2>3 DEF RowStep, Same
  <2>4. CASE i \in DOMAIN rows
    <3>1. rows[i] \in Shape /\ to \in Name
      BY <2>4 DEF Typed, DbOK, RowsOK, Command
    <3>2. r \in Shape /\ r.depl = rows[i].depl /\ r.name = to /\ r.index = rows[i].index
      BY <3>1, Fields
    <3> HIDE DEF r, to
    <3>3. Renames(p, rows[i], r)
      BY <2>1, <2>2, <3>2 DEF Renames
    <3>4. Changes(p)
      BY <2>1, <2>2, <2>4, <3>2, <3>3 DEF Changes
    <3> QED
      BY <3>4 DEF RowStep
  <2> QED
    BY <2>3, <2>4
<1> QED
  BY <1>1, <1>2

LEMMA ForgetRows ==
  ASSUME NEW p \in Process, Typed(p), NEW n \in DOMAIN view[p], Forget(p, n), UNCHANGED lastRow,
         pc[p] \in {"drop", "forget"}, pc[p] = "drop" => n \in read[p]
  PROVE  RowStep(p)
<1>1. view'[p] = [m \in DOMAIN view[p] \ {n} |-> view[p][m]]
  BY DEF Forget, Typed, Shaped
<1> QED
  BY <1>1 DEF RowStep, Takes, Forget, Deleted

LEMMA AllRows ==
  ASSUME NEW p \in Process, Typed(p), Step(p) \/ Die(p)
  PROVE  RowStep(p)
<1>1. CASE Start(p) \/ Flock(p) \/ Clone(p) \/ SetArgs(p) \/ Die(p)
  BY <1>1, RaiseSame DEF Start, Flock, Clone, SetArgs, Die, Raise, Leave, dbVars, localVars,
     RowStep, Same
<1>2. CASE Open(p)
  BY <1>2, RaiseSame DEF Open, At, dbVars, RowStep, Same, Typed, Shaped
<1>3. CASE Select(p)
  BY <1>3, RaiseSame DEF Select, dbVars, RowStep, Same
<1>4. CASE Insert(p)
  BY <1>4, RaiseSame DEF Insert, At, RowStep, Adds, Typed, Shaped
<1>5. CASE Mark(p)  BY <1>5, MarkRows
<1>6. CASE Number(p)  BY <1>6, NumberRows
<1>7. CASE Create(p)
  BY <1>7, RaiseSame DEF Create, Leave, dbVars, localVars, RowStep, Same
<1>8. CASE Destroy(p)
  BY <1>8 DEF Destroy, Leave, dbVars, localVars, RowStep, Same
<1>9. CASE Drop(p)
  <2>1. PICK n \in read[p] : Forget(p, n) /\ pc[p] = "drop" /\ UNCHANGED lastRow
    BY <1>9 DEF Drop, At
  <2>2. n \in DOMAIN view[p]
    BY <2>1 DEF Typed, Hand
  <2> QED
    BY <2>1, <2>2, ForgetRows
<1>10. CASE DeleteResources(p)
  <2>1. CASE UNCHANGED dbVars
    BY <1>10, <2>1, ForgetRows DEF DeleteResources, At, Forget, Leave, dbVars, localVars, RowStep,
       Same, Typed, Hand
  <2>2. CASE ~ UNCHANGED dbVars
    <3>1. PICK n \in work[p] : Forget(p, n) /\ pc[p] = "forget" /\ UNCHANGED lastRow
      BY <1>10, <2>2 DEF DeleteResources, At
    <3>2. n \in DOMAIN view[p]
      BY <3>1 DEF Typed, Hand
    <3> QED
      BY <3>1, <3>2, ForgetRows
  <2> QED
    BY <2>1, <2>2
<1>11. CASE Delete(p)
  BY <1>11, RaiseSame DEF Delete, Deletable, At, Leave, To, localVars, Ended, RowStep, Ends,
     Typed, Shaped
<1>12. CASE Rename(p)  BY <1>12, RenameRows
<1>13. CASE Import(p)
  BY <1>13, RaiseSame DEF Import, RowStep, Same
<1>14. CASE ImportResource(p)
  BY <1>14, RaiseSame DEF ImportResource, At, Leave, dbVars, localVars, RowStep, Same, Brings
<1> QED
  BY <1>1, <1>2, <1>3, <1>4, <1>5, <1>6, <1>7, <1>8, <1>9, <1>10, <1>11, <1>12, <1>13, <1>14
     DEF Step

\* What exists changes only where there is no change of the rows.
RealStep(p) ==
  \/ real' = real
  \/ /\ pc[p] = "create" /\ rows' = rows
     /\ \E n \in work[p] : view[p][n] \in DOMAIN rows /\ real' = real \cup {view[p][n]}
  \/ pc[p] = "destroy" /\ rows' = rows /\ real' \subseteq real

LEMMA RealSteps ==
  ASSUME NEW p \in Process, Step(p) \/ Die(p)
  PROVE  RealStep(p)
<1> USE DEF RealStep, Raise, dbVars
<1>1. CASE Start(p)  BY <1>1 DEF Start
<1>2. CASE Open(p)  BY <1>2 DEF Open
<1>3. CASE Flock(p)  BY <1>3 DEF Flock
<1>4. CASE Select(p)  BY <1>4 DEF Select
<1>5. CASE Insert(p)  BY <1>5 DEF Insert
<1>6. CASE Mark(p)  BY <1>6 DEF Mark
<1>7. CASE Number(p)  BY <1>7 DEF Number
<1>8. CASE Create(p)  BY <1>8 DEF Create, At, Storable
<1>9. CASE Destroy(p)  BY <1>9 DEF Destroy, At
<1>10. CASE Drop(p)  BY <1>10 DEF Drop
<1>11. CASE DeleteResources(p)  BY <1>11 DEF DeleteResources
<1>12. CASE Delete(p)  BY <1>12 DEF Delete
<1>13. CASE Rename(p)  BY <1>13 DEF Rename
<1>14. CASE Clone(p)  BY <1>14 DEF Clone
<1>15. CASE Import(p)  BY <1>15 DEF Import
<1>16. CASE ImportResource(p)  BY <1>16 DEF ImportResource
<1>17. CASE SetArgs(p)  BY <1>17 DEF SetArgs
<1>18. CASE Die(p)  BY <1>18 DEF Die
<1> QED
  BY <1>1, <1>2, <1>3, <1>4, <1>5, <1>6, <1>7, <1>8, <1>9, <1>10, <1>11, <1>12, <1>13,
     <1>14, <1>15, <1>16, <1>17, <1>18 DEF Step

\* Where a step leads: it begins, it opens, it takes the flock, it ends, or it
\* goes on with what it is at.
Begins(p) == /\ pc[p] = "idle" /\ pc'[p] = "open" /\ flock' = flock /\ UNCHANGED rows
             /\ locked => \A q \in Process : ~ Busy(q)

Opens(p) == /\ pc[p] = "open" /\ pc'[p] \notin Ended /\ flock' = flock
            /\ kind[p].op \in Flocks => pc'[p] = "flock"
            /\ \/ kind[p].op = "import" /\ pc'[p] = "import"
               \/ /\ kind[p].op # "import" /\ pc'[p] \notin {"insert", "drop"} /\ UNCHANGED rows
                  /\ \E v \in [Found -> Ids("first")] : Resources(v) /\ view'[p] = v

Locks(p) == /\ pc[p] = "flock" /\ pc'[p] \in {"make", "destroy"} /\ view' = view
            /\ flock = Nobody /\ flock' = p /\ UNCHANGED rows

Stops(p) == /\ Busy(p) /\ pc'[p] \in Ended
            /\ flock' = IF flock = p THEN Nobody ELSE flock

GoesOn(p) == /\ Acting(p) /\ pc'[p] \notin Ended /\ flock' = flock
             /\ pc'[p] = "insert" => /\ pc[p] = "make" /\ UNCHANGED rows
                                     /\ \A n \in read'[p] : ~ Taken("first", n)
             /\ pc'[p] = "drop" => /\ pc[p] = "destroy" /\ view' = view
                                   /\ \A n \in read'[p] : view[p][n] \notin real'

Moves(p) == Begins(p) \/ Opens(p) \/ Locks(p) \/ Stops(p) \/ GoesOn(p)

LEMMA LeaveStops ==
  ASSUME NEW p \in Process, Shaped, Busy(p), NEW how \in Ended, Leave(p, how)
  PROVE  Stops(p)
BY DEF Shaped, Leave, To, Stops

LEMMA Movements ==
  ASSUME NEW p \in Process, Typed(p), Step(p) \/ Die(p)
  PROVE  Moves(p)
<1> USE DEF At, To, dbVars, localVars
<1>1. CASE \E how \in Ended : Busy(p) /\ Leave(p, how)
  BY <1>1, LeaveStops DEF Typed, Moves
<1>2. Busy(p) /\ Raise(p) => \E how \in Ended : Busy(p) /\ Leave(p, how)
  BY DEF Raise, Ended
<1>3. Busy(p) /\ Leave(p, "ok") => \E how \in Ended : Busy(p) /\ Leave(p, how)
  BY DEF Ended
<1>4. CASE ~ \E how \in Ended : Busy(p) /\ Leave(p, how)
  <2> USE <1>2, <1>3, <1>4 DEF Ended, Busy, Acting, Moves, Typed, Shaped
  <2>1. CASE Start(p)  BY <2>1 DEF Start, Begins
  <2>2. CASE Open(p)
    <3>1. PICK v \in [Found -> Ids("first")] :
            /\ Resources(v) /\ view' = [view EXCEPT ![p] = v] /\ pc' = [pc EXCEPT ![p] = First(p)]
            /\ UNCHANGED <<rows, flock>>
      BY <2>2 DEF Open
    <3>2. pc'[p] = First(p) /\ view'[p] = v /\ pc[p] = "open" /\ kind[p].op # "import"
      BY <2>2, <3>1 DEF Open
    <3> QED
      BY <3>1, <3>2 DEF First, Opens, Flocks, Command, Ops
  <2>3. CASE Flock(p)  BY <2>3 DEF Flock, Locks
  <2>4. CASE Select(p)  BY <2>4 DEF Select, GoesOn
  <2>5. CASE Insert(p)  BY <2>5 DEF Insert, GoesOn
  <2>6. CASE Mark(p)  BY <2>6 DEF Mark, GoesOn
  <2>7. CASE Number(p)  BY <2>7 DEF Number, GoesOn
  <2>8. CASE Create(p)  BY <2>8 DEF Create, GoesOn
  <2>9. CASE Destroy(p)  BY <2>9 DEF Destroy, GoesOn
  <2>10. CASE Drop(p)  BY <2>10 DEF Drop, GoesOn
  <2>11. CASE DeleteResources(p)  BY <2>11 DEF DeleteResources, GoesOn
  <2>12. CASE Delete(p)  BY <2>12 DEF Delete
  <2>13. CASE Rename(p)  BY <2>13 DEF Rename
  <2>14. CASE Clone(p)  BY <2>14 DEF Clone, GoesOn
  <2>15. CASE Import(p)  BY <2>15 DEF Import, Opens, Flocks
  <2>16. CASE ImportResource(p)  BY <2>16 DEF ImportResource, GoesOn
  <2>17. CASE SetArgs(p)  BY <2>17 DEF SetArgs, GoesOn
  <2>18. CASE Die(p)  BY <2>18 DEF Die
  <2> QED
    BY <2>1, <2>2, <2>3, <2>4, <2>5, <2>6, <2>7, <2>8, <2>9, <2>10, <2>11, <2>12, <2>13,
       <2>14, <2>15, <2>16, <2>17, <2>18 DEF Step
<1> QED
  BY <1>1, <1>4
-----------------------------------------------------------------------------
(* The invariant.                                                          *)

\* Everything known of a step that p takes from a state in which IInv holds.
Stepped(p) ==
  /\ TypeOK /\ Places /\ IInv /\ Typed(p)
  /\ TypeOK' /\ Places' /\ Own(p) /\ RowStep(p) /\ RealStep(p) /\ Moves(p)

LEMMA ApartKept ==
  ASSUME NEW p \in Process, Stepped(p)
  PROVE  Apart'
<1> USE DEF Stepped, Own
<1>1. ASSUME locked, NEW q \in Process, NEW r \in Process, Busy(q)', Busy(r)'
      PROVE  q = r
  <2>1. \A s \in Process \ {p} : Busy(s)' => Busy(s)
    BY DEF Busy
  <2>2. CASE Begins(p)
    BY <1>1, <2>1, <2>2 DEF Begins
  <2>3. CASE ~ Begins(p)
    <3>1. Busy(p)
      BY <2>3 DEF Moves, Opens, Locks, Stops, GoesOn, Acting, Busy, Ended
    <3> QED
      BY <1>1, <2>1, <3>1 DEF IInv, Apart
  <2> QED
    BY <2>2, <2>3
<1>2. ASSUME NEW q \in Process, kind[q].op \in Flocks, Acting(q)'
      PROVE  flock' = q
  <2>1. CASE q # p
    <3>1. flock = q
      BY <1>2, <2>1 DEF IInv, Apart, Acting
    <3> QED
      BY <2>1, <3>1, RecordsAssumption DEF Moves, Begins, Opens, Locks, Stops, GoesOn
  <2>2. CASE q = p
    BY <1>2, <2>2 DEF IInv, Apart, Acting, Moves, Begins, Opens, Locks, Stops, GoesOn
  <2> QED
    BY <2>1, <2>2
<1> QED
  BY <1>1, <1>2 DEF Apart, Busy, Acting

\* Rows stay with their deployment, and the ids are not used again.
LEMMA DeplKept ==
  ASSUME NEW p \in Process, Stepped(p)
  PROVE  /\ lastRow <= lastRow' /\ lastRow \in Int /\ lastRow' \in Int
         /\ \A i \in DOMAIN rows' : i <= lastRow => i \in DOMAIN rows /\ rows'[i].depl = rows[i].depl
<1> USE DEF Stepped
<1>1. RowsOK /\ DOMAIN rows \subseteq Int /\ lastRow \in Int /\ lastRow' \in Int
  BY RecordsAssumption DEF Typed, DbOK, RowsOK, TypeOK
<1>2. CASE Same(p)
  BY <1>1, <1>2 DEF Same
<1>3. CASE Adds(p) \/ Brings(p)
  <2>1. PICK u, n, k : rows' = WithRow(u, n, k) /\ lastRow' = lastRow + 1
    BY <1>3 DEF Adds, Brings
  <2> QED
    BY <1>1, <2>1 DEF WithRow
<1>4. CASE Takes(p) \/ Ends(p)
  <2>1. PICK ids : rows' = Without(ids) /\ lastRow' = lastRow
    BY <1>4 DEF Takes, Ends
  <2> QED
    BY <1>1, <2>1 DEF Without
<1>5. CASE Changes(p)
  BY <1>1, <1>5 DEF Changes, Update
<1> QED
  BY <1>2, <1>3, <1>4, <1>5 DEF RowStep

LEMMA OursKept ==
  ASSUME NEW p \in Process, Stepped(p)
  PROVE  Ours'
<1> SUFFICES ASSUME NEW q \in Process, NEW n \in DOMAIN view'[q]
             PROVE  /\ view'[q][n] <= lastRow'
                    /\ view'[q][n] \in DOMAIN rows' => rows'[view'[q][n]].depl = "first"
  BY DEF Ours
<1> DEFINE i == view'[q][n]
<1>1. view'[q][n] \in Int
  BY RecordsAssumption DEF Stepped, TypeOK, Row
<1>2. CASE view'[q][n] <= lastRow /\ (view'[q][n] \in DOMAIN rows => rows[view'[q][n]].depl = "first")
  BY <1>1, <1>2, DeplKept
<1>3. CASE n \in DOMAIN view[q] /\ view'[q][n] = view[q][n]
  BY <1>2, <1>3 DEF Stepped, IInv, Ours
<1>4. CASE q = p /\ Same(p) /\ view'[p] # view[p]
  <2>1. view'[p][n] \in Ids("first")
    BY <1>4 DEF Same
  <2>2. view'[p][n] \in DOMAIN rows /\ rows[view'[p][n]].depl = "first"
    BY <2>1 DEF Ids
  <2>3. view'[p][n] <= lastRow
    BY <2>2, RecordsAssumption DEF Stepped, TypeOK
  <2> QED
    BY <1>2, <1>4, <2>2, <2>3
<1>5. CASE q = p /\ Adds(p) /\ view'[p][n] = lastRow + 1
  <2>1. rows'[lastRow + 1].depl = "first" /\ lastRow' = lastRow + 1
    BY <1>5 DEF Adds, WithRow
  <2> QED
    BY <1>5, <2>1, DeplKept
<1>6. q # p => view'[q] = view[q]
  BY DEF Stepped, Own
<1> QED
  BY <1>3, <1>4, <1>5, <1>6 DEF Stepped, RowStep, Same, Adds, Brings, Takes, Ends, Changes

LEMMA CountedKept ==
  ASSUME NEW p \in Process, Stepped(p)
  PROVE  Counted'
<1> USE DEF Stepped
<1>1. RowsOK /\ Counted /\ Ours
  BY DEF Typed, DbOK, IInv
<1>2. CASE Brings(p)
  <2>1. PICK n \in work[p] : /\ rows' = WithRow("second", n, Brought("second"))
                             /\ lastRow' = lastRow + 1 /\ lastRow < MaxRow
    BY <1>2 DEF Brings
  <2>2. /\ IsFiniteSet(Ids("second")) /\ Cardinality(Ids("second")) \in Nat
        /\ Cardinality(Ids("second")) <= lastRow
    BY <1>1, IdsCount
  <2>3. n \in Name /\ "second" \in Uuid
    BY DEF Typed, LocalOK, Uuid
  <2>4. Brought("second") \in -1 .. MaxRow
    BY <1>1, <2>1, <2>2, RecordsAssumption DEF Brought, RowsOK
  <2>5. /\ lastRow' \notin DOMAIN rows /\ DOMAIN rows' = DOMAIN rows \cup {lastRow'}
        /\ rows'[lastRow'] = [depl |-> "second", name |-> n, obsolete |-> FALSE,
                              index |-> Brought("second")]
        /\ \A i \in DOMAIN rows : rows'[i] = rows[i]
    BY <1>1, <2>1, <2>3, <2>4, RowsWith
  <2>6. Ids("second")' = Ids("second") \cup {lastRow'} /\ lastRow' \notin Ids("second")
    BY <2>5 DEF Ids
  <2>7. Cardinality(Ids("second")') = Cardinality(Ids("second")) + 1
    BY <2>2, <2>6, FS_AddElement
  <2>8. \A i \in Ids("second") : /\ rows[i].index < Cardinality(Ids("second"))
                                 /\ rows'[i] = rows[i] /\ rows[i].index \in Int
    BY <1>1, <2>5, RecordsAssumption DEF Counted, Ids, RowsOK, Shape
  <2> QED
    BY <2>2, <2>5, <2>6, <2>7, <2>8 DEF Counted, Brought
<1>3. CASE ~ Brings(p)
  <2>1. \A i \in Ids("second") : i \in Ids("second")' /\ rows'[i].index = rows[i].index
    <3>1. \A n \in DOMAIN view[p] : view[p][n] \notin Ids("second")
      BY <1>1 DEF Ours, Ids
    <3>2. CASE Same(p)
      BY <3>2 DEF Same, Ids
    <3>3. CASE Adds(p)
      BY <1>1, <3>3, RecordsAssumption DEF Adds, WithRow, Ids, RowsOK
    <3>4. CASE Takes(p)
      BY <3>1, <3>4 DEF Takes, Without, Ids
    <3>5. CASE Ends(p)
      BY <3>5 DEF Ends, Without, Ids
    <3>6. CASE Changes(p)
      BY <3>1, <3>6 DEF Changes, Update, Ids
    <3> QED
      BY <1>3, <3>2, <3>3, <3>4, <3>5, <3>6 DEF RowStep
  <2>2. Ids("second")' \subseteq Ids("second")
    <3>1. \A i \in Ids("second")' : i \in DOMAIN rows' /\ rows'[i].depl = "second"
      BY DEF Ids
    <3>2. CASE Adds(p)
      BY <3>2 DEF Adds, WithRow, Ids
    <3>3. CASE ~ Adds(p)
      <4>1. DOMAIN rows' \subseteq DOMAIN rows
        BY <1>3, <3>3 DEF RowStep, Same, Takes, Ends, Changes, Without, Update
      <4>2. \A i \in DOMAIN rows' : i <= lastRow
        BY <4>1, RecordsAssumption DEF TypeOK
      <4> QED
        BY <3>1, <4>1, <4>2, DeplKept DEF Ids
    <3> QED
      BY <3>2, <3>3
  <2>3. Ids("second")' = Ids("second")
    BY <2>1, <2>2
  <2> QED
    BY <1>1, <2>1, <2>3 DEF Counted
<1> QED
  BY <1>2, <1>3

\* Of commands that are kept apart one acts at a time.
LEMMA OneActs ==
  ASSUME TypeOK, Apart, KeptApart, NEW p \in Process, NEW q \in Process, Acting(p), Acting(q)
  PROVE  p = q
<1>1. CASE locked
  BY <1>1 DEF Apart, Acting, Busy
<1>2. CASE ~ locked
  BY <1>2 DEF Apart, KeptApart
<1> QED
  BY <1>1, <1>2

\* A command other than deploy and destroy is kept apart by the lock alone.
LEMMA OnlyLocked ==
  ASSUME KeptApart, NEW p \in Process, kind[p].op \notin Flocks
  PROVE  locked
BY DEF KeptApart

LEMMA NamesKept ==
  ASSUME NEW p \in Process, Stepped(p)
  PROVE  NamesUnique'
<1> SUFFICES ASSUME KeptApart  PROVE NamesUnique'
  BY DEF Stepped, Own, KeptApart, NamesUnique
<1> USE DEF Stepped
<1>1. /\ RowsOK
      /\ \A i, j \in DOMAIN rows :
           rows[i].depl = rows[j].depl /\ rows[i].name = rows[j].name => i = j
  BY DEF Typed, DbOK, IInv, NamesUnique
<1>2. CASE Same(p)
  BY <1>1, <1>2 DEF Same, NamesUnique
<1>3. ASSUME NEW u \in Uuid, NEW n \in Name, NEW k \in -1 .. MaxRow, Named(u, n) = {},
             rows' = WithRow(u, n, k), lastRow' = lastRow + 1, lastRow < MaxRow
      PROVE  NamesUnique'
  <2>1. /\ DOMAIN rows' = DOMAIN rows \cup {lastRow'}
        /\ rows'[lastRow'] = [depl |-> u, name |-> n, obsolete |-> FALSE, index |-> k]
        /\ \A i \in DOMAIN rows : rows'[i] = rows[i]
    BY <1>1, <1>3, RowsWith
  <2>2. \A i \in DOMAIN rows : ~ (rows[i].depl = u /\ rows[i].name = n)
    BY <1>3 DEF Named, Ids
  <2> QED
    BY <1>1, <2>1, <2>2 DEF NamesUnique
<1>4. CASE Adds(p)
  <2>1. PICK n \in read[p] : rows' = WithRow("first", n, -1) /\ lastRow' = lastRow + 1
    BY <1>4 DEF Adds
  <2>2. pc[p] = "insert" /\ lastRow < MaxRow
    BY <1>4 DEF Adds
  <2>3. Named("first", n) = {}
    BY <2>2 DEF IInv, Fresh
  <2>4. "first" \in Uuid /\ n \in Name /\ -1 \in -1 .. MaxRow
    BY <2>2, RecordsAssumption DEF Uuid, Typed, Hand
  <2> QED
    BY <1>3, <2>1, <2>2, <2>3, <2>4
<1>5. CASE Brings(p)
  <2>1. PICK n \in work[p] : /\ ~ Taken("second", n) /\ lastRow' = lastRow + 1
                             /\ rows' = WithRow("second", n, Brought("second"))
    BY <1>5 DEF Brings
  <2>2. lastRow < MaxRow
    BY <1>5 DEF Brings
  <2>3. Brought("second") \in Nat /\ Brought("second") <= lastRow
    BY <1>1, IdsCount DEF Brought
  <2>4. "second" \in Uuid /\ n \in Name /\ Brought("second") \in -1 .. MaxRow
    BY <1>1, <2>2, <2>3, RecordsAssumption DEF Uuid, Typed, LocalOK, RowsOK
  <2>5. Named("second", n) = {}
    BY <2>1 DEF Taken
  <2> QED
    BY <1>3, <2>1, <2>2, <2>4, <2>5
<1>6. CASE Takes(p) \/ Ends(p)
  <2>1. PICK ids : rows' = Without(ids)
    BY <1>6 DEF Takes, Ends
  <2>2. DOMAIN rows' \subseteq DOMAIN rows /\ \A i \in DOMAIN rows' : rows'[i] = rows[i]
    BY <2>1 DEF Without
  <2> QED
    BY <1>1, <2>2 DEF NamesUnique
<1>7. CASE Changes(p)
  <2>1. PICK n \in DOMAIN view[p], new \in Shape :
          LET i == view[p][n] IN
          /\ i \in DOMAIN rows /\ rows' = Update(i, new) /\ new.depl = rows[i].depl
          /\ new.name = rows[i].name \/ Renames(p, rows[i], new)
    BY <1>7 DEF Changes, Numbers
  <2> DEFINE i == view[p][n]
  <2>2. /\ DOMAIN rows' = DOMAIN rows /\ rows'[i] = new
        /\ \A j \in DOMAIN rows \ {i} : rows'[j] = rows[j]
    BY <2>1 DEF Update
  <2>3. CASE new.name = rows[i].name
    BY <1>1, <2>1, <2>2, <2>3 DEF NamesUnique
  <2>4. CASE Renames(p, rows[i], new)
    <3>1. pc[p] = "rename" /\ kind[p].op = "rename" /\ new.name \notin DOMAIN view[p]
      BY <2>4 DEF Renames, Typed, Phase
    <3>2. locked
      BY <3>1, OnlyLocked DEF Flocks
    <3>3. \A j \in Ids("first") : rows[j].name \in DOMAIN view[p]
      BY <3>1, <3>2 DEF IInv, Seen, Acting, Ended
    <3>4. new.depl = "first"
      BY <2>1 DEF IInv, Ours
    <3>5. \A j \in DOMAIN rows : rows[j].depl = "first" => rows[j].name # new.name
      BY <3>1, <3>3 DEF Ids
    <3> QED
      BY <1>1, <2>2, <3>4, <3>5 DEF NamesUnique
  <2> QED
    BY <2>1, <2>3, <2>4
<1> QED
  BY <1>2, <1>4, <1>5, <1>6, <1>7 DEF RowStep

LEMMA FreshKept ==
  ASSUME NEW p \in Process, Stepped(p)
  PROVE  Fresh'
<1> SUFFICES ASSUME KeptApart, NEW q \in Process
             PROVE  /\ pc'[q] = "insert" => \A n \in read'[q] : Named("first", n)' = {}
                    /\ pc'[q] = "drop" => \A n \in read'[q] : view'[q][n] \notin real'
  BY DEF Stepped, Own, KeptApart, Fresh
<1> USE DEF Stepped
<1>1. UNCHANGED rows => \A n : Named("first", n)' = Named("first", n)
  BY DEF Named, Ids
<1>2. CASE q = p
  <2>1. CASE GoesOn(p)
    BY <1>1, <1>2, <2>1 DEF GoesOn, Taken
  <2>2. CASE ~ GoesOn(p)
    BY <1>2, <2>2 DEF Moves, Begins, Opens, Locks, Stops, Ended, Flocks
  <2> QED
    BY <2>1, <2>2
<1>3. CASE q # p /\ pc'[q] \in {"insert", "drop"}
  <2>1. pc[q] = pc'[q] /\ read'[q] = read[q] /\ view'[q] = view[q] /\ Acting(q)
    BY <1>3 DEF Own, Acting, Ended
  <2>2. pc[p] \in {"idle", "open", "flock"} \cup Ended
    BY <1>3, <2>1, OneActs DEF IInv, Acting
  <2>3. UNCHANGED rows /\ real' = real
    BY <2>2 DEF RowStep, RealStep, Same, Adds, Brings, Takes, Ends, Changes, Numbers, Renames,
       Ended
  <2> QED
    BY <1>1, <2>1, <2>3 DEF IInv, Fresh
<1> QED
  BY <1>2, <1>3

LEMMA SeenKept ==
  ASSUME NEW p \in Process, Stepped(p)
  PROVE  Seen'
<1> USE DEF Stepped
<1> SUFFICES ASSUME locked, NEW q \in Process, NEW i \in Ids("first")',
                    (Acting(q)' /\ kind[q].op # "import") \/ pc'[q] = "flock"
             PROVE  rows'[i].name \in DOMAIN view'[q] /\ view'[q][rows'[i].name] = i
  BY DEF Own, Seen
<1>1. q = p
  <2>1. q # p => Busy(q)
    BY DEF Own, Acting, Busy, Ended
  <2>2. q # p => ~ Busy(p) /\ ~ Begins(p)
    BY <2>1 DEF IInv, Apart, Begins
  <2> QED
    BY <2>2 DEF Moves, Opens, Locks, Stops, GoesOn, Acting, Busy, Ended
<1>2. KeptApart /\ RowsOK
  BY DEF KeptApart, Typed, DbOK
<1>3. kind' = kind /\ i \in DOMAIN rows' /\ rows'[i].depl = "first"
  BY DEF Own, Ids
<1>4. CASE Opens(p)
  <2>1. PICK v \in [Found -> Ids("first")] : Resources(v) /\ view'[p] = v /\ UNCHANGED rows
    BY <1>1, <1>4 DEF Opens, Acting, Ended
  <2>2. i \in Ids("first") /\ rows'[i] = rows[i] /\ rows[i].name \in Found
    BY <2>1 DEF Ids, Found
  <2>3. v[rows[i].name] \in Named("first", rows[i].name)
    BY <2>1, <2>2 DEF Resources
  <2>4. v[rows[i].name] = i
    BY <1>2, <2>2, <2>3 DEF Named, Ids, IInv, NamesUnique
  <2> QED
    BY <1>1, <2>1, <2>2, <2>4
<1>5. CASE ~ Opens(p)
  <2>1. (Acting(p) /\ kind[p].op # "import") \/ pc[p] = "flock"
    <3>1. kind[p].op # "import"
      BY <1>1, <1>3 DEF Places, Phase, Flocks
    <3> QED
      BY <1>1, <1>5, <3>1 DEF Moves, Begins, Locks, Stops, GoesOn, Acting, Ended
  <2>2. pc'[p] \notin Ended
    BY <1>1 DEF Acting, Ended
  <2>3. \A j \in Ids("first") : rows[j].name \in DOMAIN view[p] /\ view[p][rows[j].name] = j
    BY <2>1 DEF IInv, Seen
  <2>4. CASE Same(p)
    BY <1>1, <1>3, <2>1, <2>3, <2>4 DEF Same, Ids, Acting
  <2>5. CASE Adds(p)
    <3>1. PICK n \in read[p] :
            /\ rows' = WithRow("first", n, -1) /\ lastRow' = lastRow + 1
            /\ view'[p] = [m \in DOMAIN view[p] \cup {n} |->
                             IF m = n THEN lastRow + 1 ELSE view[p][m]]
      BY <2>5 DEF Adds
    <3>2. Named("first", n) = {}
      BY <1>2, <2>5 DEF IInv, Fresh, Adds
    <3>3. CASE i = lastRow + 1
      BY <1>1, <3>1, <3>3 DEF WithRow
    <3>4. CASE i # lastRow + 1
      <4>1. i \in Ids("first") /\ rows'[i] = rows[i] /\ rows[i].name # n
        BY <1>3, <3>1, <3>2, <3>4 DEF WithRow, Ids, Named
      <4> QED
        BY <1>1, <2>3, <3>1, <4>1
    <3> QED
      BY <3>3, <3>4
  <2>6. CASE Takes(p)
    <3>1. PICK n \in DOMAIN view[p] : /\ rows' = Without({view[p][n]})
                                      /\ view'[p] = [m \in DOMAIN view[p] \ {n} |-> view[p][m]]
      BY <2>6 DEF Takes
    <3>2. i \in Ids("first") /\ rows'[i] = rows[i] /\ i # view[p][n]
      BY <1>3, <3>1 DEF Without, Ids
    <3> QED
      BY <1>1, <2>3, <3>1, <3>2
  <2>7. CASE Changes(p)
    <3>1. PICK n \in DOMAIN view[p], new \in Shape :
            /\ view[p][n] \in DOMAIN rows /\ rows' = Update(view[p][n], new)
            /\ new.depl = rows[view[p][n]].depl /\ new.name = rows[view[p][n]].name
            /\ view'[p] = view[p]
      BY <2>2, <2>7 DEF Changes, Numbers, Renames
    <3>2. i \in Ids("first") /\ rows'[i].name = rows[i].name
      BY <1>3, <3>1 DEF Update, Ids
    <3> QED
      BY <1>1, <2>3, <3>1, <3>2
  <2> QED
    BY <2>1, <2>2, <2>4, <2>5, <2>6, <2>7 DEF RowStep, Brings, Ends, Typed, Phase
<1> QED
  BY <1>4, <1>5

LEMMA StepInv ==
  ASSUME TypeOK, Places, IInv, NEW p \in Process, Step(p) \/ Die(p)
  PROVE  Stepped(p) /\ IInv'
<1>1. Stepped(p)
  BY StepTypes, AllRows, RealSteps, Movements DEF Stepped
<1> QED
  BY <1>1, ApartKept, OursKept, NamesKept, SeenKept, FreshKept, CountedKept DEF IInv

LEMMA InitInv ==
  ASSUME Init, TypeOK  PROVE IInv
<1>1. PICK s \in Setups : rows = s.rows
  BY DEF Init
<1>2. Ordered(rows) /\ RowsOK
  BY <1>1, SetupsAssumption DEF TypeOK, RowsOK
<1>3. Apart /\ Ours /\ Seen /\ Fresh
  BY DEF Init, Apart, Busy, Acting, Ours, Seen, Fresh
<1>4. NamesUnique
  BY <1>2 DEF Ordered, NamesUnique
<1>5. Counted
  BY <1>2 DEF Ordered, Counted, Ids
<1> QED
  BY <1>3, <1>4, <1>5 DEF IInv

LEMMA Invariant == Spec => [](TypeOK /\ Places /\ IInv)
<1>1. Init => TypeOK /\ Places /\ IInv
  BY InitTypes, InitInv
<1>2. TypeOK /\ Places /\ IInv /\ [Next]_vars => (TypeOK /\ Places /\ IInv)'
  <2> SUFFICES ASSUME TypeOK, Places, IInv, [Next]_vars  PROVE (TypeOK /\ Places /\ IInv)'
    OBVIOUS
  <2>1. CASE Next
    BY <2>1, StepTypes, StepInv DEF Next
  <2>2. CASE UNCHANGED vars
    <3>1. TypeOK' /\ Places'
      BY <2>2 DEF vars, dbVars, localVars, TypeOK, Places, Phase, Hand
    <3>2. Apart' /\ Ours' /\ NamesUnique' /\ Seen' /\ Fresh' /\ Counted'
      BY <2>2 DEF vars, dbVars, localVars, IInv, Apart, Ours, NamesUnique, KeptApart, Seen, Fresh,
         Counted, Busy, Acting, Ids, Named
    <3> QED
      BY <3>1, <3>2 DEF IInv
  <2> QED
    BY <2>1, <2>2
<1> QED
  BY <1>1, <1>2, PTL DEF Spec

(* No deployment gets two resources of one name, whatever commands are run on
   it: under the lock they see what there is; under the flock alone, which is
   taken after the rows are read, a name is looked for again before it is
   inserted. *)
THEOREM UniqueNames == Spec => []NamesUnique
<1>1. IInv => NamesUnique
  BY DEF IInv
<1> QED
  BY <1>1, Invariant, PTL

(* What create() has made has a row until destroy() has made an end of it. *)
THEOREM NothingIsLost == Spec => []NothingLost
<1>1. Init /\ TypeOK => NothingLost
  BY DEF Init, NothingLost
<1>2. (TypeOK /\ Places /\ IInv) /\ NothingLost /\ [Next]_vars => NothingLost'
  <2> SUFFICES ASSUME TypeOK, Places, IInv, NothingLost, [Next]_vars  PROVE NothingLost'
    OBVIOUS
  <2>1. ASSUME NEW p \in Process, Step(p) \/ Die(p)  PROVE NothingLost'
    <3>1. Stepped(p)
      BY <2>1, StepInv
    <3>2. locked' = locked /\ kind' = kind
      BY <3>1 DEF Stepped, Own
    <3> SUFFICES ASSUME KeptApart, \A q \in Process : kind[q].op # "delete-resources"
                 PROVE  real' \subseteq DOMAIN rows'
      BY <3>2 DEF NothingLost, KeptApart
    <3>3. real \subseteq DOMAIN rows
      BY DEF NothingLost
    <3>4. CASE rows' = rows
      BY <3>1, <3>3, <3>4 DEF Stepped, RealStep
    <3>5. CASE rows' # rows
      <4>1. real' = real
        BY <3>1, <3>5 DEF Stepped, RealStep
      <4>2. CASE Adds(p) \/ Brings(p)
        <5>1. PICK u, n, k : rows' = WithRow(u, n, k)
          BY <4>2 DEF Adds, Brings
        <5> QED
          BY <3>3, <4>1, <5>1 DEF WithRow
      <4>3. CASE Takes(p)
        <5>1. pc[p] = "drop"
          BY <3>1, <4>3 DEF Takes, Stepped, Typed, Phase
        <5>2. PICK n \in read[p] : rows' = Without({view[p][n]})
          BY <4>3, <5>1 DEF Takes
        <5>3. view[p][n] \notin real
          BY <5>1, <5>2 DEF IInv, Fresh
        <5> QED
          BY <3>3, <4>1, <5>2, <5>3 DEF Without
      <4>4. CASE Ends(p)
        <5>1. pc[p] = "delete" /\ kind[p].op = "delete" /\ DOMAIN view[p] = {}
          BY <3>1, <4>4 DEF Ends, Stepped, Typed, Phase
        <5>2. locked
          BY <5>1, OnlyLocked DEF Flocks
        <5>3. Ids("first") = {}
          BY <5>1, <5>2 DEF IInv, Seen, Acting, Ended
        <5> QED
          BY <3>3, <4>1, <4>4, <5>3 DEF Ends, Without
      <4>5. CASE Changes(p)
        BY <3>3, <4>1, <4>5 DEF Changes, Update
      <4> QED
        BY <3>1, <3>5, <4>2, <4>3, <4>4, <4>5 DEF Stepped, RowStep, Same
    <3> QED
      BY <3>4, <3>5
  <2>2. CASE UNCHANGED vars
    BY <2>2 DEF vars, dbVars, NothingLost, KeptApart
  <2> QED
    BY <2>1, <2>2 DEF Next
<1> QED
  BY <1>1, <1>2, Invariant, PTL DEF Spec

(* Under the lock no two resources of a deployment get one index: the greatest
   there is is known to who gives the next, and an imported deployment is
   counted through. *)
THEOREM UniqueIndices == Spec => []IndicesUnique
<1>1. Init /\ TypeOK => IndicesUnique
  <2> SUFFICES ASSUME Init, TypeOK  PROVE IndicesUnique
    OBVIOUS
  <2>1. Ordered(rows)
    BY SetupsAssumption DEF Init
  <2> QED
    BY <2>1 DEF Ordered, IndicesUnique
<1>2. (TypeOK /\ Places /\ IInv) /\ IndicesUnique /\ [Next]_vars => IndicesUnique'
  <2> SUFFICES ASSUME TypeOK, Places, IInv, IndicesUnique, [Next]_vars  PROVE IndicesUnique'
    OBVIOUS
  <2>1. ASSUME NEW p \in Process, Step(p) \/ Die(p)  PROVE IndicesUnique'
    <3>1. Stepped(p) /\ RowsOK
      BY <2>1, StepInv DEF Stepped, Typed, DbOK
    <3> SUFFICES ASSUME locked  PROVE IndicesUnique'
      BY <3>1 DEF IndicesUnique, Stepped, Own
    <3>2. \A i, j \in DOMAIN rows :
            rows[i].depl = rows[j].depl /\ rows[i].index = rows[j].index /\ rows[i].index # -1
              => i = j
      BY DEF IndicesUnique
    <3>3. CASE Same(p)
      BY <3>2, <3>3 DEF Same, IndicesUnique
    <3>4. CASE Adds(p)
      <4>1. PICK n \in read[p] : rows' = WithRow("first", n, -1)
        BY <3>4 DEF Adds
      <4> QED
        BY <3>2, <4>1 DEF WithRow, IndicesUnique
    <3>5. CASE Brings(p)
      <4>1. PICK n \in work[p] : rows' = WithRow("second", n, Brought("second"))
        BY <3>5 DEF Brings
      <4>2. \A i \in DOMAIN rows : rows[i].depl = "second" => rows[i].index < Brought("second")
        BY DEF IInv, Counted, Ids, Brought
      <4>3. Brought("second") \in Int /\ \A i \in DOMAIN rows : rows[i].index \in Int
        BY <3>1, IdsCount DEF Brought, RowsOK, Shape
      <4>4. \A i \in DOMAIN rows : rows[i].depl = "second" => rows[i].index # Brought("second")
        BY <4>2, <4>3
      <4> QED
        BY <3>2, <4>1, <4>4 DEF WithRow, IndicesUnique
    <3>6. CASE Takes(p) \/ Ends(p)
      <4>1. PICK ids : rows' = Without(ids)
        BY <3>6 DEF Takes, Ends
      <4> QED
        BY <3>2, <4>1 DEF Without, IndicesUnique
    <3>7. CASE Changes(p)
      <4>1. PICK n \in DOMAIN view[p], new \in Shape :
              LET i == view[p][n] IN
              /\ i \in DOMAIN rows /\ rows' = Update(i, new) /\ new.depl = rows[i].depl
              /\ new.index = rows[i].index \/ Numbers(p, rows[i], new)
        BY <3>7 DEF Changes, Renames
      <4> DEFINE i == view[p][n]
      <4>2. /\ DOMAIN rows' = DOMAIN rows /\ rows'[i] = new
            /\ \A j \in DOMAIN rows \ {i} : rows'[j] = rows[j]
        BY <4>1 DEF Update
      <4>3. CASE new.index = rows[i].index
        BY <3>2, <4>1, <4>2, <4>3 DEF IndicesUnique
      <4>4. CASE Numbers(p, rows[i], new)
        <5>1. pc[p] = "index" /\ kind[p].op # "import" /\ Free(p, new.index)
          BY <3>1, <4>4 DEF Numbers, Stepped, Typed, Phase
        <5>2. \A j \in Ids("first") : rows[j].name \in DOMAIN view[p] /\ view[p][rows[j].name] = j
          BY <5>1 DEF IInv, Seen, Acting, Ended
        <5>3. new.depl = "first"
          BY <4>1 DEF IInv, Ours
        <5>4. \A j \in Ids("first") : Index(j) < new.index
          BY <5>1, <5>2 DEF Free
        <5>5. \A j \in DOMAIN rows : rows[j].depl = "first" => rows[j].index < new.index
          BY <5>4 DEF Ids, Index
        <5>6. new.index \in Int /\ \A j \in DOMAIN rows : rows[j].index \in Int
          BY <3>1 DEF RowsOK, Shape
        <5>7. \A j \in DOMAIN rows : rows[j].depl = "first" => rows[j].index # new.index
          BY <5>5, <5>6
        <5> QED
          BY <3>2, <4>2, <5>3, <5>7 DEF IndicesUnique
      <4> QED
        BY <4>1, <4>3, <4>4
    <3> QED
      BY <3>1, <3>3, <3>4, <3>5, <3>6, <3>7 DEF Stepped, RowStep
  <2>2. CASE UNCHANGED vars
    BY <2>2 DEF vars, dbVars, IndicesUnique
  <2> QED
    BY <2>1, <2>2 DEF Next
<1> QED
  BY <1>1, <1>2, Invariant, PTL DEF Spec
=============================================================================
