-------------------------- MODULE DiffEngineProofs --------------------------
(***************************************************************************)
(* Proofs about DiffEngine, for any number of handlers and any attributes: *)
(* the types, that the sort puts every handler after all those it comes    *)
(* after, and what a create() that returns has stored.                     *)
(***************************************************************************)
EXTENDS DiffEngine, FiniteSetTheorems, TLAPS

(* The visits that are under way lead back to the loop over the handlers. *)
Entered(h) == h = Top \/ (h \in H /\ parent[h] # Unseen)
Trail == Entered(at) /\ \A h \in H : parent[h] # Unseen => Entered(parent[h])

LEMMA TrailStep == ASSUME TypeOK, Trail, [Next]_vars PROVE Trail'
<1> USE DiffEngineAssumption DEF Trail, Entered, Unseen, Top
<1>1. CASE Create
  BY <1>1 DEF Create, H
<1>2. CASE Root
  <2>1. CASE UNCHANGED <<parent, at>>
    BY <2>1
  <2>2. CASE \E h \in chosen : IsUnseen(h) /\ Enter(h)
    <3>1. PICK h \in chosen : IsUnseen(h) /\ Enter(h)
      BY <2>2
    <3>2. h \in H /\ h # N + 1 /\ at # N + 1
      BY <3>1 DEF TypeOK, H
    <3> QED BY <3>1, <3>2 DEF Enter, IsUnseen, TypeOK
  <2> QED BY <1>2, <2>1, <2>2 DEF Root
<1>3. CASE Visit
  <2>1. PICK v \in Pending(at) : Enter(v)
    BY <1>3 DEF Visit
  <2>2. at \in H /\ v \in H /\ parent[v] = Unseen
    BY <1>3, <2>1 DEF Visit, Pending, IsUnseen, TypeOK, H
  <2>3. at # N + 1
    BY <2>2 DEF H
  <2> QED BY <2>1, <2>2, <2>3 DEF Enter, TypeOK
<1>4. CASE Append
  BY <1>4 DEF Append
<1>5. CASE UNCHANGED <<parent, at>>
  BY <1>5
<1> QED BY <1>1, <1>2, <1>3, <1>4, <1>5 DEF Next, Sort, Handle, HandleFails, Return, Edit, vars, sortVars

(* Every variable of the difference engine keeps its type. *)
THEOREM TypeCorrect == Spec => [](TypeOK /\ Trail)
<1>1. Init => TypeOK /\ Trail
  <2> SUFFICES ASSUME Init PROVE TypeOK /\ Trail
    OBVIOUS
  <2>1. /\ keys \in [H -> SUBSET Key] /\ deps \in [H -> SUBSET H]
        /\ definition \in [Key -> Given] /\ state \in [Key -> Stored]
        /\ other \in {"up", "down", "gone"}
    BY SetupsAssumption DEF Init
  <2>2. Trail
    BY DiffEngineAssumption DEF Init, Trail, Entered, H, Unseen, Top
  <2> QED BY <2>1, <2>2, DiffEngineAssumption DEF Init, TypeOK, Unseen, Top
<1>2. TypeOK /\ Trail /\ [Next]_vars => TypeOK'
  <2> SUFFICES ASSUME TypeOK, Trail, [Next]_vars PROVE TypeOK'
    OBVIOUS
  <2> USE DiffEngineAssumption
  <2>1. CASE Create
    <3>1. state' \in [Key -> Stored]
      BY <2>1 DEF Create, TypeOK, Stored
    <3>2. chosen' \subseteq H /\ left' \subseteq chosen'
      BY <2>1 DEF Create, TypeOK
    <3>3. pc' \in {"idle", "sort", "run", "ok", "failed"}
      BY <2>1 DEF Create
    <3>4. /\ parent' \in [H -> 0 .. N + 1] /\ at' \in 0 .. N
          /\ place' \in [H -> Nat] /\ count' \in Nat
      BY <2>1 DEF Create, Unseen, Top
    <3> QED BY <2>1, <3>1, <3>2, <3>3, <3>4 DEF Create, TypeOK, typeVars
  <2>2. CASE Root
    <3>1. CASE UNCHANGED <<parent, at>>
      BY <2>2, <3>1 DEF Root, TypeOK, typeVars
    <3>2. CASE UNCHANGED <<pc, left>> /\ \E h \in chosen : Enter(h)
      <4>1. PICK h \in chosen : Enter(h)
        BY <3>2
      <4>2. parent' \in [H -> 0 .. N + 1] /\ at' \in 0 .. N
        BY <4>1 DEF Enter, TypeOK, H
      <4> QED BY <2>2, <3>2, <4>2 DEF Root, TypeOK, typeVars
    <3> QED BY <2>2, <3>1, <3>2 DEF Root
  <2>3. CASE Visit
    <3>1. parent' \in [H -> 0 .. N + 1] /\ at' \in 0 .. N
      BY <2>3 DEF Visit, Pending, Enter, TypeOK, H, Top
    <3> QED BY <2>3, <3>1 DEF Visit, TypeOK, typeVars
  <2>4. CASE Append
    <3>1. at \in H /\ parent[at] # Unseen
      BY <2>4 DEF Append, Trail, Entered
    <3>2. at' \in 0 .. N
      BY <2>4, <3>1 DEF Append, TypeOK, Unseen
    <3>3. count + 1 \in Nat /\ place \in [H -> Nat]
      BY DEF TypeOK
    <3>4. place' \in [H -> Nat] /\ count' \in Nat
      BY <2>4, <3>3 DEF Append
    <3> QED BY <2>4, <3>2, <3>4 DEF Append, TypeOK, typeVars
  <2>5. CASE Handle
    <3>1. PICK h \in left : Store(keys[h]) /\ left' = left \ {h}
      BY <2>5 DEF Handle
    <3>2. state' \in [Key -> Stored]
      BY <3>1 DEF Store, Realised, Row, TypeOK, Stored, Given
    <3> QED BY <2>5, <3>1, <3>2 DEF Handle, TypeOK, typeVars, sortVars
  <2>6. CASE HandleFails
    <3>1. PICK ks : Store(ks)
      BY <2>6 DEF HandleFails
    <3>2. state' \in [Key -> Stored]
      BY <3>1 DEF Store, Realised, Row, TypeOK, Stored, Given
    <3> QED BY <2>6, <3>2 DEF HandleFails, TypeOK, typeVars, sortVars
  <2>7. CASE Return
    BY <2>7 DEF Return, TypeOK, typeVars, sortVars
  <2>8. CASE Edit
    BY <2>8 DEF Edit, TypeOK, typeVars, sortVars
  <2>9. CASE UNCHANGED vars
    BY <2>9 DEF vars, TypeOK, typeVars, sortVars
  <2> QED BY <2>1, <2>2, <2>3, <2>4, <2>5, <2>6, <2>7, <2>8, <2>9 DEF Next, Sort
<1> QED BY <1>1, <1>2, TrailStep, PTL DEF Spec
-----------------------------------------------------------------------------
(* The sort.  On an acyclic graph the visits that are under way go downwards
   in its ranks, so a dependency that has been entered and is not of them has
   its place. *)

Open(h) == parent[h] # Unseen /\ place[h] = 0

Chain(r, h) ==
  Open(h) =>
    /\ at # Top /\ (h = at \/ r[at] < r[h])
    /\ parent[h] = Top => \A g \in H : Open(g) => r[g] <= r[h]
    /\ parent[h] # Top =>
         /\ parent[h] \in H /\ Open(parent[h]) /\ r[h] < r[parent[h]]
         /\ \A g \in H : Open(g) /\ r[h] < r[g] => g = parent[h] \/ r[parent[h]] < r[g]

Postorder(h) ==
  place[h] # 0 =>
    /\ parent[h] # Unseen /\ place[h] <= count
    /\ \A v \in deps[h] : place[v] # 0 /\ place[v] < place[h]

Sorted(r) ==
  /\ at # Top => at \in H /\ Open(at)
  /\ \A h \in H : Chain(r, h)
  /\ \A h \in H : Postorder(h)
  /\ \A g, h \in H : place[g] = place[h] /\ place[h] # 0 => g = h
  /\ pc = "run" => /\ \A h \in chosen : place[h] # 0
                   /\ \A h \in chosen \ left : \A g \in left : place[h] < place[g]

Rank == {r \in [H -> H] : Ranked(r)}

LEMMA SortedInit == ASSUME Init, NEW r \in Rank PROVE Sorted(r)
BY DiffEngineAssumption DEF Init, Sorted, Open, Chain, Postorder, Unseen, Top, H

LEMMA SortedCreate ==
  ASSUME TypeOK, NEW r \in Rank, Create PROVE Sorted(r)'
<1>1. /\ at' = Top /\ pc' # "run"
      /\ \A h \in H : parent'[h] = Unseen /\ place'[h] = 0
  BY DEF Create
<1> QED BY <1>1 DEF Sorted, Open, Chain, Postorder

LEMMA SortedRoot ==
  ASSUME TypeOK, NEW r \in Rank, Sorted(r), Root PROVE Sorted(r)'
<1> USE DiffEngineAssumption
<1>1. \A h \in H : ~ Open(h)
  BY DEF Sorted, Chain, Root
<1>2. CASE {h \in chosen : IsUnseen(h)} = {} /\ left' = chosen /\ UNCHANGED <<parent, at>>
  <2>1. \A h \in chosen : place[h] # 0
    BY <1>1, <1>2 DEF IsUnseen, Open, TypeOK
  <2> QED BY <1>1, <1>2, <2>1 DEF Root, Sorted, Open, Chain, Postorder, typeVars, TypeOK
<1>3. CASE UNCHANGED <<pc, left>> /\ \E h \in chosen : IsUnseen(h) /\ Enter(h)
  <2>1. PICK h \in chosen : IsUnseen(h) /\ Enter(h)
    BY <1>3
  <2>2. h \in H /\ at = Top /\ pc = "sort" /\ UNCHANGED <<keys, deps, pc, place, count>>
    BY <1>3 DEF Root, TypeOK, typeVars
  <2>3. place[h] = 0
    BY <2>1, <2>2 DEF Sorted, Postorder, IsUnseen
  <2>4. parent' = [parent EXCEPT ![h] = Top] /\ at' = h /\ Top # Unseen /\ h # Top
    BY <2>1, <2>2 DEF Enter, Top, Unseen, H
  <2>5. \A g \in H : Open(g)' <=> g = h
    BY <1>1, <2>2, <2>3, <2>4 DEF Open, TypeOK
  <2>6. ASSUME NEW g \in H PROVE Chain(r, g)'
    <3>1. r \in [H -> H] /\ r[h] <= r[h]
      BY <2>2 DEF Rank, H
    <3> QED BY <2>2, <2>4, <2>5, <3>1 DEF Chain, TypeOK
  <2>7. ASSUME NEW g \in H PROVE Postorder(g)'
    BY <2>1, <2>2, <2>3, <2>4 DEF Sorted, Postorder, TypeOK
  <2> QED BY <2>2, <2>4, <2>5, <2>6, <2>7 DEF Sorted
<1> QED BY <1>2, <1>3 DEF Root

LEMMA SortedVisit ==
  ASSUME TypeOK, NEW r \in Rank, Sorted(r), Visit PROVE Sorted(r)'
<1> USE DiffEngineAssumption
<1>1. PICK v \in Pending(at) : Enter(v)
  BY DEF Visit
<1>2. /\ at \in H /\ v \in H /\ v \in deps[at] /\ parent[v] = Unseen /\ pc = "sort"
      /\ UNCHANGED <<keys, deps, pc, chosen, place, count, left>>
  BY <1>1 DEF Visit, Pending, IsUnseen, TypeOK, H, Top, typeVars
<1>3. /\ parent' = [parent EXCEPT ![v] = at] /\ at' = v
      /\ at # Unseen /\ at # Top /\ v # Top
  BY <1>1, <1>2 DEF Enter, Top, Unseen, H
<1>4. r \in [H -> H] /\ r[v] < r[at] /\ \A h \in H : r[h] \in Nat
  BY <1>2 DEF Rank, Ranked, H
<1>5. Open(at) /\ place[v] = 0 /\ v # at
  BY <1>2, <1>3 DEF Sorted, Postorder, Open
<1>6. \A g \in H : Open(g)' <=> Open(g) \/ g = v
  BY <1>2, <1>3, <1>5 DEF Open, TypeOK
<1>7. \A g \in H : Open(g) => g = at \/ r[at] < r[g]
  BY DEF Sorted, Chain
<1>8. ASSUME NEW h \in H PROVE Chain(r, h)'
  <2>1. CASE h = v
    BY <2>1, <1>2, <1>3, <1>4, <1>5, <1>6, <1>7 DEF Chain, TypeOK
  <2>2. CASE h # v
    <3>1. parent'[h] = parent[h]
      BY <1>2, <1>3, <2>2 DEF TypeOK
    <3>2. SUFFICES ASSUME Open(h) PROVE Chain(r, h)'
      BY <1>6, <2>2 DEF Chain
    <3>3. r[v] < r[h] /\ ~ (r[h] < r[v])
      BY <1>2, <1>4, <1>7, <3>2
    <3>4. Chain(r, h)
      BY DEF Sorted
    <3>5. parent[h] = Top => \A g \in H : Open(g)' => r[g] <= r[h]
      BY <1>4, <1>6, <3>2, <3>3, <3>4 DEF Chain
    <3>6. ASSUME NEW q \in H, q = parent[h], q # Top
          PROVE  /\ Open(q)' /\ r[h] < r[q]
                 /\ \A g \in H : Open(g)' /\ r[h] < r[g] => g = q \/ r[q] < r[g]
      BY <1>6, <3>2, <3>3, <3>4, <3>6 DEF Chain
    <3>7. parent[h] # Top => parent[h] \in H
      BY <3>2, <3>4 DEF Chain
    <3> QED BY <1>3, <3>1, <3>3, <3>5, <3>6, <3>7 DEF Chain, Open
  <2> QED BY <2>1, <2>2
<1>9. ASSUME NEW h \in H PROVE Postorder(h)'
  BY <1>2, <1>3, <1>5 DEF Sorted, Postorder, TypeOK
<1> QED BY <1>2, <1>3, <1>5, <1>6, <1>8, <1>9 DEF Sorted

LEMMA SortedAppend ==
  ASSUME TypeOK, NEW r \in Rank, Sorted(r), Append PROVE Sorted(r)'
<1> USE DiffEngineAssumption
<1>0. PICK p : p = parent[at]
  OBVIOUS
<1>1. /\ at # Top /\ at \in H /\ Pending(at) = {} /\ pc = "sort" /\ Open(at)
      /\ UNCHANGED <<keys, deps, pc, chosen, parent, left>>
  BY DEF Append, Sorted, typeVars
<1>2. /\ count' = count + 1 /\ place' = [place EXCEPT ![at] = count + 1]
      /\ at' = p /\ count \in Nat /\ count + 1 # 0
  BY <1>0 DEF Append, TypeOK
<1>3. \A h \in H : r[h] \in Nat
  BY DEF Rank, H
<1>4. \A h \in H : place[h] \in Nat /\ place[h] <= count
  BY <1>2 DEF Sorted, Postorder, TypeOK
<1>5. \A g \in H : Open(g)' <=> Open(g) /\ g # at
  BY <1>1, <1>2 DEF Open, TypeOK
<1>6. \A g \in H : Open(g) => g = at \/ r[at] < r[g]
  BY DEF Sorted, Chain
<1>7. Chain(r, at)
  BY <1>1 DEF Sorted
<1>8. p = Top => \A g \in H : ~ Open(g)'
  BY <1>0, <1>1, <1>3, <1>5, <1>6, <1>7 DEF Chain
<1>9. p # Top => /\ p \in H /\ Open(p)'
                /\ \A g \in H : Open(g)' => g = p \/ r[p] < r[g]
  <2> HAVE p # Top
  <2>1. /\ p \in H /\ Open(p) /\ r[at] < r[p]
        /\ \A g \in H : Open(g) /\ r[at] < r[g] => g = p \/ r[p] < r[g]
    BY <1>0, <1>1, <1>7 DEF Chain
  <2>2. p # at
    BY <1>3, <2>1
  <2> QED BY <1>1, <1>5, <1>6, <2>1, <2>2
<1>10. ASSUME NEW h \in H PROVE Chain(r, h)'
  <2>1. SUFFICES ASSUME Open(h)' PROVE Chain(r, h)'
    BY DEF Chain
  <2>2. Open(h) /\ h # at /\ Chain(r, h) /\ parent'[h] = parent[h]
    BY <1>1, <1>5, <2>1 DEF Sorted
  <2>3. at' # Top /\ (h = at' \/ r[at'] < r[h])
    BY <1>2, <1>8, <1>9, <2>1
  <2>4. parent[h] = Top => \A g \in H : Open(g)' => r[g] <= r[h]
    BY <1>5, <2>2 DEF Chain
  <2>5. ASSUME NEW q \in H, q = parent[h], q # Top
        PROVE  /\ Open(q)' /\ r[h] < r[q]
               /\ \A g \in H : Open(g)' /\ r[h] < r[g] => g = q \/ r[q] < r[g]
    <3>1. /\ Open(q) /\ r[h] < r[q]
          /\ \A g \in H : Open(g) /\ r[h] < r[g] => g = q \/ r[q] < r[g]
      BY <2>2, <2>5 DEF Chain
    <3>2. q # at
      BY <1>1, <1>3, <1>6, <2>2, <3>1
    <3> QED BY <1>5, <3>1, <3>2
  <2>6. parent[h] # Top => parent[h] \in H
    BY <2>2 DEF Chain
  <2> QED BY <2>2, <2>3, <2>4, <2>5, <2>6 DEF Chain, Open
<1>11. \A v \in deps[at] : v \in H /\ place[v] # 0
  <2> TAKE v \in deps[at]
  <2>1. v \in H /\ parent[v] # Unseen /\ r[v] < r[at]
    BY <1>1 DEF Pending, IsUnseen, TypeOK, Rank, Ranked
  <2> QED BY <1>1, <1>3, <1>6, <2>1 DEF Open
<1>12. ASSUME NEW h \in H PROVE Postorder(h)'
  <2>1. CASE h = at
    BY <1>1, <1>2, <1>4, <1>11, <2>1 DEF Postorder, Open, TypeOK
  <2>2. CASE h # at
    <3>1. place'[h] = place[h] /\ Postorder(h) /\ place[at] = 0
      BY <1>1, <1>2, <2>2 DEF Sorted, Open, TypeOK
    <3>2. \A v \in deps[h] : v \in H
      BY DEF TypeOK
    <3> QED BY <1>1, <1>2, <1>4, <3>1, <3>2 DEF Postorder, TypeOK
  <2> QED BY <2>1, <2>2
<1>13. \A g, h \in H : place'[g] = place'[h] /\ place'[h] # 0 => g = h
  BY <1>1, <1>2, <1>4 DEF Sorted, TypeOK
<1>14. at' # Top => at' \in H /\ Open(at)'
  BY <1>2, <1>9 DEF Open
<1> QED BY <1>1, <1>10, <1>12, <1>13, <1>14 DEF Sorted

LEMMA SortedHandle ==
  ASSUME TypeOK, NEW r \in Rank, Sorted(r), Handle PROVE Sorted(r)'
<1>1. PICK h \in left : IsFirst(h) /\ left' = left \ {h}
  BY DEF Handle
<1>2. UNCHANGED <<keys, deps, pc, chosen, parent, at, place, count>> /\ pc = "run"
  BY DEF Handle, typeVars, sortVars
<1>3. h \in chosen /\ \A g \in chosen : g \in H /\ place[g] \in Nat /\ place[g] # 0
  BY <1>2 DEF TypeOK, Sorted
<1>4. \A g \in left \ {h} : place[h] < place[g]
  BY <1>1, <1>3 DEF IsFirst, Sorted, TypeOK
<1>5. \A d \in chosen \ left' : \A g \in left' : place[d] < place[g]
  BY <1>1, <1>2, <1>4 DEF Sorted
<1>6. \A g \in H : (Chain(r, g)' <=> Chain(r, g)) /\ (Postorder(g)' <=> Postorder(g))
  BY <1>2 DEF Chain, Postorder, Open
<1> QED BY <1>2, <1>5, <1>6 DEF Sorted, Open

LEMMA SortedElse ==
  ASSUME NEW r \in Rank, Sorted(r), HandleFails \/ Return \/ Edit \/ UNCHANGED vars
  PROVE  Sorted(r)'
<1>1. UNCHANGED <<keys, deps, parent, at, place, count>>
  BY DEF HandleFails, Return, Edit, vars, typeVars, sortVars
<1>2. pc' # "run" \/ UNCHANGED <<pc, chosen, left>>
  BY DEF HandleFails, Return, Edit, vars
<1>3. \A g \in H : (Chain(r, g)' <=> Chain(r, g)) /\ (Postorder(g)' <=> Postorder(g))
  BY <1>1 DEF Chain, Postorder, Open
<1> QED BY <1>1, <1>2, <1>3 DEF Sorted, Open

(* The depth-first sort orders every acyclic graph of handlers: what a handler
   depends on through any number of others, chosen or not, is called first. *)
THEOREM OrderRespected == Spec => []DependenciesFirst
<1> DEFINE IInv == \A r \in [H -> H] : Ranked(r) => Sorted(r)
<1>1. Init => IInv
  BY SortedInit DEF Rank
<1>2. TypeOK /\ IInv /\ [Next]_vars => IInv'
  <2> SUFFICES ASSUME TypeOK, IInv, [Next]_vars, NEW r \in [H -> H], Ranked(r)'
               PROVE  Sorted(r)'
    BY DEF Rank
  <2>1. deps' = deps
    BY DEF Next, Sort, Create, Root, Visit, Append, Handle, HandleFails, Return, Edit,
           vars, typeVars
  <2>2. r \in Rank /\ Sorted(r)
    BY <2>1 DEF Rank, Ranked
  <2> QED BY <2>2, SortedCreate, SortedRoot, SortedVisit, SortedAppend, SortedHandle,
             SortedElse DEF Next, Sort
<1>3. TypeOK /\ IInv => DependenciesFirst
  <2> SUFFICES ASSUME TypeOK, IInv, pc = "run", Acyclic, NEW h \in chosen \ left,
                      NEW g \in Below(h) \cap chosen, g \in left
               PROVE  FALSE
    BY DEF DependenciesFirst
  <2>1. PICK r \in [H -> H] : Sorted(r)
    BY DEF Acyclic
  <2> DEFINE S == {v \in H : place[v] # 0 /\ place[v] < place[h]}
  <2>2. h \in H /\ place[h] # 0 /\ place[h] < place[g]
    BY <2>1 DEF Sorted, TypeOK
  <2>3. \A v \in H : place[v] \in Nat /\ deps[v] \subseteq H
    BY DEF TypeOK
  <2>4. deps[h] \subseteq S
    BY <2>1, <2>2, <2>3 DEF Sorted, Postorder
  <2>5. \A v \in S : deps[v] \subseteq S
    <3> SUFFICES ASSUME NEW v \in S, NEW u \in deps[v] PROVE u \in S
      OBVIOUS
    <3>1. u \in H /\ place[u] # 0 /\ place[u] < place[v]
      BY <2>1, <2>3 DEF Sorted, Postorder
    <3> QED BY <2>2, <2>3, <3>1
  <2>6. g \in S
    BY <2>4, <2>5 DEF Below, Closed
  <2> QED BY <2>2, <2>3, <2>6
<1> QED BY <1>1, <1>2, <1>3, TypeCorrect, PTL DEF Spec
-----------------------------------------------------------------------------
(* What a create() that returns has done. *)

AsStored(k) == Get(state[k]) = Get(Row(Realised(k)))

Done(hs) == \A k \in Key \ Reserved : ~ AsStored(k) => \E h \in hs : k \in keys[h]

Remaining ==
  /\ pc = "sort" => Done(chosen)
  /\ pc = "run" => Done(left)
  /\ pc = "ok" => Done({})

(* What compares equal is what a handler would store. *)
LEMMA EqualIsStored ==
  ASSUME TypeOK, NEW k \in Key, NEW row \in Stored, Get(row) = Resolve(k)
  PROVE  Get(row) = Get(Row(Realised(k)))
<1>1. definition[k] \in Given
  BY DEF TypeOK
<1> QED BY <1>1 DEF Get, Row, Realised, Resolve, References, Given, Stored

LEMMA RemainingCreate == ASSUME TypeOK, TypeOK', Remaining, Create PROVE Remaining'
<1>1. /\ UNCHANGED <<keys, definition, other>> /\ pc' # "run"
      /\ pc' = "ok" => Changed(state') = {}
      /\ pc' = "sort" => Covers(chosen', Changed(state'))
  BY DEF Create, typeVars, IsCombination
<1>2. \A k \in Key \ Reserved : k \notin Changed(state') => AsStored(k)'
  <2> SUFFICES ASSUME NEW k \in Key \ Reserved, Get(state'[k]) = Resolve(k) PROVE AsStored(k)'
    BY DEF Changed
  <2>1. state'[k] \in Stored
    BY DEF TypeOK
  <2>2. Get(state'[k]) = Get(Row(Realised(k)))
    BY <2>1, EqualIsStored
  <2> QED BY <1>1, <2>2 DEF AsStored, Realised
<1>3. pc' = "ok" => Done({})'
  BY <1>1, <1>2 DEF Done
<1>4. pc' = "sort" => Done(chosen)'
  BY <1>1, <1>2 DEF Done, Covers
<1> QED BY <1>1, <1>3, <1>4 DEF Remaining

LEMMA RemainingHandle == ASSUME TypeOK, Remaining, Handle PROVE Remaining'
<1>1. PICK h \in left : Store(keys[h]) /\ left' = left \ {h}
  BY DEF Handle
<1>2. UNCHANGED <<keys, definition, pc>> /\ pc = "run"
  BY DEF Handle, typeVars
<1>3. SUFFICES ASSUME Done(left), NEW k \in Key \ Reserved, ~ AsStored(k)'
               PROVE  \E g \in left' : k \in keys[g]
  BY <1>2 DEF Remaining, Done
<1>4. Realised(k)' = Realised(k)
  BY <1>2 DEF Realised
<1>5. k \in keys[h] => AsStored(k)'
  BY <1>1, <1>4 DEF Store, AsStored
<1>6. k \notin keys[h] /\ state'[k] = state[k]
  BY <1>1, <1>3, <1>5 DEF Store
<1> QED BY <1>1, <1>3, <1>4, <1>6 DEF Done, AsStored

(* A create() that returns has stored what its handlers make of the definition,
   wherever the attempts before it have failed, and leaves to the next one only
   the values that do not come back from the state file as they were given. *)
THEOREM Settles == Spec => []Settled
<1>1. Init => Remaining
  BY DEF Init, Remaining
<1>2. TypeOK /\ TypeOK' /\ Remaining /\ [Next]_vars => Remaining'
  <2> SUFFICES ASSUME TypeOK, TypeOK', Remaining, [Next]_vars PROVE Remaining'
    OBVIOUS
  <2>1. CASE Create
    BY <2>1, RemainingCreate
  <2>2. CASE Root
    BY <2>2 DEF Root, Enter, Remaining, Done, AsStored, Realised, typeVars
  <2>3. CASE Visit \/ Append
    BY <2>3 DEF Visit, Append, Remaining, Done, AsStored, Realised, typeVars
  <2>4. CASE Handle
    BY <2>4, RemainingHandle
  <2>5. CASE Return
    BY <2>5 DEF Return, Remaining, Done, AsStored, Realised, typeVars
  <2>6. CASE HandleFails \/ Edit
    BY <2>6 DEF HandleFails, Edit, Remaining
  <2>7. CASE UNCHANGED vars
    BY <2>7 DEF vars, Remaining, Done, AsStored, Realised, typeVars
  <2> QED BY <2>1, <2>2, <2>3, <2>4, <2>5, <2>6, <2>7 DEF Next, Sort
<1>3. Remaining => Settled
  <2> SUFFICES ASSUME pc = "ok", Done({}) PROVE Settled
    BY DEF Remaining, Settled
  <2>1. \A k \in Key \ Reserved : Get(state[k]) = Get(Row(Realised(k)))
    BY DEF Done, AsStored
  <2> QED BY <2>1 DEF Settled, Changed, ReadsBack
<1> QED BY <1>1, <1>2, <1>3, TypeCorrect, PTL DEF Spec
-----------------------------------------------------------------------------
LEMMA Exclusive ==
  ASSUME TypeOK, NEW c \in SUBSET H, NEW ks \in SUBSET Key, IsCombination(c, ks),
         NEW h \in c
  PROVE  \E k \in ks : \A g \in c \ {h} : k \notin keys[g]
<1> SUFFICES ASSUME \A k \in ks : \E g \in c \ {h} : k \in keys[g] PROVE FALSE
  OBVIOUS
<1>1. Covers(c \ {h}, ks) /\ c \ {h} \in SUBSET H
  BY DEF Covers
<1>2. Cardinality(c) <= Cardinality(c \ {h})
  BY <1>1 DEF IsCombination
<1>3. IsFiniteSet(c)
  <2>1. 1 \in Int /\ N \in Int
    BY DiffEngineAssumption
  <2>2. IsFiniteSet(H)
    BY <2>1, FS_Interval DEF H
  <2> QED BY <2>2, FS_Subset
<1>4. Cardinality(c \ {h}) = Cardinality(c) - 1 /\ Cardinality(c) \in Nat
  BY <1>3, FS_RemoveElement, FS_CardinalityType
<1> QED BY <1>2, <1>4

(* The plan is a smallest one, so no handler of it is called for nothing. *)
THEOREM NothingForNothing == Spec => []Irredundant
<1> DEFINE IInv == pc = "sort" => IsCombination(chosen, Changed(state))
<1>1. Init => IInv
  BY DEF Init
<1>2. TypeOK /\ IInv /\ [Next]_vars => IInv'
  <2> SUFFICES ASSUME TypeOK, IInv, [Next]_vars, pc' = "sort"
               PROVE  IsCombination(chosen, Changed(state))'
    OBVIOUS
  <2>1. CASE Create
    <3>1. IsCombination(chosen', Changed(state')) /\ UNCHANGED <<keys, definition, other>>
      BY <2>1 DEF Create, typeVars
    <3>2. \A k \in Key : Resolve(k)' = Resolve(k)
      BY <3>1 DEF Resolve
    <3>3. Changed(state)' = Changed(state')
      BY <3>2 DEF Changed
    <3> QED BY <3>1, <3>3 DEF IsCombination, Covers
  <2>2. CASE UNCHANGED <<keys, definition, other, state, chosen, pc>>
    BY <2>2 DEF IsCombination, Covers, Changed, Get, Resolve, References
  <2> QED BY <2>1, <2>2 DEF Next, Sort, Root, Visit, Append, Handle, HandleFails, Return,
                            Edit, vars, typeVars
<1>3. TypeOK /\ IInv => Irredundant
  BY Exclusive DEF Irredundant, TypeOK, Changed
<1> QED BY <1>1, <1>2, <1>3, TypeCorrect, PTL DEF Spec
=============================================================================
