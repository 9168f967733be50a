----------------------------- MODULE DiffEngine -----------------------------
(***************************************************************************)
(* A resource of the difference engine (nixops/diff.py; resources/         *)
(* __init__.py: DiffEngineResourceState; state.py: StateDict).  create()   *)
(* compares the definition with what the state file has, chooses the       *)
(* smallest set of handlers that have the changed keys between them, sorts *)
(* them by their dependencies, depth first, and runs them one by one.  A   *)
(* handler may fail, and the user changes the definition and deploys       *)
(* again.                                                                  *)
(*                                                                         *)
(* The handlers come with the plugins: theirs is what Realised says.       *)
(***************************************************************************)
EXTENDS Integers, FiniteSets

CONSTANTS
  N,            \* the handlers are 1 .. N, in the order of get_handlers
  Key,          \* attributes of the resource
  Reserved,     \* those of set_reserved_keys
  Setups,       \* the resource types, definitions and states there are
  MaxEdits      \* bound on the changes of the definition

H == 1 .. N

ASSUME DiffEngineAssumption ==
  N \in Nat /\ MaxEdits \in Nat /\ Reserved \subseteq Key

\* What a definition gives a key: a value; a string that json.loads takes for
\* something else ("123", "true", "1.0"), what it takes it for, and the string
\* "null"; a reference to another resource, also one to an attribute that is
\* such a string; a list of references; a list inside a list or a dictionary.
Given == {"none", "v1", "v2", "digits", "number", "null", "ref", "digits ref",
          "refs", "nested"}

\* The text of a row of ResourceAttrs, or no row.
Stored == {"none", "v1", "v2", "digits", "null", "target", "targets", "nested"}

ASSUME SetupsAssumption ==
  Setups \subseteq [keys : [H -> SUBSET Key], deps : [H -> SUBSET H],
                   definition : [Key -> Given], state : [Key -> Stored],
                   other : {"up", "down", "gone"}]

VARIABLES
  keys, deps,   \* of each handler: get_keys, get_deps
  definition,   \* the resource's definition
  state,        \* its StateDict
  other,        \* the resource that is referred to
  pc,           \* where create() is
  chosen,       \* the handlers to be called
  parent, at,   \* topological_sort: who has led to a handler, the innermost visit
  place, count, \* the sequence: where a handler stands in it, its length
  left,         \* the handlers of the plan that are still to be called
  edits

typeVars == <<keys, deps>>
sortVars == <<parent, at, place, count>>
vars == <<typeVars, definition, state, other, pc, chosen, sortVars, left, edits>>

Unseen == N + 1
Top == 0

Init ==
  /\ \E s \in Setups :
       /\ keys = s.keys /\ deps = s.deps
       /\ definition = s.definition /\ state = s.state /\ other = s.other
  /\ pc = "idle" /\ chosen = {} /\ left = {} /\ edits = 0
  /\ parent = [h \in H |-> Unseen] /\ at = Top
  /\ place = [h \in H |-> 0] /\ count = 0
-----------------------------------------------------------------------------
(* The state file.                                                         *)

\* StateDict.__setitem__: lists and dictionaries become json; a string is
\* written as it is, a number as text.
Row(v) == IF v = "number" THEN "digits" ELSE v

\* StateDict.__getitem__: json.loads of any text it accepts.  The definition
\* has tuples for lists: so has what is read, but not for those inside.
Get(row) ==
  IF row = "digits" THEN "number"
  ELSE IF row = "null" THEN "none" ELSE IF row = "nested" THEN "lists" ELSE row
-----------------------------------------------------------------------------
(* The difference.                                                         *)

References == {"ref", "digits ref"}

\* get_resource_definition.  ResourceEval has made tuples of the lists: the
\* references inside one are not followed.
Resolve(k) ==
  IF definition[k] \notin References THEN definition[k]
  ELSE IF other # "up" THEN "computed"
  ELSE IF definition[k] = "ref" THEN "target" ELSE "digits"

\* get_generic_resource raises.
Unresolvable == other = "gone" /\ \E k \in Key : definition[k] \in References

FaultOnlyGiven(s) == {k \in Key \ Reserved : definition[k] # "none" /\ Get(s[k]) # Resolve(k)}

\* get_keys after eval_resource_attr_diff of every key of either.
Changed(s) == {k \in Key \ Reserved : Get(s[k]) # Resolve(k)}

Covers(c, ks) == ks \subseteq UNION {keys[h] : h \in c}

Least(S) == CHOOSE x \in S : \A y \in S : x <= y

\* get_handlers_sequence: combinations of one handler, of two, ..., each in
\* order; the first that has all the keys.
IsCombination(c, ks) ==
  /\ Covers(c, ks)
  /\ \A d \in SUBSET H : Covers(d, ks) =>
       /\ Cardinality(c) <= Cardinality(d)
       /\ Cardinality(c) = Cardinality(d) /\ c # d => Least((c \ d) \cup (d \ c)) \in c

\* create(): with check, _check() may find that the resource has changed.
Create ==
  /\ pc \in {"idle", "ok", "failed"}
  /\ \/ UNCHANGED state
     \/ \E k \in Key : state[k] = "v1" /\ state' = [state EXCEPT ![k] = "v2"]
  /\ LET ks == Changed(state') IN
       IF Unresolvable \/ ~ Covers(H, ks)
         THEN pc' = "failed" /\ UNCHANGED <<chosen, left>>
       ELSE /\ pc' = IF ks = {} THEN "ok" ELSE "sort"
            /\ chosen' \in SUBSET H /\ IsCombination(chosen', ks)
            /\ left' = {}
  /\ parent' = [h \in H |-> Unseen] /\ at' = Top
  /\ place' = [h \in H |-> 0] /\ count' = 0
  /\ UNCHANGED <<typeVars, definition, other, edits>>
-----------------------------------------------------------------------------
(* topological_sort.                                                       *)

\* `not in parent'.
IsUnseen(h) == parent[h] = Unseen

FaultAll(h) == deps[h]

FaultChosenOnly(h) == {v \in deps[h] \cap chosen : IsUnseen(v)}

\* The dependencies visit(h) has still to go into, in whatever order they are
\* listed.
Pending(h) == {v \in deps[h] : IsUnseen(v)}

Enter(h) == parent' = [parent EXCEPT ![h] = at] /\ at' = h

\* The loop over the handlers.
Root ==
  /\ pc = "sort" /\ at = Top
  /\ LET unseen == {h \in chosen : IsUnseen(h)} IN
       \/ unseen = {} /\ pc' = "run" /\ left' = chosen /\ UNCHANGED <<parent, at>>
       \/ /\ \E h \in unseen : (\A g \in unseen : h <= g) /\ Enter(h)
          /\ UNCHANGED <<pc, left>>
  /\ UNCHANGED <<typeVars, definition, state, other, chosen, place, count, edits>>

Visit ==
  /\ pc = "sort" /\ at # Top
  /\ \E v \in Pending(at) : Enter(v)
  /\ UNCHANGED <<typeVars, definition, state, other, pc, chosen, place, count, left, edits>>

\* sequence.append, and back to the visit this one was called from.
Append ==
  /\ pc = "sort" /\ at # Top /\ Pending(at) = {}
  /\ count' = count + 1 /\ place' = [place EXCEPT ![at] = count + 1]
  /\ at' = parent[at]
  /\ UNCHANGED <<typeVars, definition, state, other, pc, chosen, parent, left, edits>>
-----------------------------------------------------------------------------
(* The handlers of the plan, one after the other.                          *)

IsFirst(h) == \A g \in left : place[h] <= place[g]

\* What a handler puts into the state for a key: what the definition says, with
\* what it refers to.
Realised(k) ==
  IF definition[k] = "ref" THEN "target"
  ELSE IF definition[k] = "digits ref" THEN "digits"
  ELSE IF definition[k] = "refs" THEN "targets" ELSE definition[k]

Store(ks) == state' = [k \in Key |-> IF k \in ks THEN Row(Realised(k)) ELSE state[k]]

\* It needs what it refers to.
Able(h) == other = "up" \/ \A k \in keys[h] : definition[k] \notin References \cup {"refs"}

Handle ==
  /\ pc = "run"
  /\ \E h \in left : /\ IsFirst(h) /\ Able(h)
                     /\ Store(keys[h]) /\ left' = left \ {h}
  /\ UNCHANGED <<typeVars, definition, other, pc, chosen, sortVars, edits>>

\* An exception, or the process is killed: some of its keys are stored.
HandleFails ==
  /\ pc = "run"
  /\ \E h \in left : /\ IsFirst(h)
                     /\ \E ks \in SUBSET keys[h] : (ks = {} \/ Able(h)) /\ Store(ks)
  /\ pc' = "failed"
  /\ UNCHANGED <<typeVars, definition, other, chosen, sortVars, left, edits>>

Return ==
  /\ pc = "run" /\ left = {} /\ pc' = "ok"
  /\ UNCHANGED <<typeVars, definition, state, other, chosen, sortVars, left, edits>>
-----------------------------------------------------------------------------
\* Between two deployments the definition changes, or the other resource does.
Edit ==
  /\ pc \in {"ok", "failed"} /\ edits < MaxEdits
  /\ \/ \E k \in Key, d \in Given : definition' = [definition EXCEPT ![k] = d]
                                    /\ UNCHANGED other
     \/ other' \in {"up", "down", "gone"} /\ UNCHANGED definition
  /\ pc' = "idle" /\ edits' = edits + 1
  /\ UNCHANGED <<typeVars, state, chosen, sortVars, left>>

Sort == Root \/ Visit \/ Append

Next == Create \/ Sort \/ Handle \/ HandleFails \/ Return \/ Edit

Spec == Init /\ [][Next]_vars
FairSpec == Spec /\ WF_vars(Sort)
-----------------------------------------------------------------------------
(* Properties.                                                             *)

TypeOK ==
  /\ keys \in [H -> SUBSET Key] /\ deps \in [H -> SUBSET H]
  /\ definition \in [Key -> Given] /\ state \in [Key -> Stored]
  /\ other \in {"up", "down", "gone"}
  /\ pc \in {"idle", "sort", "run", "ok", "failed"}
  /\ chosen \subseteq H /\ left \subseteq chosen
  /\ parent \in [H -> 0 .. N + 1] /\ at \in 0 .. N
  /\ place \in [H -> Nat] /\ count \in Nat /\ edits \in Nat

\* The graph of the dependencies is the acyclic one the sort is made for.
Ranked(r) == \A h \in H : \A v \in deps[h] : r[v] < r[h]
Acyclic == \E r \in [H -> H] : Ranked(r)

\* What h comes after, directly or by way of other handlers: all that is in
\* every set that has the dependencies of h and those of its own members.
Closed(S, h) == deps[h] \subseteq S /\ \A v \in S : deps[v] \subseteq S
Below(h) == {g \in H : \A S \in SUBSET H : Closed(S, h) => g \in S}

(* A handler is called only when those it comes after have been, also when
   what connects the two is a handler that the change does not need. *)
DependenciesFirst ==
  pc = "run" /\ Acyclic =>
    \A h \in chosen \ left : \A g \in Below(h) \cap chosen : g \notin left

(* No handler is called for nothing: each has a changed key that no other of
   the plan has. *)
Irredundant ==
  pc = "sort" =>
    \A h \in chosen : \E k \in Changed(state) : \A g \in chosen \ {h} : k \notin keys[g]

\* What is stored for k comes back as what it will be compared with.
ReadsBack(k) == Get(Row(Realised(k))) = Resolve(k)

(* A create() that returns has stored what its handlers make of the definition,
   of every key, however the create() before it has ended.  So the next one is a
   no-op, but for the keys whose value does not come back as it was given: it
   runs their handlers at every deployment. *)
Settled ==
  pc = "ok" =>
    /\ \A k \in Key \ Reserved : Get(state[k]) = Get(Row(Realised(k)))
    /\ Changed(state) = {k \in Key \ Reserved : ~ ReadsBack(k)}

(* The sort ends, also on the cycles it does not look for. *)
SortEnds == pc = "sort" ~> pc = "run"
=============================================================================
