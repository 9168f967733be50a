-------------------------- MODULE DeployResources --------------------------
(***************************************************************************)
(* The resources of one deployment under `nixops deploy' and `nixops       *)
(* destroy' (nixops/deployment.py: evaluate_active, the creation part of   *)
(* _deploy, _destroy_resources).  A command makes up to two passes over    *)
(* the resources, first destroying obsolete ones, then creating the        *)
(* defined ones; a pass is one run_tasks call (ParallelMap) whose workers  *)
(* order themselves with an event and an `_errored' flag per resource.     *)
(* A command may die at any point; the next one starts from the state      *)
(* file, whose Resources table is `known'.                                 *)
(***************************************************************************)
EXTENDS Integers, FiniteSets

CONSTANTS
  Resource,     \* names of resources
  Relations,    \* the possible create_after relations
  MaxCommands   \* bound on the commands issued

ASSUME ResourceAssumption ==
  /\ IsFiniteSet(Resource)
  /\ Relations \subseteq [Resource -> SUBSET Resource]
  /\ MaxCommands \in Nat

VARIABLES
  needs,      \* needs[r]: what r.create_after yields
  defined,    \* the definitions the deployment evaluates to
  known,      \* self.resources, and the rows of table Resources behind it
  exists,     \* the resources that exist out there
  command,    \* the command being run: "none", "deploy", "destroy"
  selected,   \* the resources should_do accepts under --include, --exclude
  kill,       \* deploy --kill-obsolete
  dry,        \* deploy --dry-run, --build-only or --plan-only
  pass,       \* the pass under way: "none", "destroy", "create"
  result,     \* how the last command ended
  issued,     \* number of commands so far
  pc,         \* what the worker of each resource does
  waits,      \* the resources whose events a worker has yet to wait for
  event,      \* the events set in this pass: _destroyed_event, _created_event
  errored,    \* the _errored flags
  status, width, verdict   \* the run_tasks call of the pass

commandVars == <<needs, defined, command, selected, kill, dry, result, issued>>
workerVars == <<pc, waits, event, errored>>
poolVars == <<status, width, verdict>>
vars == <<needs, defined, known, exists, command, selected, kill, dry, pass,
          result, issued, pc, waits, event, errored, status, width, verdict>>

Pool == INSTANCE ParallelMap WITH Task <- Resource, MaxRequest <- 0

Init ==
  /\ needs \in Relations
  /\ defined = {} /\ known = {} /\ exists = {}
  /\ command = "none" /\ selected = {} /\ kill = FALSE /\ dry = FALSE
  /\ pass = "none" /\ result = "none" /\ issued = 0
  /\ pc = [r \in Resource |-> "idle"]
  /\ waits = [r \in Resource |-> {}]
  /\ event = {} /\ errored = {}
  /\ Pool!Init

obsolete == known \ defined

(* Fault...: seeded faults, each beside the definition it can replace.      *)

FaultIncludeOnly == selected

\* The resources a worker of the pass acts on: evaluate_active destroys with
\* include=to_destroy.
ToDo == IF pass = "destroy" /\ command = "deploy" THEN selected \ defined
                                                  ELSE selected
-----------------------------------------------------------------------------
(* The command.                                                            *)

\* evaluate_active gives every defined resource a state (and a row), before
\* anything is created; what is no longer defined stays known.
StartDeploy(D, S, k, d) ==
  /\ command = "none" /\ issued < MaxCommands
  /\ command' = "deploy" /\ issued' = issued + 1
  /\ defined' = D
  /\ known' = known \cup D
  /\ selected' = S /\ kill' = k /\ dry' = d /\ result' = "none"
  /\ UNCHANGED <<needs, exists, pass>>
  /\ UNCHANGED workerVars /\ UNCHANGED poolVars

StartDestroy(S) ==
  /\ command = "none" /\ issued < MaxCommands
  /\ command' = "destroy" /\ issued' = issued + 1
  /\ selected' = S /\ kill' = FALSE /\ dry' = FALSE /\ result' = "none"
  /\ UNCHANGED <<needs, defined, known, exists, pass>>
  /\ UNCHANGED workerVars /\ UNCHANGED poolVars

\* The resources that are to be destroyed before r: `rev_dep._wait_for'.
Dependents(r) == {d \in known : r \in needs[d]}

DestroyPass ==
  /\ pass = "none"
  /\ \/ command = "destroy"
     \/ command = "deploy" /\ kill /\ obsolete \cap selected # {}
  /\ pass' = "destroy"
  /\ event' = {} /\ errored' = {}
  /\ waits' = [r \in Resource |-> Dependents(r)]
  /\ Pool!Call(-1, known)
  /\ UNCHANGED commandVars /\ UNCHANGED <<known, exists, pc>>

FaultReversed(r) == {d \in defined : r \in needs[d]}

\* The resources that are to be created before r: create_after over the
\* active resources.
Prerequisites(r) == needs[r] \cap defined

CreatePass ==
  /\ command = "deploy" /\ ~ dry
  /\ \/ pass = "none" /\ ~ (kill /\ obsolete \cap selected # {})
     \/ pass = "destroy" /\ verdict = "returned"
  /\ pass' = "create"
  /\ event' = {} /\ errored' = {}
  /\ waits' = [r \in Resource |-> Prerequisites(r)]
  /\ Pool!Call(-1, defined)
  /\ UNCHANGED commandVars /\ UNCHANGED <<known, exists, pc>>

\* run_tasks gives control back.
PassEnds ==
  /\ Pool!Return
  /\ UNCHANGED commandVars /\ UNCHANGED workerVars
  /\ UNCHANGED <<known, exists, pass>>

\* The process is gone, and every thread of it.
Gone ==
  /\ command' = "none" /\ pass' = "none"
  /\ pc' = [r \in Resource |-> "idle"]
  /\ status' = [r \in Resource |-> "idle"] /\ width' = 0 /\ verdict' = "none"
  /\ waits' = [r \in Resource |-> {}] /\ event' = {} /\ errored' = {}
  /\ selected' = {} /\ kill' = FALSE /\ dry' = FALSE
  /\ UNCHANGED <<needs, defined, known, exists, issued>>

Finish ==
  /\ command # "none"
  /\ \/ pass = "create" /\ verdict = "returned"
     \/ pass = "destroy" /\ verdict = "returned" /\ (command = "destroy" \/ dry)
     \/ pass = "none" /\ dry /\ ~ (kill /\ obsolete \cap selected # {})
  /\ result' = "succeeded"
  /\ Gone

Fail ==
  /\ verdict = "raised"
  /\ result' = "failed"
  /\ Gone

\* The evaluation, or the check that no resource changed its type, raises; or
\* the process is killed or interrupted.
Die ==
  /\ command # "none"
  /\ result' = "died"
  /\ Gone
-----------------------------------------------------------------------------
(* The worker of resource r.                                               *)

Take(r) ==
  /\ Pool!Begin(r)
  /\ pc' = [pc EXCEPT ![r] = IF r \in ToDo THEN "waiting" ELSE "ending"]
  /\ UNCHANGED commandVars
  /\ UNCHANGED <<known, exists, pass, waits, event, errored>>

\* The event of d is set: go on to the next one, or give up if d errored.
Wait(r, d) ==
  /\ pc[r] = "waiting"
  /\ d \in waits[r] /\ d \in event
  /\ IF d \in errored
       THEN /\ errored' = errored \cup {r}
            /\ pc' = [pc EXCEPT ![r] = "ending"]
            /\ UNCHANGED waits
       ELSE /\ waits' = [waits EXCEPT ![r] = @ \ {d}]
            /\ UNCHANGED <<errored, pc>>
  /\ UNCHANGED commandVars /\ UNCHANGED poolVars
  /\ UNCHANGED <<known, exists, pass, event>>

Act(r) ==
  /\ pc[r] = "waiting" /\ waits[r] = {}
  /\ pc' = [pc EXCEPT ![r] = "acting"]
  /\ UNCHANGED commandVars /\ UNCHANGED poolVars
  /\ UNCHANGED <<known, exists, pass, waits, event, errored>>

FaultNotFlagged(r) == errored

\* `_errored = True'.
Flagged(r) == errored \cup {r}

Goes(r, where) ==
  /\ pc[r] = "acting"
  /\ pc' = [pc EXCEPT ![r] = where]
  /\ UNCHANGED commandVars /\ UNCHANGED poolVars
  /\ UNCHANGED <<pass, waits, event>>

Created(r) ==
  /\ pass = "create" /\ Goes(r, "ending")
  /\ exists' = exists \cup {r}
  /\ UNCHANGED <<known, errored>>

\* r.destroy() says it did: the state is dropped next.
Destroyed(r) ==
  /\ pass = "destroy" /\ Goes(r, "deleting")
  /\ exists' = exists \ {r}
  /\ UNCHANGED <<known, errored>>

FaultForgetDeclined(r) ==
  /\ pass = "destroy" /\ Goes(r, "deleting")
  /\ UNCHANGED <<known, exists, errored>>

\* r.destroy() returns False: not confirmed, or not destroyable.
Declined(r) ==
  /\ pass = "destroy" /\ Goes(r, "ending")
  /\ UNCHANGED <<known, exists, errored>>

\* create, wait_for_ssh or destroy raises, before or after it took effect.
Raises(r) ==
  /\ Goes(r, "raising")
  /\ errored' = Flagged(r)
  /\ exists' \in {exists, IF pass = "create" THEN exists \cup {r}
                                             ELSE exists \ {r}}
  /\ UNCHANGED known

DeleteState(r) ==
  /\ pc[r] = "deleting"
  /\ known' = known \ {r}
  /\ pc' = [pc EXCEPT ![r] = "ending"]
  /\ UNCHANGED commandVars /\ UNCHANGED poolVars
  /\ UNCHANGED <<exists, pass, waits, event, errored>>

FaultOnlyOnSuccess(r) == IF pc[r] = "raising" THEN event ELSE event \cup {r}

\* The finally clause sets the event, however the worker ends.
EventsWith(r) == event \cup {r}

FaultSwallowed(r) == "nothing"

\* `raise', or a return without a value.
OutcomeOf(r) == IF pc[r] = "raising" THEN "error" ELSE "nothing"

Signal(r) ==
  /\ pc[r] \in {"ending", "raising"}
  /\ event' = EventsWith(r)
  /\ Pool!End(r, OutcomeOf(r))
  /\ pc' = [pc EXCEPT ![r] = "idle"]
  /\ UNCHANGED commandVars
  /\ UNCHANGED <<known, exists, pass, waits, errored>>
-----------------------------------------------------------------------------
CommandStep == DestroyPass \/ CreatePass \/ PassEnds \/ Finish \/ Fail
Acts(r) == Created(r) \/ Destroyed(r) \/ Declined(r) \/ Raises(r)
WorkerStep(r) ==
  \/ Take(r)
  \/ \E d \in Resource : Wait(r, d)
  \/ Act(r)
  \/ Acts(r)
  \/ DeleteState(r)
  \/ Signal(r)

Next ==
  \/ \E D, S \in SUBSET Resource, k, d \in BOOLEAN : StartDeploy(D, S, k, d)
  \/ \E S \in SUBSET Resource : StartDestroy(S)
  \/ CommandStep
  \/ Die
  \/ \E r \in Resource : WorkerStep(r)

\* One thread per task (nr_workers = -1), each run by the operating system;
\* what create and destroy call is taken to return.
Fairness == WF_vars(CommandStep) /\ \A r \in Resource : WF_vars(WorkerStep(r))

Spec == Init /\ [][Next]_vars
FairSpec == Spec /\ Fairness
-----------------------------------------------------------------------------
(* Properties.                                                             *)

TypeOK ==
  /\ needs \in Relations
  /\ defined \subseteq Resource /\ known \subseteq Resource
  /\ exists \subseteq Resource /\ selected \subseteq Resource
  /\ command \in {"none", "deploy", "destroy"}
  /\ kill \in BOOLEAN /\ dry \in BOOLEAN
  /\ pass \in {"none", "destroy", "create"}
  /\ result \in {"none", "succeeded", "failed", "died"}
  /\ issued \in 0 .. MaxCommands
  /\ pc \in [Resource -> {"idle", "waiting", "acting", "deleting", "ending",
                          "raising"}]
  /\ waits \in [Resource -> SUBSET Resource]
  /\ event \subseteq Resource /\ errored \subseteq Resource
  /\ Pool!TypeOK

(* Whatever exists out there has a state in the state file, so that a later
   command can still destroy it: also when create or destroy raises half-way
   and when the process dies between any two steps. *)
NothingForgotten == exists \subseteq known

(* A resource is created only once every selected resource it needs has been,
   by the same command, successfully (create_after: `resources that should be
   created before this one'). *)
CreationOrder ==
  \A r \in Resource :
    pass = "create" /\ pc[r] = "acting" =>
      \A d \in needs[r] \cap defined \cap selected : d \in exists

Failing == {r \in Resource : pc[r] = "raising" \/ status[r] = "error"}

\* r comes directly after d in this pass.
After(r, d) == IF pass = "create" THEN d \in needs[r] ELSE r \in needs[d]

\* The resources this pass acts on.
Acted == ToDo \cap Pool!Submitted

\* With everything in B, and everything that fails, B holds what comes after it.
Closed(B) ==
  \A r \in Acted : (\E d \in Acted : d \in Failing \cup B /\ After(r, d)) => r \in B

\* The resources a failure comes before, directly or through others: the least
\* such set.
Blocked == {r \in Acted : \A B \in SUBSET Acted : Closed(B) => r \in B}

(* A failure stops, directly or through any number of others, every resource
   ordered after it: none of them is being created or destroyed or has been,
   and each ends flagged, for its own dependents to see.  `_errored' has to be
   written before the event is set. *)
FailureSpreads ==
  /\ \A r \in Blocked :
       /\ pc[r] \in {"idle", "waiting", "ending"}
       /\ r \in event => r \in errored
  /\ verdict \in {"returned", "raised"} =>
       /\ (verdict = "raised") = (errored # {})
       /\ errored = Failing \cup Blocked

(* Creation and destruction are confined to what the command asks for: the
   selection; defined resources for a creation; for a destruction `nixops
   destroy', or resources no longer defined and --kill-obsolete. *)
OnlyAskedFor ==
  [][\A r \in Resource :
       /\ r \in exists' \ exists =>
            command = "deploy" /\ ~ dry /\ r \in selected \cap defined
       /\ r \in exists \ exists' =>
            r \in selected /\ (command = "destroy" \/ (kill /\ r \notin defined))]_vars

(* A deployment that reports success has created all it was asked for. *)
DeployDelivers ==
  [][command = "deploy" /\ ~ dry /\ command' = "none" /\ result' = "succeeded"
       => defined \cap selected \subseteq exists']_vars

(* No command waits for ever on an event nobody will set: with an acyclic
   relation and one thread per resource, excluded and failed resources
   included. *)
Terminates == command # "none" ~> command = "none"
-----------------------------------------------------------------------------
(* What the repository says and the code does not do.                      *)

(* doc/manual/nixops.rst: --dry-run shows `what would be done by this command
   without actually doing it'. *)
DryRunTouchesNothing == [][dry => exists' = exists]_vars
=============================================================================
