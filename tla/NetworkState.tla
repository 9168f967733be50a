---------------------------- MODULE NetworkState ----------------------------
(***************************************************************************)
(* The state file between commands (nixops/script_defs.py: network_state,  *)
(* op_ssh, op_unlock; nixops/storage; nixops/locks).  Every command locks  *)
(* the network, fetches the state file, works on its copy, uploads the     *)
(* copy if it is a mutating command, and unlocks; each of these steps may  *)
(* raise, and the command may be killed between any two of them.           *)
(*                                                                         *)
(* The content of the state file is abstracted to how many of the changes  *)
(* of each command it holds.                                               *)
(***************************************************************************)
EXTENDS Integers

CONSTANTS
  Command,      \* the commands run against one network, each once
  MaxChanges,   \* bound on the changes one command makes to its state file
  Setups        \* the storages and lock drivers networks configure, each with
                \* the kinds of the commands run

Storages == {"remote", "legacy"}
Drivers  == {"noop", "real"}
AllKinds == {"write", "read", "ssh", "ssh --now"}

ASSUME CommandAssumption ==
  /\ MaxChanges \in Nat
  /\ Setups \subseteq [storage : Storages, driver : Drivers,
                       kind : [Command -> AllKinds]]

VARIABLES
  storage,     \* a plugin's storage, or the symlink of LegacyBackend
  driver,      \* a plugin's lock, or NoopLock
  kind,        \* which command each of them is
  pc,          \* where in network_state it is
  outcome,     \* how its body ended, or "lost" when a step around it raised
  made,        \* the changes it has made through its StateFile
  local,       \* its copy of the state file
  stored,      \* the state file in the storage
  holders,     \* the commands whose lock() the lock driver still honours
  exclusive    \* whether it was an exclusive one

setupVars == <<storage, driver, kind>>
fileVars == <<made, local, stored>>
lockVars == <<holders, exclusive>>
vars == <<storage, driver, kind, pc, outcome, made, local, stored, holders,
          exclusive>>

None == [c \in Command |-> 0]

Init ==
  /\ \E s \in Setups :
       storage = s.storage /\ driver = s.driver /\ kind = s.kind
  /\ pc = [p \in Command |-> "idle"]
  /\ outcome = [p \in Command |-> "none"]
  /\ made = None /\ stored = None
  /\ local = [p \in Command |-> None]
  /\ holders = {} /\ exclusive = FALSE

\* writable: what the command passed to network_state.
Writable(p) == kind[p] = "write"

\* doLock, and a driver that does something.
Locking(p) == driver = "real" /\ kind[p] # "ssh --now"

FaultShared(p) == FALSE

\* What it asks the lock driver for.
Exclusively(p) == Writable(p)

\* The lock driver.  Many readers, or one writer.
Grants(p) == IF Exclusively(p) THEN holders = {} ELSE ~ exclusive

\* unlock() carries no identity (op_unlock calls it on an object that never
\* locked): a caller that holds nothing releases what another one holds.
Released(p) ==
  IF p \in holders THEN {holders \ {p}}
  ELSE IF holders = {} THEN {{}} ELSE {holders \ {h} : h \in holders}

Release(p) ==
  /\ holders' \in Released(p)
  /\ exclusive' = (exclusive /\ holders' # {})
-----------------------------------------------------------------------------
Goes(p, from, to) == pc[p] = from /\ pc' = [pc EXCEPT ![p] = to]

FaultUnlockUnlocked(p) == "releasing"

\* lock() is outside the try: when it raises nothing is left to undo.
AfterLockFailure(p) == "ended"

FaultNoUnlock(p) == "ended"

\* The outer finally runs whatever raised inside it.
OuterFinally(p) == "releasing"

Begin(p) ==
  /\ Goes(p, "idle", IF Locking(p) THEN "waiting" ELSE "locked")
  /\ UNCHANGED <<setupVars, outcome, fileVars, lockVars>>

Lock(p) ==
  /\ Goes(p, "waiting", "locked")
  /\ Grants(p)
  /\ holders' = holders \cup {p} /\ exclusive' = Exclusively(p)
  /\ UNCHANGED <<setupVars, outcome, fileVars>>

\* A lock() that raises has not taken the lock.
LockFails(p) ==
  /\ Goes(p, "waiting", AfterLockFailure(p))
  /\ outcome' = [outcome EXCEPT ![p] = "lost"]
  /\ UNCHANGED <<setupVars, fileVars, lockVars>>

\* LegacyBackend makes a symlink: the copy is the original.
Fetch(p) ==
  /\ Goes(p, "locked", "fetched")
  /\ local' = IF storage = "remote" THEN [local EXCEPT ![p] = stored] ELSE local
  /\ UNCHANGED <<setupVars, outcome, made, stored, lockVars>>

Open(p) ==
  /\ Goes(p, "fetched", "open")
  /\ UNCHANGED <<setupVars, outcome, fileVars, lockVars>>

\* fetchToFile raises, or StateFile() does (a schema that is too new).
FetchFails(p) ==
  /\ \E from \in {"locked", "fetched"} : Goes(p, from, OuterFinally(p))
  /\ outcome' = [outcome EXCEPT ![p] = "lost"]
  /\ UNCHANGED <<setupVars, fileVars, lockVars>>

\* The body changes the state, and so do the worker threads an interrupted
\* body leaves behind, until the database is closed.
Change(p) ==
  /\ pc[p] = "open" \/ (pc[p] = "closing" /\ outcome[p] = "interrupted")
  /\ made[p] < MaxChanges
  /\ made' = [made EXCEPT ![p] = @ + 1]
  /\ IF storage = "remote"
       THEN local' = [local EXCEPT ![p][p] = @ + 1] /\ UNCHANGED stored
       ELSE stored' = [stored EXCEPT ![p] = @ + 1] /\ UNCHANGED local
  /\ UNCHANGED <<setupVars, pc, outcome, lockVars>>

\* op_ssh: `unlock early, to avoid blocking mutable operations'.
UnlockEarly(p) ==
  /\ kind[p] = "ssh"
  /\ Goes(p, "open", "session")
  /\ IF Locking(p) THEN Release(p) ELSE UNCHANGED lockVars
  /\ UNCHANGED <<setupVars, outcome, fileVars>>

\* That unlock() raises, inside the body; the outer finally unlocks again.
UnlockEarlyFails(p) ==
  /\ kind[p] = "ssh" /\ Locking(p)
  /\ Goes(p, "open", "closing")
  /\ outcome' = [outcome EXCEPT ![p] = "raised"]
  /\ Release(p) \/ UNCHANGED lockVars
  /\ UNCHANGED <<setupVars, fileVars>>

\* The body returns, raises (sys.exit too) or is interrupted.
BodyEnds(p) ==
  /\ \E from \in {"open", "session"} : Goes(p, from, "closing")
  /\ \E how \in {"ok", "raised", "interrupted"} :
       outcome' = [outcome EXCEPT ![p] = how]
  /\ UNCHANGED <<setupVars, fileVars, lockVars>>

FaultUploadOnSuccess(p) == Writable(p) /\ outcome[p] = "ok"
\* The inner finally: also after an exception.
Uploads(p) == Writable(p)

Close(p) ==
  /\ Goes(p, "closing", IF Uploads(p) THEN "uploading" ELSE OuterFinally(p))
  /\ UNCHANGED <<setupVars, outcome, fileVars, lockVars>>

Upload(p) ==
  /\ Goes(p, "uploading", OuterFinally(p))
  /\ stored' = IF storage = "remote" THEN local[p] ELSE stored
  /\ UNCHANGED <<setupVars, outcome, made, local, lockVars>>

\* state.close() or uploadFromFile raises.
UploadFails(p) ==
  /\ \E from \in {"closing", "uploading"} : Goes(p, from, OuterFinally(p))
  /\ outcome' = [outcome EXCEPT ![p] = "lost"]
  /\ UNCHANGED <<setupVars, fileVars, lockVars>>

\* The temporary directory goes with the command.
Unlock(p) ==
  /\ Goes(p, "releasing", "ended")
  /\ IF Locking(p) THEN Release(p) ELSE UNCHANGED lockVars
  /\ local' = [local EXCEPT ![p] = None]
  /\ UNCHANGED <<setupVars, outcome, made, stored>>

\* A driver's unlock() raises, before it has released the lock or after.
UnlockFails(p) ==
  /\ Locking(p) /\ Goes(p, "releasing", "unfreed")
  /\ Release(p) \/ UNCHANGED lockVars
  /\ local' = [local EXCEPT ![p] = None]
  /\ UNCHANGED <<setupVars, outcome, made, stored>>

\* Killed: no finally clause runs, the lock stays; nobody reads the copy again.
Die(p) ==
  /\ pc[p] \notin {"idle", "ended", "unfreed", "dead"}
  /\ pc' = [pc EXCEPT ![p] = "dead"]
  /\ local' = [local EXCEPT ![p] = None]
  /\ UNCHANGED <<setupVars, outcome, made, stored, lockVars>>

\* A command that is over without having unlocked: killed, or its unlock()
\* raised.  op_unlock asks nothing before it unlocks; that its user has made
\* sure that whoever holds the lock is gone is an assumption about that user.
Gone(h) == pc[h] \in {"dead", "unfreed"}

ForceUnlock ==
  /\ holders # {} /\ \A h \in holders : Gone(h)
  /\ \E h \in holders : holders' = holders \ {h}
  /\ exclusive' = (exclusive /\ holders' # {})
  /\ UNCHANGED <<setupVars, pc, outcome, fileVars>>
-----------------------------------------------------------------------------
Step(p) ==
  \/ Lock(p)
  \/ Fetch(p) \/ Open(p) \/ FetchFails(p)
  \/ Change(p) \/ UnlockEarly(p) \/ UnlockEarlyFails(p) \/ BodyEnds(p)
  \/ Close(p) \/ Upload(p) \/ UploadFails(p)
  \/ Unlock(p) \/ UnlockFails(p)

Next ==
  \/ \E p \in Command : Begin(p) \/ LockFails(p) \/ Step(p) \/ Die(p)
  \/ ForceUnlock

\* A command that has begun goes on; its body is taken to end, and lock() to
\* return when the lock stays free for it.  Nothing makes a user start a
\* command, kill one or force the lock.
Fairness == \A p \in Command : WF_vars(Step(p))

Spec == Init /\ [][Next]_vars
FairSpec == Spec /\ Fairness
-----------------------------------------------------------------------------
(* Properties.                                                             *)

TypeOK ==
  /\ storage \in Storages /\ driver \in Drivers
  /\ kind \in [Command -> AllKinds]
  /\ pc \in [Command -> {"idle", "waiting", "locked", "fetched", "open",
                         "session", "closing", "uploading", "releasing",
                         "ended", "unfreed", "dead"}]
  /\ outcome \in [Command -> {"none", "ok", "raised", "interrupted", "lost"}]
  /\ made \in [Command -> 0 .. MaxChanges]
  /\ local \in [Command -> [Command -> 0 .. MaxChanges]]
  /\ stored \in [Command -> 0 .. MaxChanges]
  /\ holders \subseteq Command /\ exclusive \in BOOLEAN
  /\ exclusive => \E h \in Command : holders = {h}

\* p relies on the state file it has, or is about to have.
Inside(p) == pc[p] \in {"locked", "fetched", "open", "closing", "uploading"}

(* While a mutating command is at work, from its lock to its upload, no other
   command that locks is. *)
WritersAlone ==
  driver = "real" =>
    \A p, q \in Command :
      p # q /\ Inside(p) /\ Writable(p) /\ Inside(q) => ~ Locking(q)

(* The copy a command works on stays what the storage holds, but for the
   command's own changes, as long as it works: nothing it read goes stale
   before it is uploaded. *)
CopyIsCurrent ==
  storage = "remote" =>
    \A p \in Command :
      Locking(p) /\ pc[p] \in {"fetched", "open", "closing", "uploading"} =>
        \A q \in Command \ {p} : local[p][q] = stored[q]

\* No network with copies of the state file and no lock.
Guarded == storage = "legacy" \/ driver = "real"

(* The changes of a mutating command are in the state file once it has ended,
   also when its body, or unlock() after it, raised or was interrupted, and
   whatever other commands did meanwhile and did since. *)
ChangesRecorded ==
  Guarded =>
    \A p \in Command :
      Writable(p) /\ pc[p] \in {"ended", "unfreed"} /\ outcome[p] # "lost"
        => stored[p] = made[p]

(* No command takes changes out of the state file that an earlier one put
   there. *)
NothingOverwritten ==
  [][Guarded => \A p \in Command : stored[p] <= stored'[p]]_vars

(* Whoever holds the lock is inside network_state, or was killed there, or the
   driver's unlock() has raised: no other way out of it keeps the lock. *)
LockReturned ==
  \A p \in Command : pc[p] \in {"idle", "waiting", "ended"} => p \notin holders

(* What a command that is not mutating does to its copy is discarded, for any
   storage that makes a copy. *)
ReadersDiscarded ==
  storage = "remote" => \A p \in Command : ~ Writable(p) => stored[p] = 0

(* A command that has begun comes to its end, unless one that is over keeps the
   lock: it was killed with it, or the driver's unlock() raised.  Once the lock
   has been forced, those that wait are served. *)
Served ==
  \A p \in Command :
    pc[p] # "idle" ~> (pc[p] = "ended" \/ Gone(p) \/ \E q \in holders : Gone(q))
=============================================================================
