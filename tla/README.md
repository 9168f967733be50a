# A verification of NixOps in TLA+

NixOps deploys a network of NixOS machines: it evaluates Nix expressions,
creates the resources they describe, builds one system per machine, copies it
there and activates it, and keeps what it knows of all this in a state file.
This directory holds TLA+ modules of the parts of it where order, failure and
concurrency matter, the TLC runs that check them on small instances, and
TLAPS proofs of what matters most. Line numbers refer to `src/nixops/`.

## 1. Inventory

| part | state | operations | what is hard |
|---|---|---|---|
| Parallel tasks (`parallel.py`) | two queues, counters, daemon threads | `run_tasks` | threads, exceptions of several tasks, interrupts |
| Resource passes (`deployment.py` 1085-1275, 1448-1486) | rows of `Resources`, an event and an `_errored` flag per resource | `evaluate_active`, creation, destruction | dependencies among threads, partial failure, kills, dry runs |
| Build, copy, activation (`deployment.py` 688-953, 1277-1442; `backends`) | profile generations, `configs_path`, each machine's profile, boot loader, running system, keys, records | `build_configs`, `copy_closures`, `activate_configs`, `_rollback` | one of several machines failing at any step, options that stop half-way, reboots, records that lag behind |
| Network state (`script_defs.py` 78-152, `locks`, `storage`) | the stored state file, the lock, a copy per command | `network_state`, `op_ssh`, `op_unlock` | several commands on several hosts, kills, storage or lock failing |
| State file (`statefile.py`, `state.py`) | an sqlite database and its schema version | open, create, upgrade, nested transactions | crashes between statements, processes opening at once |
| Deployment record (`deployment.py`) | indices, arguments, names, a flock per deployment | clone, import, export, rename, delete, `_get_free_resource_index` | what was read before the flock is taken |
| Machines (`backends`, `ssh_util.py`, `known_hosts.py`) | recorded state, SSH master, known hosts | ping, reboot, wait, check, stop, start | late ping threads, missed reboots, retries |
| Backups (`deployment.py` 962-1083) | backups per machine | backup, list, clean, remove, restore | overlapping commands, boundaries |
| Difference engine (`diff.py`) | none | plan, choice and order of handlers | graphs of handlers |
| Logger and child processes (`util.py` 185-370, `logger.py`) | pipes, open line of the log | `logged_exec`, `log_start`, `log_end`, `confirm` | processes a child leaves behind, full pipes, threads that share one log |
| Evaluation, command line, known hosts, plugins, Nix printer, Nix library | little or none | conversions and output | nothing concurrent |

How they interact. Every command runs inside `network_state`, which locks the
network, fetches the state file, and uploads and unlocks at the end. Inside it
a `Deployment` object reads its resources from the state file and runs passes
over them; each pass is one `run_tasks` call. In a resource pass the workers
wait for one another through events; in a copy, an activation or a backup they
are independent. A worker reaches its machine through the machine's one SSH
object, and so do the ping threads that the same worker has started and given
up; each ssh is a child process of `logged_exec`, and all of them write to one
log. Whatever a worker assigns to an attribute of a resource is committed to
the local copy of the state file at once.

What makes each part correct:

* *Parallel tasks*: each task runs once, the call ends when all have, and it
  raises exactly when one of them did.
* *Resource passes*: dependencies first, a failure stops what depends on it and
  nothing else, nothing that exists is forgotten, nothing is touched that was
  not asked for, no pass hangs.
* *Activation*: all is copied before anything is activated; the report and the
  exit status tell the truth about every machine; options that stop half-way
  touch only what they say.
* *Network state*: mutating commands exclude each other, work on the newest
  state and lose no change; the lock comes back.
* *State file*: an opened file has the whole schema, whatever version it came
  from; no row is lost on the way; a file of a later version is left alone.
* *Deployment record*: names and indices are unique, and what exists has a row
  until it has been destroyed, although commands work with rows read earlier.
* *Machines*: every command runs over a master connection of its own that is
  alive or replaced, none is left behind, and what is to happen after a reboot
  happens in the boot after it.
* *Backups*: what is called complete is so on every machine; what is to be kept
  is kept although some of the removals fail.
* *Difference engine*: handlers run after those they come after, and a creation
  that succeeds leaves the next one nothing to do.
* *Logger and child processes*: what a child has written is captured and logged,
  no line has two writers, and a call ends when its child does.

`PROJECT.json` lists all components and, under `hazards`, each place in the
code where one of these could go wrong in a way a test would hardly show.

## 2. The modules

    ParallelMap          what run_tasks promises
      ^ implements
    TaskPool             run_tasks, threads and queues

    DeployResources      uses Pool == INSTANCE ParallelMap, one call per pass
    Activation           uses Pool == INSTANCE ParallelMap, one call per phase

    NetworkState         what surrounds every command
    StateFile            opening the file, inside NetworkState's Open
    Records              rows and commands on them, inside NetworkState's Change

    Machine              one machine under its commands, ssh and ping threads
    LoggedExec           one call of ssh, nix or another program
    DiffEngine           create() of one resource
    Backups              the backup commands over the machines of a network

`MC*` modules give the constants values; `*Proofs` modules hold the proofs.
Two of these serve two components that have nothing to do with each other:
`DeployResourcesProofs` is also about `Backups`, and `ActivationProofs` also about
`LoggedExec`. Since such a module extends both components, `Backups` and
`LoggedExec` have names of their own for what every component has (`BackupInit`,
`BackupSpec`, `ExecInit`, `ExecSpec`, and `stage` and `at` for the program counter).
The passes are built on `ParallelMap`, not on `TaskPool`: a worker pool with
its queues under every pass would multiply the states, and the refinement,
which is proved, says the passes lose nothing by it. The last six modules stand
alone for the same reason: each opens a step that another module takes as one
(`Activation`'s `Reboot` is a program of `Machine`, `Machine`'s `exec` a call of
`LoggedExec`, `DeployResources`' `Act` a `create()` of `DiffEngine`).

`Fault...` operators are seeded faults. Each stands beside the definition it
can replace, belongs to no specification, and shows that a property notices
when the code is wrong in that way.

### ParallelMap and TaskPool

`ParallelMap` has a status per task and a verdict: `Call`, `Begin`, `End`,
`Return`, `Abandon` (the caller is interrupted and the daemon threads go on)
and `Forget` (the process ends). `TaskPool` is `run_tasks` itself: `Call` fills
the queue, `StartThread` starts threads while those already started work,
`Get`, `Put` and `Exit` are `thread_fun`, `Collect` the loop over results with
`Keep` deciding what becomes of one, `Join` and `Verdict` the end. Queues are
sets: nothing depends on the order of a Python dict.

### DeployResources

A command (`StartDeploy`, `StartDestroy`) makes a destruction pass
(`DestroyPass`, for `destroy` and `--kill-obsolete`), a creation pass
(`CreatePass`), or both. The worker of a resource goes through `Take`, `Wait`
for each event, `Act`, one of `Created`, `Destroyed`, `Declined`, `Raises`,
then `DeleteState` and `Signal` (the `finally` clause). `needs` is
`create_after`; `known` is the `Resources` table with the dictionary
`self.resources`. `Die` ends the process anywhere; `known` survives it. That is
so when the state file is written in place (the legacy storage); with a
storage that copies, a killed command loses its copy, which `NetworkState`
shows. How long `create` takes and what it does to the world is left out but
for whether the resource exists, and it may have come to exist although it
raised. What a failure holds back (`Blocked`) is the least set of resources closed
under coming after a failed one or one of the set.

### Activation

`StartDeploy`, `Build`, then a copy and an activation call of the pool;
`StartRollback` enters at the copy, with a generation of the profile. Workers:
`Take` (`should_do`), `Copy`; `SetProfile`, `SendKeys`, `Switch`, `Reboot`,
`Record`, `RecordToplevel`, `End`. A toplevel is a number and a configuration
(`configs_path`) a toplevel with the machines it was built for, since only the
selected ones are. `Switch` takes every exit code with every state the script
may have left the machine in; 100 asks for a reboot, after which `/run`, and
the keys in it, are gone. A reboot that is not noticed leaves the worker
hanging, as `wait_for_down` does. `MaxCopies` and `MaxActivations` are how many
workers the two calls get. `definitions` says whether the process has
evaluated the network. The network is taken to enable rollback and the
resources to exist.

### NetworkState

Each command, once: `Begin`, `Lock`, `Fetch`, `Open`, `Change`, `BodyEnds`,
`Close`, `Upload`, `Unlock`, with `LockFails`, `FetchFails`, `UploadFails` and
`UnlockFails` for the steps that may raise, `UnlockEarly` and `UnlockEarlyFails`
for `nixops ssh`, `Die` for a kill and `ForceUnlock` for `nixops unlock`. The
state file is reduced to how many changes of each command it holds. The lock
driver and the storage are plugins, external to this repository: a driver allows
many readers or one writer, a `lock()` that raises has not taken the lock, an
`unlock()` that raises may have released it or not, and `unlock()` has no
identity, since `op_unlock` uses it on an object that never locked. `op_unlock`
itself asks nothing: that its user has made sure that whoever holds the lock is
over (`Gone`: killed, or out of `network_state` with an `unlock()` that raised) is
an assumption about that user, and everything said of networks that are unlocked
by force rests on it.

### StateFile

`StateFile.__init__` by several processes: `Begin`, `Connect` and `Busy` (the
retry loop), `Check`, `Fetch` or `Probe` for the version, `Decide`, then `Step`
or `StepFails` for one statement of the `Program` after another, `Opened`.
`Use`, `Breaks` and `Die` are what surrounds it: the command at work, any error
of sqlite, a kill. The connection is in autocommit mode, so every statement is
a step of its own although the code writes `with db`. A table is absent, empty
or has rows; `locked` says whether the lock of the network keeps the processes
apart. A connection whose last try found the database busy stays `bare`: the
loop ends without the pragma that enforces foreign keys.

### Machine

Commands one after the other, each a `Program` of instructions; those in
`Remote` are calls of `run_command`, those in `Waits` loops over `ping`. A thread
(`Main`, or one that a ping has started) goes through `get_master` and
`run_command` by `Read`, `Alive`, `Connect` or `ConnectFails`, `Assign`, `Proxy`,
`Opts`, and `Exec` or `ExecFails`; between any two of them another thread may
replace the master or reset the object. `Ping`, `PingSucceeds`, `PingFails` are
the main thread's side of `ping()`: its second is over when `TimesOut` says it can
be. `Restart` is the rest of `reboot()`; `Exit` the interpreter's, which waits for
the threads before `maybe_shutdown` runs. The machine goes down and comes up by
itself (`GoDown`, `ComeUp`) and ssh notices in its own time (`Notice`, `Expire`).
Two constants of nature are parts of a setup: `prompt`, whether a machine that
is up answers a ping within its second, and `patient`, whether a reboot takes
longer than the pings of `wait_for_down` are apart.

### Records

`Start`, `Open` (`_find_deployment` or `create_deployment`, and the only reading
of the rows), `Flock`, and then a loop of single statements per kind of command:
`Select` and `Insert`, `Mark`, `Number` for deploy (and the first ones for
backup), `Create`; `Destroy` and `Drop`; `DeleteResources`, `Delete`, `Rename`,
`Clone`, `Import` and `ImportResource`, `SetArgs`. `view` is what the command has
read, `rows` what there is. `Storable` is the foreign key that makes an assignment
to an attribute of a row that is gone an error. With a lock driver a command
starts when no other is under way; without one all interleave. What a command
knows of a resource's existence is kept in `real`.

### DiffEngine

`Create` compares and chooses: the combination of handlers is said by what it
is (the smallest, and of those the first), not by enumerating. `Root`, `Visit`
and `Append` are `topological_sort` visit by visit with `parent` as the stack of
the recursion, so that what it does on a cycle, which it does not look for, is
known too. `Handle` and `HandleFails` call the handlers, the latter leaving some
of its keys stored; `Edit` is the user between two deployments. What is stored
of a definition (`Realised`) and what it is compared with (`Resolve`) are two
operators, since they differ where lists are concerned. `Row` and `Get` are the two
directions of `StateDict`: a string is written as it is, and whatever text
`json.loads` accepts comes back as what that makes of it.

### Backups

Each command asks the machines one by one (`Ask`, `AskFails`), merges the answers
(`Report`, `WithOwn`, `WithNone`) and decides (`Decide`); `Make`, `Remove`,
`Restore` and `StartMachines` are the tasks of a `run_tasks`, any of which may be
refused, or raise although the cloud has done it (`Does`). The cloud goes on by
itself (`Progress`). `before` is what it had when the command began.

### LoggedExec

A call is `Spawn`, `Feed`, `Select`, `Poll`, `Capture` or `Read`, `Show`, `Wait`;
its child runs a short program (`Write`, `Do`, `Exit`) and may leave a process
behind (`Helper`) that holds the pipes open, as an ssh master does. `log`,
`log_start`, `log_end` and `Confirm` are the Logger under its lock; a line is the
set of those who have written on it. A character may be cut in two by the size
of a read.

## 3. The runs

| run | instance | shows |
|---|---|---|
| `task_pool` | 3 tasks, two of one name, -1 to 2 workers | `DoneMeansQuiet`, `VerdictFits`; `TaskPool` implements `ParallelMap` (`Refinement`); `Terminates` |
| `deploy_resources` | 3 resources as a chain, a fork, a merge; 2 commands | `NothingForgotten`, `CreationOrder`, `FailureSpreads`, `OnlyAskedFor`, `DeployDelivers`, `Terminates` |
| `activation` | 2 machines, one that may be in rescue; 2 configurations; 11 option sets; copies one at a time, activations all at once; 2 commands | `CopiesFirst`, `NothingMissing`, `ReportIsTrue`, `SuccessMeansAll`, `Restraint` |
| `network_state` | 3 commands; copying storage with a lock, legacy storage with one and an early unlock, and without | `CopyIsCurrent`, `ChangesRecorded`, `NothingOverwritten`, `Served` |
| `state_file` | 3 processes; files of versions 0 (new) to 4 (later than the code's); 2 tries | `OpenMeansComplete`, `RaceCompletes`, `RowsKept` |
| `machine` | 1 machine, 2 ping threads, 4 masters, 3 boots, 2 tries; one or two commands | `MastersOwned`, `KeysDelivered`, `Undisturbed`, `RebootEnds` |
| `records` | 3 commands of 9 kinds under a lock, 3 deploys or destroys without; 2 names, 4 rows | `NamesUnique`, `NothingLost`, `IndicesUnique` |
| `diff_engine` | 3 handlers with any dependencies, 2 keys and a reserved one, 1 edit | `DependenciesFirst`, `Settled`, `SortEnds` |
| `backups` | 3 machines, none, two or all of them active; 4 backups; 2 commands | `CompleteMeansAll`, `NewestKept`, `OlderGone`, `NotWhileRunning`, `WaitEnds` |
| `logged_exec` | 2 calls, pipes of 2 characters, 9 children in 7 pairs | `Complete`, `Unmixed`, `Ends` |

Bounds and why they are enough. *task_pool*: more tasks than workers and fewer,
zero workers, and two failures that collide in the dictionary of exceptions all
occur. *deploy_resources*: the three relations are all connected shapes of
three resources; a failure has to cross one resource to reach another; two
commands show what one leaves for the next. *activation*: two machines let one
fail while the other is at any step; two commands let the second meet all the
first can leave behind; one machine suffices for the rescue system, as its
state concerns no other. `MaxCopies = 1` makes the copies wait for one another,
and `MaxActivations = -1`, the default, lets the activations run at once. The
option sets are those that change what happens to a machine, each alone, and
the pairs that reboot into a boot loader set without activation and that set one
which `--test` alone would leave.
Configurations are numbered in the order they first appear, which loses
nothing. *network_state*: three commands let one act between two others; one
change each distinguishes every state file. A real lock and `nixops ssh`, which
unlocks early (see section 6), meet on the legacy storage only, where no copy can
go stale; so do commands without a lock: a storage that copies without any lock
promises nothing. *state_file*: two processes race to upgrade and a third one meets what
they leave, at any point; two tries stand for the code's ten, a first one that
fails and a last one; no property is about liveness, so that the processes may
be permuted. *machine*: machines share nothing here, so one is enough; two ping
threads let one be late while the next is waited for, four masters let every
thread build one while one is current and one dies; three boots are one before,
one after a reboot and one that was not asked for by this command; the pairs of
commands are those in which what the first leaves (a wish to reboot, a state
`STARTING`, a boot to come) matters to the second. *records*: one command reads,
a second one changes, a third one finds the result; two names are enough for
one that collides and one that does not, four rows for two to begin with and two
more. *diff_engine*: three handlers make chains through a handler that is not
chosen, and cycles of two and of three; an edit makes the second deployment
differ from the first. *backups*: with three machines one may be missing from a
backup, one from the deployment and one from neither; two commands, of which the
first leaves the cloud at work or a removal half done. *logged_exec*: two
machines are what it takes to mix lines; a pipe of two characters is filled by
children that write three.

Runs that TLC finds violated, each a statement of the repository the code does
not keep:

| run | statement | what happens |
|---|---|---|
| `dry_run` | `--dry-run`: "without actually doing it" | with `--kill-obsolete` it destroys |
| `rollback` | "Bug: Deployment.definitions is None." | `nixops rollback` in its own process always gets there: `rollback()` calls `_rollback` under the flock, and neither evaluates anything |

In the `activation` run `CallerKeeps = TRUE`: one `Deployment` object serves
all commands, as in the functional test that rolls back, so that what a rollback
does beyond that line is checked too.

### What some properties leave out

`Undisturbed` excuses a command whose own ping has been given up and came late
(`disturbed`), and `check`, which does not reset after its ping: both do
happen, and the theorem says that nothing else does. `KeysDelivered` is about a
network on which a machine that is up answers in time; on a slow one a late
answer makes `wait_for_down` believe the machine has gone. `RebootEnds` is about
a machine that takes its time: one that is back between two pings leaves
`wait_for_down` waiting for ever. `NamesUnique` and `NothingLost` are about
commands that some lock keeps apart (`KeptApart`), since `rename`, `delete`,
`clone` and `backup` take no flock; `IndicesUnique` needs the network lock.
`NothingLost` takes the foreign keys to be enforced, which they are not on a
connection that found the database busy at all its ten tries (`bare` in
`StateFile`). `Served` excuses those that wait for a lock which a command that is
over still has, since it was killed or the driver's `unlock()` has raised: only
`nixops unlock` helps them. `Settled` says of every key what the state file gives
back, and names the keys that the next deployment will see as changed although
nothing has: those for which `ReadsBack` is false. `NewestKept` takes it that there
are as many backups as are to be kept, and `OlderGone` is about those an active
machine still has: what a failed attempt has left on an obsolete machine alone is
not listed again, and stays. `Complete` lets the end of the log be missing where a process
left behind has written it, and leaves out a child that writes and ends between
the time-out of `select` and the poll.

### Fairness

Weak fairness of the caller and of each thread (`TaskPool`), of the command
and of each resource's worker (`DeployResources`): the operating system runs
every thread, and there is one thread per resource since `nr_workers=-1`. What
`create`, `destroy` and `worker_fun` call is taken to return; subprocesses and
ssh calls end or raise. `NetworkState`: weak fairness of each command that has
begun, since a lock driver waits in a loop; nobody is obliged to start a
command, kill one or force the lock. Weak fairness for a waiting command says
only that it gets a lock that stays free, and each command runs once, so no
overtaking without end is possible. `Machine`: weak fairness of the command and
each thread, which the operating system runs; of `Notice`, since
`ServerAliveInterval` makes ssh find out; and of the machine, which goes down
when it has been asked to and comes up again. `DiffEngine`: weak fairness of the
sort. `Backups`: weak fairness of the command and of the cloud, which does not run
a backup for ever. `LoggedExec`: strong fairness of each call, since the threads
share the lock of the log, which another thread takes and gives back again and
again and which Python's locks hand to everybody in the end; weak fairness of
each child and of the user who is asked; none of what a child has left behind.
`Activation` and `Records` state no liveness: `wait_for_down` has no limit and
may hang, and a command on rows goes through finite loops.

`CHECK_DEADLOCK FALSE` wherever the system really may stop: when all commands
of the bound have run, or `run_tasks` has returned, nothing more happens. In
`diff_engine` it is checked, since there is always another deployment.

## 4. The proofs

All are for every value of the constants, from the named assumptions only:
finite sets of tasks and resources (`PoolAssumption`, `ResourceAssumption`),
bounds that are natural numbers, and setups of the right shape
(`CommandAssumption`, the `SetupsAssumption` of each module).

* `TaskPoolProofs`: `TypeCorrect`, `Conservation`, `QuietReturn`,
  `RightVerdict` and `PoolRefinesMap`. That no task is in two places is not
  inductive by itself: that the caller stops when the counter reaches the
  number of tasks means nothing unless the counter is the cardinality of the
  collected ones (`OnePlace`), the phase bounds it (`PhaseInv`), and the threads
  started bound those busy (`ThreadsInv`). `KeptInv` relates the dictionaries
  to what the tasks did. The refinement goes action by action; that a thread
  may begin a task needs a counting argument (`RoomForOne`).
* `DeployResourcesProofs`: `TypeCorrect`, `KeepsTrack`, `OrderedCreation`,
  `Confinement`, `Delivery`, `FailureStops`. `NothingForgotten` needs that a worker that is
  deleting a row has destroyed its resource (`WorkerOK`) and that what a
  creation pass works on is in the table (`CommandInv`); the creation order
  needs that a resource no longer waited for was signalled without an error,
  and that signalled without an error means created (`OrderInv`). The relation
  may be cyclic: a cycle costs liveness, not safety. `FailureStops` needs no induction
  along the chain a failure travels: a worker waits for each resource before its
  own until that has ended well (`WaitInv`), and only what failed or is held back
  is flagged (`FlagInv`). Those that have not acted then form a closed set, and
  `Blocked`, the least one, lies in it.
* About `Backups`, in the same module: `BackupTypeCorrect`, `CompleteIsComplete`,
  `NoneOverRunning`, `NewestStay`, `OlderAreGone`. The merging goes along the
  machines by a recursive function, to which the library's induction cannot be
  applied: that it has the values its definition says, and that a merged status
  no answer takes away lasts to the end, follows from the least machine at which
  it would not (`NatLeast`, `MergeIs`, `MergeKeeps`). While the machines are asked the
  cloud goes on: none of the backups comes or goes, what was complete is, and what
  runs ran when its machine was asked (`Asked`); the report is the merging of all
  the answers (`Reported`). While a command cleans, what it keeps stays where it
  was, what it has passed is gone from every machine, and what is not listed stays
where it was (`Cleaned`).
* `NetworkStateProofs`: `TypeCorrect`, `Exclusion`, `Currency`, `Durability`,
  `LockFreed`, `Discarding`, `NoLostUpdate`, each under `NoEarlyUnlock`: no
  command unlocks a real lock before its end. All commands but `nixops ssh`
  satisfy it; with that one two writers can meet. `HoldInv`
  says the driver honours exactly those who locked and did not unlock; from it
  nobody can overtake a writer, and `FileInv` says how each copy, the changes
  made and the stored file agree. `LockFreed` is about each command by itself, at
  any time: only one that was killed or whose `unlock()` raised can be over and
  still hold the lock.
* `StateFileProofs`: `TypeCorrect`, `NoRowLost`, `LaterFilesUntouched`,
  `OpenedIsComplete` and `RacersComplete`, for any number of processes and tries. The first needs
  that a process that still connects has a try left (`CountInv`), the third
  that nobody is past the check of a later file (`NewInv`). The fourth needs the
  shape of the file after each statement of each program (`Halfway`, `Stamp`):
  under the lock the file has the shape of one version between commands and
  that of its program's position during an upgrade (`FileInv`, `AloneInv`), so
  no statement is refused and the last one leaves the whole schema. In the race the
  number of statements a process has executed tells, also when it has ended, who
  has done what (`PathInv`). `RaceInv` says for each version a file can come in how
  far the processes have brought it between them (`Fresh`, `First`, `Second`, `Third`,
  `Later`): one alone gets past the first renaming and executes the rest
  (`Renaming`); the others fail there or find the new version. So if one of them
  has its file open, and none was killed, the one that did the renaming has come
  to its end when all have stopped.
* `RecordsProofs`: `TypeCorrect`, `UniqueNames`, `NothingIsLost`, `UniqueIndices`,
  for any number of commands on any names. The rows a command has read are stale
  in general. What makes working with them safe: one command acts at a time, by
  the network lock or the flock (`Apart`); the ids are handed out once, so that one
  it has read is a row of that deployment or of none, and a write to it right or
  refused (`Ours`); a name is inserted only after it has been found free, and a row
  taken away only after its resource is gone (`Fresh`). Indices need more: under the
  network lock what a command has read is all there is (`Seen`), and an imported
  deployment is numbered as far as it has rows (`Counted`). Each statement is first
  reduced to its effect on the rows (`RowStep`, one of six kinds), from which the
  parts of the invariant follow.
* `MachineProofs`: `TypeCorrect`, `NoMasterLeft`, `OwnMaster`, `KeysArrive`, for any
  number of ping threads, masters, boots and commands. `MastersOwned` is nearly inductive by
  itself; `Undisturbed` is not: outside of waiting the shared master is not a
  suppressed one, since every wait ends with a reset (`Ready`), nor is the one
  `Main` is about to put there (`Loud`); the one it looks at or runs over is the
  shared one as long as no late thread assigns (`Mine`, `OverOne`); and a call, a
  wait and a command that has not begun exclude each other (`AtCall`, `AtPing`,
  `Before`; `PingsOfCheck` is for the one command that goes on after a ping).
  `ThreadDoes` says what a thread's step does to the masters, once
  for all nine of them. For `KeysArrive`, each place in the program of `reboot_sync`
  says how far the machine has come (`Underway`): after `wait_for_down` it has gone
  down and will not again (`Passed`), after `wait_for_up` it is back (`Back`), and
  what is sent from there on is in the boot it is in. Before it goes down, the ping
  under way is on its way to succeed, over a master of that boot (`Intact`), so
  that on a prompt network `wait_for_down` cannot take it for down.
* `DiffEngineProofs`: `TypeCorrect`, `OrderRespected`, `Settles`,
  `NothingForNothing`. The sort is proved from a rank of the handlers, which an
  acyclic relation has: the visits under way lead back to the loop (`Trail`) along
  growing ranks, and what is placed has all below it placed before (`Sorted`).
  `Remaining` says that
  the handlers still to run have between them every key whose stored value does not
  come back as what they make of it, from which `Settled` follows at the end; that a
  key which compares equal needs no handler is `EqualIsStored`.

* `ActivationProofs`: `TypeCorrect`, `CopiedBeforeActivated`, `OnlyCopied`,
  `TrueReport`, `SuccessDelivers`, `Restrained`, for any machines, options, limits and
  commands. The phase says which tasks there are and where their workers can be
  (`PhaseInv`, `PlaceInv`, `CallInv`), and a copy that has ended without an exception
  has been made (`CopyInv`). `ReachedInv` says of each place on the way to a full
  activation what the machine has by then: it is what makes the report true, since
  a reboot in between takes the keys and a failure elsewhere takes nothing.
  `OptionInv` says where an option does not let a worker go, from which `Restrained`
  follows step by step.
* About `LoggedExec`, in the same module: `NoLineMixed`, `ExecTypeCorrect`,
  `NothingCutOff`, for any calls, children and pipe sizes. No line is mixed because
  whoever has written on the open line is the one the logger has noted
  (`OpenLine`). `OutputInv` says where all that was written is: shown, in hand, or in
  the pipe, in this order (`Flow`); that a pipe which is no longer read is at its end
  for good (`Drained`); that what `select` has returned stays readable (`Due`); and
  that where the loop is left, only what comes late or from others is in the pipes
  (`Passed`).

Only model-checked is liveness (`Terminates`, `Served`, `RebootEnds`, `SortEnds`,
`WaitEnds`, `Ends`), which needs fairness and `ENABLED`, out of the prover's reach.
Every other property of a passing run is stated by a theorem; those of
`NetworkState` suppose that no command unlocks a real lock early.

## 5. Plan

Done: the pool everything runs on, the passes that create and destroy, the state
file around every command, activation, the opening of the state file; then one
machine with its ssh and ping threads, the rows of a deployment, the difference
engine, the backups, and the child processes with their log.

All the safety properties the runs check are proved. What is left is a
composition of `NetworkState` with the passes: what a storage that copies makes
of a killed command, what workers that survive an interrupt do to the upload,
and the rollback profile that is set after the flock has been given back.

## 6. Observations and what is not modelled

What the models show beside the violated runs, or what had to be excluded for a
property to hold; the hazards of `PROJECT.json` give the lines:

* A declined `destroy` (one that returns `False`) does not hold back the
  destruction of what the resource needs.
* `nixops ssh` unlocks the network early and again at its end, whoever has the
  lock then. An `unlock()` that raises leaves the lock taken although nobody was
  killed, until somebody calls `nixops unlock`, which does not ask who holds it.
* A machine recorded as up to date need not be: the record is written last.
* On a slow network `reboot_sync` may return before the machine has gone down,
  and where the reboot never reaches the machine, or is over between two pings,
  it waits for ever.
* `check` runs its commands over the master its ping has left, whose errors are
  suppressed. After a `reboot` without `--wait`, `ssh_pinged` is stale, and a
  deploy does not wait. A first deploy reads `os-release` before it waits for ssh.
* On a network without a lock `backup`, `rename` and `delete` run beside a deploy
  with rows they have read before. A failed import leaves half a deployment.
* `clean-backups --keep n` with fewer than `n` backups takes a negative end of a
  slice and removes some of them; those that are incomplete or still running
  count among the `n`. A machine without a backup makes its status `incomplete`,
  also when it is still running elsewhere. What a failed clean has left of a backup on
  an obsolete machine alone is never listed again. Two backups of one second have one
  name. A failed `sync` before a backup is only logged.
* A string that is JSON by itself ("123", "true", "1.0") comes back from the state
  file as a number or a boolean, and is seen as changed by every deployment; "null"
  comes back as nothing. So is a list of lists, or of references. A
  branch for lists in `diff.py` (214) is never reached.
* A child that writes and ends between the time-out of `select` and the poll
  loses output; a read that ends in the middle of a character raises; capturing
  stdout without stderr raises "log_fd was None", but no caller asks for it.

Not modelled. Evaluation, the command line's parsing and tables, plugins, the Nix
printer and the Nix library: conversions and output without a state that
outlives a call. Known hosts: one file, rewritten under two locks and renamed.
Backends other than `none` are plugins outside this repository, so that their
`stop`, `start`, `destroy` and the backups of their clouds appear as what their
callers can see of them. `get_physical_spec` and the plan of `--plan-only` only
produce text. The `always_activate` option and exit code 111 of `set_profile`
change nothing: that branch returns from the inner function only, and
activation goes on.
