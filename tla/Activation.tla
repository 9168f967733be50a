----------------------------- MODULE Activation -----------------------------
(***************************************************************************)
(* From a built network to running machines (nixops/deployment.py:         *)
(* build_configs, copy_closures, activate_configs, the end of _deploy and  *)
(* _rollback; nixops/backends: reboot_sync, send_keys,                     *)
(* switch_to_configuration).  A command builds a configuration of the      *)
(* selected machines, copies it, and then activates it on each of them in  *)
(* parallel; each machine may fail at each step, and the command may die   *)
(* between any two.                                                        *)
(*                                                                         *)
(* A configuration of one machine (a `toplevel') is a number; 0 is what    *)
(* the machine had before nixops.                                          *)
(***************************************************************************)
EXTENDS Integers, FiniteSets

CONSTANTS
  Machine,        \* the machines of the network
  MaxConfig,      \* bound on the configurations the expressions describe
  FlagSets,       \* the combinations of options `nixops deploy' is given
  Selections,     \* the machines --include and --exclude leave
  HasRescue,      \* the machines whose backend has a rescue system
  MaxCopies,      \* --max-concurrent-copy
  MaxActivations, \* --max-concurrent-activate
  CallerKeeps,    \* one Deployment object serves all commands
  MaxCommands     \* bound on the commands issued

AllFlags == {"dry-run", "build-only", "copy-only", "dry-activate", "test", "boot",
             "force-reboot", "allow-reboot"}

ASSUME ActivationAssumption ==
  /\ IsFiniteSet(Machine)
  /\ MaxConfig \in Nat /\ MaxCommands \in Nat
  /\ MaxCopies \in Int /\ MaxActivations \in Int
  /\ FlagSets \subseteq SUBSET AllFlags /\ Selections \subseteq SUBSET Machine
  /\ HasRescue \subseteq Machine
  /\ CallerKeeps \in BOOLEAN

VARIABLES
  command,      \* "none", "deploy" or "rollback"
  flags,        \* the options of the command
  selected,     \* the machines should_do accepts
  phase,        \* "none", "build", "copy", "activate" or "cleanup"
  target,       \* the configuration being deployed: [toplevel, machines]
  result,       \* how the last command ended
  issued,       \* number of commands so far
  definitions,  \* whether Deployment.definitions is there
  configsPath,  \* Deployment.configs_path
  generations,  \* what the deployment's profile can be switched to
  obsolete,     \* the machines marked obsolete
  closures,     \* the configurations copied to each machine
  profile,      \* each machine's system profile
  boots,        \* what its boot loader starts
  running,      \* what it runs
  keys,         \* whether it has its keys, in /run
  rescue,       \* whether its recorded state is RESCUE, its rescue system
  curPath,      \* cur_configs_path of each machine
  curToplevel,  \* cur_toplevel
  pc,           \* what the worker of each machine does
  status, width, verdict    \* the run_tasks call of the phase

commandVars == <<command, flags, selected, target, definitions>>
deploymentVars == <<configsPath, generations, obsolete>>
machineVars == <<closures, profile, boots, running, keys, rescue>>
recordVars == <<curPath, curToplevel>>
poolVars == <<status, width, verdict>>
vars == <<command, flags, selected, phase, target, result, issued, definitions,
          configsPath, generations, obsolete, closures, profile, boots,
          running, keys, rescue, curPath, curToplevel, pc, status, width,
          verdict>>

Pool == INSTANCE ParallelMap WITH Task <- Machine, MaxRequest <- MaxCopies

Toplevels == 0 .. MaxConfig
Paths == [toplevel : Toplevels, machines : SUBSET Machine]
NoPath == [toplevel |-> 0, machines |-> {}]

Init ==
  /\ command = "none" /\ flags = {} /\ selected = {} /\ phase = "none"
  /\ target = NoPath /\ result = "none" /\ issued = 0 /\ definitions = FALSE
  /\ configsPath = NoPath /\ generations = {} /\ obsolete = {}
  /\ closures = [m \in Machine |-> {}]
  /\ profile = [m \in Machine |-> 0]
  /\ boots = [m \in Machine |-> 0]
  /\ running = [m \in Machine |-> 0]
  /\ keys = [m \in Machine |-> FALSE]
  /\ rescue \in {r \in [Machine -> BOOLEAN] : \A m \in Machine : r[m] => m \in HasRescue}
  /\ curPath = [m \in Machine |-> NoPath]
  /\ curToplevel = [m \in Machine |-> 0]
  /\ pc = [m \in Machine |-> "idle"]
  /\ Pool!Init

active == Machine \ obsolete

\* The names activate_configs collects: workers that returned their machine's.
failed == {m \in Machine : status[m] = "value"}
-----------------------------------------------------------------------------
(* The command.                                                            *)

\* Every machine is defined; evaluate_active revives the obsolete ones.
\* Configurations are numbered in the order they are first deployed.
StartDeploy(v, S, F) ==
  /\ command = "none" /\ issued < MaxCommands /\ v <= issued + 1
  /\ command' = "deploy" /\ issued' = issued + 1 /\ phase' = "build"
  /\ flags' = F /\ selected' = S
  /\ target' = [toplevel |-> v, machines |-> S]
  /\ definitions' = TRUE /\ obsolete' = {} /\ result' = "none"
  /\ UNCHANGED <<configsPath, generations, machineVars, recordVars, pc, poolVars>>

\* The deployment goes no further than its build.
BuildsOnly == flags \cap {"dry-run", "build-only"} # {}

\* What nix-store prints: no path, with --dry-run.
Built == IF "dry-run" \in flags THEN NoPath ELSE target

\* Whether the profile gets a new generation.
InProfile == "dry-run" \notin flags

\* Only what the selected machines need is built.
Build ==
  /\ phase = "build"
  /\ configsPath' = Built
  /\ generations' = generations \cup {p \in {Built} : InProfile}
  /\ phase' = "copy"
  /\ IF BuildsOnly
       THEN UNCHANGED poolVars
       ELSE Pool!Call(MaxCopies, active)
  /\ UNCHANGED <<commandVars, result, issued, obsolete, machineVars, recordVars, pc>>

\* The machines that are not in the generation become obsolete.
StartRollback(g, S, F) ==
  /\ command = "none" /\ issued < MaxCommands
  /\ g \in generations /\ F \subseteq {"allow-reboot", "force-reboot"}
  /\ command' = "rollback" /\ issued' = issued + 1 /\ phase' = "copy"
  /\ flags' = F /\ selected' = S /\ target' = g
  /\ configsPath' = g
  /\ obsolete' = Machine \ g.machines
  /\ Pool!Call(MaxCopies, g.machines)
  /\ result' = "none"
  /\ UNCHANGED <<definitions, generations, machineVars, recordVars, pc>>

\* copy_closures has returned.
Copied == phase = "copy" /\ verdict = "returned"

Activate ==
  /\ Copied /\ "copy-only" \notin flags
  /\ phase' = "activate"
  /\ Pool!Call(MaxActivations, active)
  /\ UNCHANGED <<commandVars, result, issued, deploymentVars, machineVars,
                 recordVars, pc>>

PoolReturns ==
  /\ Pool!Return
  /\ UNCHANGED <<commandVars, phase, result, issued, deploymentVars,
                 machineVars, recordVars, pc>>

FaultNoReport == TRUE

\* No machine's worker gave its name back.
AllActivated == failed = {}

Cleanup ==
  /\ phase = "activate" /\ verdict = "returned" /\ AllActivated
  /\ command = "deploy" /\ "dry-activate" \notin flags
  /\ phase' = "cleanup"
  /\ UNCHANGED <<commandVars, result, issued, deploymentVars, machineVars,
                 recordVars, pc, poolVars>>

\* The process ends, and its threads.
Gone ==
  /\ command' = "none" /\ phase' = "none"
  /\ flags' = {} /\ selected' = {} /\ target' = NoPath
  /\ definitions' = (definitions /\ CallerKeeps)
  /\ pc' = [m \in Machine |-> "idle"]
  /\ status' = [m \in Machine |-> "idle"] /\ width' = 0 /\ verdict' = "none"
  /\ UNCHANGED <<issued, deploymentVars, machineVars, recordVars>>

Finish ==
  /\ \/ phase = "copy" /\ BuildsOnly
     \/ Copied /\ "copy-only" \in flags
     \/ phase = "activate" /\ verdict = "returned" /\ AllActivated
          /\ (command = "rollback" \/ "dry-activate" \in flags)
     \/ phase = "cleanup"
  /\ result' = "succeeded"
  /\ Gone

\* run_tasks raised, a machine failed, or after_activation raised.
Fail ==
  /\ \/ verdict \in {"raised", "rejected"}
     \/ phase = "activate" /\ verdict = "returned" /\ ~ AllActivated
     \/ phase = "cleanup"
  /\ result' = "failed"
  /\ Gone

\* The build fails, the process is killed or interrupted.
Die ==
  /\ command # "none"
  /\ result' = "died"
  /\ Gone
-----------------------------------------------------------------------------
(* The worker of machine m.                                                *)

At(m, p) == pc[m] = p /\ phase = "activate"
GoTo(m, p) == pc' = [pc EXCEPT ![m] = p]

Unmoved == UNCHANGED <<commandVars, phase, result, issued, deploymentVars>>

FaultEverybody(m) == TRUE

\* should_do
Wanted(m) == m \in selected

Take(m) ==
  /\ Pool!Begin(m)
  /\ GoTo(m, IF ~ Wanted(m) THEN "ending"
             ELSE IF phase = "copy" THEN "copying"
             ELSE IF "test" \in flags THEN "keys" ELSE "profile")
  /\ Unmoved /\ UNCHANGED <<machineVars, recordVars>>

Copy(m) ==
  /\ pc[m] = "copying"
  /\ \/ /\ closures' = [closures EXCEPT ![m] = @ \cup {target.toplevel}]
        /\ GoTo(m, "ending")
     \/ GoTo(m, "raising") /\ UNCHANGED closures
  /\ Unmoved
  /\ UNCHANGED <<profile, boots, running, keys, rescue, recordVars, poolVars>>

\* set_profile looks up the machine's definition first, for always_activate;
\* when the profile is already the new one that ends set_profile, no more.
SetProfile(m) ==
  /\ At(m, "profile")
  /\ \/ /\ definitions
        /\ profile' = [profile EXCEPT ![m] = target.toplevel]
        /\ GoTo(m, "keys")
     \/ profile' \in {profile, [profile EXCEPT ![m] = target.toplevel]}
          /\ (definitions \/ profile' = profile) /\ GoTo(m, "failing")
  /\ Unmoved
  /\ UNCHANGED <<closures, boots, running, keys, rescue, recordVars, poolVars>>

\* Nothing is sent to a rescue system.  A key that is there is removed before
\* it is sent again.
SendKeys(m) ==
  /\ \E p \in {"keys", "rekeys"} :
       /\ At(m, p)
       /\ \/ /\ keys' = [keys EXCEPT ![m] = @ \/ ~ rescue[m]]
             /\ GoTo(m, IF p = "keys" THEN "switch" ELSE "record")
          \/ /\ ~ rescue[m]
             /\ keys' \in {keys, [keys EXCEPT ![m] = FALSE]}
             /\ GoTo(m, "failing")
  /\ Unmoved
  /\ UNCHANGED <<closures, profile, boots, running, rescue, recordVars, poolVars>>

Method(m) ==
  IF flags \cap {"boot", "force-reboot"} # {} \/ rescue[m] THEN "boot"
  ELSE IF "dry-activate" \in flags THEN "dry-activate"
  ELSE IF "test" \in flags THEN "test" ELSE "switch"

\* switch-to-configuration, as far as it gets.
Switched(m, how) ==
  /\ boots' = IF how \in {"boot", "switch"}
                THEN [boots EXCEPT ![m] = target.toplevel] ELSE boots
  /\ running' = IF how \in {"test", "switch"}
                  THEN [running EXCEPT ![m] = target.toplevel] ELSE running

Reboots(m) == flags \cap {"allow-reboot", "force-reboot"} # {}

\* What activate_configs makes of the exit code: 100 asks for a reboot.
After(m, code) ==
  IF "dry-activate" \in flags THEN "ending"
  ELSE IF code \notin {0, 100} THEN "failing"
  ELSE IF code = 100 \/ "force-reboot" \in flags \/ rescue[m]
    THEN IF Reboots(m) THEN "rebooting" ELSE "failing"
  ELSE "record"

Switch(m) ==
  /\ At(m, "switch")
  /\ \E code \in {0, 1, 100}, how \in {"none", "boot", "test", "switch"} :
       /\ code = 0 => how = (IF Method(m) = "dry-activate" THEN "none" ELSE Method(m))
       /\ code = 100 => \/ Method(m) = "switch" /\ how = "boot"
                        \/ Method(m) = "test" /\ how = "none"
       /\ code = 1 => how \in {"none"} \cup ({Method(m)} \ {"dry-activate"})
       /\ Switched(m, how)
       /\ GoTo(m, After(m, code))
  /\ Unmoved
  /\ UNCHANGED <<closures, profile, keys, rescue, recordVars, poolVars>>

FaultNoRekeys == "record"

\* What reboot_sync does when the machine is up again.
AfterReboot == "rekeys"

\* reboot_sync up to its send_keys; /run is gone.  wait_for_down has no limit:
\* when the command has not worked, or the machine is back before a ping missed
\* it, the worker hangs.
Reboot(m) ==
  /\ At(m, "rebooting")
  /\ \/ GoTo(m, "failing") /\ UNCHANGED <<running, keys, rescue>>
     \/ /\ rescue' = [rescue EXCEPT ![m] = FALSE]
        /\ \/ /\ running' = [running EXCEPT ![m] = boots[m]]
              /\ keys' = [keys EXCEPT ![m] = FALSE]
              /\ GoTo(m, AfterReboot) \/ GoTo(m, "hanging")
           \/ UNCHANGED <<running, keys>> /\ GoTo(m, "hanging")
  /\ Unmoved
  /\ UNCHANGED <<closures, profile, boots, recordVars, poolVars>>

\* Two assignments, each committed on its own.
Record(m) ==
  /\ At(m, "record")
  /\ curPath' = [curPath EXCEPT ![m] = target]
  /\ GoTo(m, "recordToplevel")
  /\ Unmoved /\ UNCHANGED <<machineVars, curToplevel, poolVars>>

RecordToplevel(m) ==
  /\ At(m, "recordToplevel")
  /\ curToplevel' = [curToplevel EXCEPT ![m] = target.toplevel]
  /\ GoTo(m, "ending")
  /\ Unmoved /\ UNCHANGED <<machineVars, curPath, poolVars>>

FaultCatchesAll(m) ==
  IF pc[m] \in {"raising", "failing"} THEN "value" ELSE "nothing"

\* activate_configs catches the exception and returns the machine's name;
\* copy_closures lets it through.
OutcomeOf(m) ==
  IF pc[m] = "raising" THEN "error"
  ELSE IF pc[m] = "failing" THEN "value" ELSE "nothing"

End(m) ==
  /\ pc[m] \in {"ending", "raising", "failing"}
  /\ Pool!End(m, OutcomeOf(m))
  /\ GoTo(m, "idle")
  /\ Unmoved /\ UNCHANGED <<machineVars, recordVars>>
-----------------------------------------------------------------------------
CommandStep == Build \/ Activate \/ PoolReturns \/ Cleanup \/ Finish \/ Fail
WorkerStep(m) ==
  \/ Take(m) \/ Copy(m) \/ SetProfile(m) \/ SendKeys(m) \/ Switch(m)
  \/ Reboot(m) \/ Record(m) \/ RecordToplevel(m) \/ End(m)

Next ==
  \/ \E v \in 1 .. MaxConfig, S \in Selections, F \in FlagSets :
       StartDeploy(v, S, F)
  \/ \E g \in generations, S \in Selections, F \in FlagSets :
       StartRollback(g, S, F)
  \/ CommandStep
  \/ Die
  \/ \E m \in Machine : WorkerStep(m)

Spec == Init /\ [][Next]_vars
-----------------------------------------------------------------------------
(* Properties.                                                             *)

TypeOK ==
  /\ command \in {"none", "deploy", "rollback"} /\ flags \subseteq AllFlags
  /\ selected \subseteq Machine /\ obsolete \subseteq Machine
  /\ phase \in {"none", "build", "copy", "activate", "cleanup"}
  /\ target \in Paths /\ configsPath \in Paths
  /\ generations \subseteq Paths \ {NoPath}
  /\ result \in {"none", "succeeded", "failed", "died"}
  /\ issued \in 0 .. MaxCommands /\ definitions \in BOOLEAN
  /\ closures \in [Machine -> SUBSET Toplevels]
  /\ \A f \in {profile, boots, running, curToplevel} : f \in [Machine -> Toplevels]
  /\ keys \in [Machine -> BOOLEAN] /\ rescue \in [Machine -> BOOLEAN]
  /\ curPath \in [Machine -> Paths]
  /\ pc \in [Machine -> {"idle", "copying", "raising", "profile", "keys", "switch",
                         "rebooting", "hanging", "rekeys", "record", "recordToplevel",
                         "failing", "ending"}]
  /\ Pool!TypeOK

\* The machines a command is about.
Concerned == selected \cap active

(* No machine is touched by an activation before every machine concerned has
   the closure: a failed copy stops the deployment while all run what they
   ran. *)
CopiesFirst ==
  phase \in {"activate", "cleanup"} =>
    \A m \in Concerned : target.toplevel \in closures[m]

(* No machine boots or runs what was not copied to it. *)
NothingMissing ==
  \A m \in Machine : {profile[m], boots[m], running[m]} \subseteq closures[m] \cup {0}

\* The options that stop short of a full activation.
Partial == {"dry-run", "build-only", "copy-only", "dry-activate", "test", "boot"}

\* m is wholly on the new configuration, and known to be.
Delivered(m) ==
  /\ profile[m] = target.toplevel /\ boots[m] = target.toplevel
  /\ running[m] = target.toplevel
  /\ curToplevel[m] = target.toplevel /\ curPath[m] = target

(* When activate_configs comes back, a machine it does not report as failed is
   on the new configuration with its keys, also after a reboot, and whatever
   happened to the others. *)
ReportIsTrue ==
  phase = "activate" /\ verdict = "returned" /\ flags \cap Partial = {} =>
    \A m \in Concerned \ failed : Delivered(m) /\ keys[m]

(* A command that succeeds has brought every machine it concerns to the new
   configuration, whatever earlier commands left half-done. *)
SuccessMeansAll ==
  [][command # "none" /\ result' = "succeeded" /\ flags \cap Partial = {} =>
       \A m \in Concerned : Delivered(m) /\ ~ rescue[m]]_vars

(* A command leaves alone what it is not asked to change: machines that are
   not selected; every machine, with an option that stops before activation;
   the profile and the boot loader, with --test alone; what runs, with --boot. *)
Restraint ==
  [][\A m \in Machine :
       /\ m \notin selected \/ flags \cap {"dry-run", "build-only", "copy-only"} # {} =>
            UNCHANGED <<profile[m], boots[m], running[m], keys[m], curPath[m],
                        curToplevel[m]>>
       /\ "test" \in flags /\ flags \cap {"boot", "force-reboot"} = {} /\ ~ rescue[m] =>
            UNCHANGED <<profile[m], boots[m]>>
       /\ "boot" \in flags /\ ~ Reboots(m) => UNCHANGED running[m]]_vars
-----------------------------------------------------------------------------
(* What the repository says and the code does not do.                      *)

(* deployment.py, _definitions: `Bug: Deployment.definitions is None.' *)
DefinitionsThere == \A m \in Machine : At(m, "profile") => definitions
=============================================================================
