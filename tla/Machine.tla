------------------------------ MODULE Machine ------------------------------
(***************************************************************************)
(* One machine as nixops sees it (nixops/backends/__init__.py, none.py:    *)
(* MachineState; nixops/ssh_util.py: SSH, SSHMaster).  Every command goes  *)
(* through a shared SSH master connection, which get_master starts when    *)
(* there is none that lives.  ping() starts a thread that runs `true' and  *)
(* waits a second for it; the thread goes on after that, in the same SSH   *)
(* object.                                                                 *)
(*                                                                         *)
(* The commands of the user run one after the other, each in a process of  *)
(* its own; what is kept between them is the machine's attributes and the  *)
(* machine itself.  A command is a program of instructions; those in       *)
(* Remote are run_command calls.                                           *)
(***************************************************************************)
EXTENDS Integers, Sequences, FiniteSets

CONSTANTS
  Main,         \* the thread a command works on the machine in
  Thread,       \* bound on the ping threads there are at a time
  Conn,         \* identities of SSH masters, used again
  Setups,       \* the machines, networks and sequences of commands there are
  MaxBoots,     \* bound on the times the machine boots
  MaxTries,     \* connection_tries
  NoConn, NoThread

Actor == Thread \cup {Main}

ASSUME MachineAssumption ==
  /\ Main \notin Thread /\ NoThread \notin Thread /\ NoConn \notin Conn
  /\ MaxBoots \in Nat \ {0, 1} /\ MaxTries \in Nat \ {0}

\* MachineState.state of a machine that has been made.
States == {"UP", "RESCUE", "STARTING", "UNREACHABLE"}

ASSUME SetupsAssumption ==
  \A s \in Setups : /\ s.prompt \in BOOLEAN /\ s.patient \in BOOLEAN
                    /\ s.host \in {"up", "down"}
                    /\ s.state \in States /\ s.pinged \in BOOLEAN

VARIABLES
  prompt,       \* the network: nothing the machine answers takes a second
  patient,      \* the machine: a reboot takes longer than a ping
  host,         \* "up" or "down"
  boot,         \* how often it has booted
  wants,        \* it has been asked to reboot
  keys,         \* what is in its /run/keys; a reboot empties it
  state,        \* MachineState.state
  ssh_pinged,   \* MachineState.ssh_pinged
  versioned,    \* whether its state_version is known
  todo,         \* the commands to come, the one under way at the head
  program,      \* what is left of that command's instructions
  outcome,      \* how it has ended
  began,        \* history: the boot it began in
  current,      \* SSH._ssh_master
  conn,         \* the masters: the control socket, the boot connected to,
                \* whether its stderr is suppressed
  disturbed,    \* history: a ping thread put its master there too late
  pc, proxy,    \* where each thread is in run_command, the master it looks at
  via, sboot,   \* the master its ssh runs over (none when it connects by
                \* itself), the boot it is connected to
  tries,        \* get_master: the attempts left to Main
  pinger,       \* ping: the thread it waits for
  answered,     \* its event
  missed        \* history: the machine was down during this ping

hostVars == <<prompt, patient, host, boot, wants, keys>>
attrVars == <<state, ssh_pinged, versioned>>
commandVars == <<todo, program, outcome, began>>
masterVars == <<current, conn, disturbed>>
threadVars == <<pc, proxy, via, sboot, tries>>
pingVars == <<pinger, answered, missed>>
vars == <<hostVars, attrVars, commandVars, masterVars, threadVars, pingVars>>

Remote == {"reboot", "rm", "mv", "done", "loadavg", "systemctl", "os-release",
           "copy", "switch"}
Waits == {"down", "up", "ping"}
Instruction == Remote \cup Waits \cup {"restart"}

Dead == [socket |-> FALSE, boot |-> 0, quiet |-> FALSE]

Init ==
  /\ \E s \in Setups :
       /\ prompt = s.prompt /\ patient = s.patient /\ host = s.host
       /\ state = s.state /\ ssh_pinged = s.pinged
       /\ versioned = s.pinged /\ todo = s.todo
  /\ boot = 1 /\ wants = FALSE /\ keys = {}
  /\ program = <<>> /\ outcome = "none" /\ began = 0
  /\ current = NoConn /\ conn = [i \in Conn |-> Dead] /\ disturbed = FALSE
  /\ pc = [a \in Actor |-> "free"] /\ proxy = [a \in Actor |-> NoConn]
  /\ via = [a \in Actor |-> NoConn] /\ sboot = [a \in Actor |-> 0]
  /\ tries = 0
  /\ pinger = NoThread /\ answered = FALSE /\ missed = FALSE

Running == outcome = "none" /\ program # <<>>
Instr == Head(program)
-----------------------------------------------------------------------------
(* The masters.                                                            *)

Cut(masters) == [i \in Conn |-> IF i \in masters THEN Dead ELSE conn[i]]

\* reset(): `ssh -O exit', which also ends the sessions over that master.
Drop == current' = NoConn /\ conn' = Cut({current})
Reset == Drop /\ UNCHANGED disturbed

FaultNoReset == UNCHANGED masterVars

\* At the end of wait_for_up.
ResetAfterUp == Reset

\* Nobody looks at it, builds it or runs over it.
Unused == {i \in Conn : /\ i # current /\ ~ conn[i].socket
                        /\ \A a \in Actor : proxy[a] # i /\ via[a] # i}

Live(i) == conn[i].socket /\ conn[i].boot = boot /\ host = "up"

\* ServerAliveInterval, or the machine closes its connections.
Notice(i) ==
  /\ conn[i].socket /\ ~ Live(i)
  /\ conn' = Cut({i})
  /\ UNCHANGED <<hostVars, attrVars, commandVars, current, disturbed, threadVars,
                 pingVars>>

\* ControlPersist: ten minutes without a session.
Expire(i) ==
  /\ conn[i].socket /\ \A a \in Actor : pc[a] = "free"
  /\ conn' = Cut({i})
  /\ UNCHANGED <<hostVars, attrVars, commandVars, current, disturbed, threadVars,
                 pingVars>>
-----------------------------------------------------------------------------
(* get_master and run_command, in Main and in the ping threads.            *)

Goes(a, from, to) == pc[a] = from /\ pc' = [pc EXCEPT ![a] = to]

\* What Main does with the result of an instruction.
After(ok) ==
  /\ outcome' = IF ok \/ Instr = "reboot" THEN outcome
                ELSE IF Instr = "loadavg" THEN "ok" ELSE "failed"
  /\ program' = IF ok \/ Instr = "reboot" THEN Tail(program) ELSE <<>>
  /\ state' = IF Instr # "loadavg" THEN state
              ELSE IF ok THEN "UP"
              ELSE IF state = "UP" THEN "UNREACHABLE" ELSE state
  /\ ssh_pinged' = (ssh_pinged \/ (ok /\ Instr = "loadavg"))
  /\ versioned' = (versioned \/ (ok /\ Instr = "os-release"))
  /\ UNCHANGED <<todo, began>>

FaultSetInExcept(t, ok) == ~ ok /\ pinger = t

\* _worker of ping(): the event is set only by a `true' that succeeded.
Sets(t, ok) == ok /\ pinger = t

\* The thread a leaves run_command.
Leave(a, ok) ==
  /\ pc' = [pc EXCEPT ![a] = "free"]
  /\ proxy' = [proxy EXCEPT ![a] = NoConn] /\ via' = [via EXCEPT ![a] = NoConn]
  /\ sboot' = [sboot EXCEPT ![a] = 0] /\ UNCHANGED tries
  /\ IF a = Main
       THEN After(ok) /\ UNCHANGED pingVars
       ELSE /\ answered' = (answered \/ Sets(a, ok))
            /\ UNCHANGED <<attrVars, commandVars, pinger, missed>>

\* An exception: in Main it ends the command, get_load_avg expects one of
\* SSHConnectionFailed and SSHCommandFailed only; ping() swallows them all.
Raise(a, expected) ==
  /\ pc' = [pc EXCEPT ![a] = "free"]
  /\ proxy' = [proxy EXCEPT ![a] = NoConn] /\ via' = [via EXCEPT ![a] = NoConn]
  /\ sboot' = [sboot EXCEPT ![a] = 0] /\ UNCHANGED <<tries, pingVars>>
  /\ IF a # Main THEN UNCHANGED <<attrVars, commandVars>>
     ELSE IF expected /\ Instr = "loadavg" THEN After(FALSE)
     ELSE /\ outcome' = "failed" /\ program' = <<>>
          /\ UNCHANGED <<attrVars, todo, began>>

Read(a) ==
  /\ IF current = NoConn THEN Goes(a, "get", "connect") /\ UNCHANGED proxy
     ELSE Goes(a, "get", "alive") /\ proxy' = [proxy EXCEPT ![a] = current]
  /\ UNCHANGED <<hostVars, attrVars, commandVars, masterVars, via, sboot, tries, pingVars>>

\* ssh with the ControlPath of a master: over its socket, or by itself if the
\* socket is gone.
Start(a) ==
  /\ LET i == proxy[a] IN
       /\ via' = [via EXCEPT ![a] = IF conn[i].socket THEN i ELSE NoConn]
       /\ sboot' = [sboot EXCEPT ![a] = IF conn[i].socket THEN conn[i].boot
                                        ELSE IF host = "up" THEN boot ELSE 0]
  /\ pc' = [pc EXCEPT ![a] = "exec"]
  /\ UNCHANGED <<attrVars, commandVars, proxy, tries, pingVars>>

\* The proxy is weak: when the master has been replaced it raises
\* ReferenceError.
Alive(a) ==
  /\ pc[a] = "alive"
  /\ IF proxy[a] # current THEN Raise(a, FALSE)
     ELSE IF conn[current].socket THEN Start(a)
     ELSE /\ Goes(a, "alive", "connect") /\ proxy' = [proxy EXCEPT ![a] = NoConn]
          /\ UNCHANGED <<attrVars, commandVars, via, sboot, tries, pingVars>>
  /\ UNCHANGED <<hostVars, masterVars>>

Connect(a) ==
  /\ Goes(a, "connect", "assign")
  /\ host = "up" /\ Unused # {}
  /\ LET i == CHOOSE i \in Unused : TRUE IN
       /\ conn' = [conn EXCEPT ![i] = [socket |-> TRUE, boot |-> boot,
                                       quiet |-> a # Main]]
       /\ proxy' = [proxy EXCEPT ![a] = i]
  /\ UNCHANGED <<hostVars, attrVars, commandVars, current, disturbed, via, sboot,
                 tries, pingVars>>

ConnectFails(a) ==
  /\ pc[a] = "connect" /\ (host = "down" \/ ~ prompt)
  /\ IF a = Main /\ tries > 1
       THEN /\ tries' = tries - 1
            /\ UNCHANGED <<attrVars, commandVars, pc, proxy, via, sboot, pingVars>>
       ELSE Raise(a, TRUE)
  /\ UNCHANGED <<hostVars, masterVars>>

FaultLeftRunning(i) == {}

\* SSHMaster.__del__ of the master that is replaced.
Collected(i) == {i}

Assign(a) ==
  /\ Goes(a, "assign", "proxy")
  /\ current' = proxy[a]
  /\ conn' = Cut(Collected(current))
  /\ disturbed' = (disturbed \/ (a # Main /\ pinger # a))
  /\ proxy' = [proxy EXCEPT ![a] = NoConn]
  /\ UNCHANGED <<hostVars, attrVars, commandVars, via, sboot, tries, pingVars>>

\* get_master ends with weakref.proxy(self._ssh_master), whatever that is now.
Proxy(a) ==
  /\ pc[a] = "proxy"
  /\ IF current = NoConn THEN Raise(a, FALSE)
     ELSE /\ Goes(a, "proxy", "opts") /\ proxy' = [proxy EXCEPT ![a] = current]
          /\ UNCHANGED <<attrVars, commandVars, via, sboot, tries, pingVars>>
  /\ UNCHANGED <<hostVars, masterVars>>

Opts(a) ==
  /\ pc[a] = "opts"
  /\ IF proxy[a] # current THEN Raise(a, FALSE) ELSE Start(a)
  /\ UNCHANGED <<hostVars, masterVars>>

Connected(a) ==
  /\ host = "up" /\ sboot[a] = boot
  /\ via[a] # NoConn => conn[via[a]].socket

\* What a command does on the machine.
Effect ==
  /\ wants' = (wants \/ Instr = "reboot")
  /\ keys' = IF Instr = "rm" THEN keys \ {"key"}
             ELSE IF Instr = "mv" THEN keys \cup {"key"}
             ELSE IF Instr = "done" THEN keys \cup {"done"} ELSE keys
  /\ UNCHANGED <<prompt, patient, host, boot>>

Exec(a) ==
  /\ pc[a] = "exec" /\ Connected(a)
  /\ IF a = Main THEN Effect ELSE UNCHANGED hostVars
  /\ Leave(a, TRUE)
  /\ UNCHANGED masterVars

\* The connection breaks, or the command itself fails; whether it has been
\* executed is not known.
ExecFails(a) ==
  /\ pc[a] = "exec"
  /\ \/ a = Main \/ ~ prompt
     \/ via[a] # NoConn /\ ~ conn[via[a]].socket
     \/ via[a] = NoConn /\ ~ Connected(a)
  /\ \/ a = Main /\ Connected(a) /\ Effect
     \/ UNCHANGED hostVars
  /\ Leave(a, FALSE)
  /\ UNCHANGED masterVars

ThreadStep(a) ==
  \/ Read(a) \/ Alive(a) \/ Connect(a) \/ ConnectFails(a) \/ Assign(a)
  \/ Proxy(a) \/ Opts(a) \/ Exec(a) \/ ExecFails(a)
-----------------------------------------------------------------------------
(* The commands.                                                           *)

\* Each key is uploaded beside its place and moved there.
SendKeys(s) == IF s = "RESCUE" THEN <<>> ELSE <<"rm", "mv", "done">>

wait_for_ssh(check) == IF ssh_pinged /\ ~ check THEN <<>> ELSE <<"up">>

FaultOnlyUp == <<"reboot", "restart", "up">> \o SendKeys("UP")

RebootSync == <<"reboot", "restart", "down", "up">> \o SendKeys("UP")

\* The worker of the first pass, copy_closures, activate_configs.
Deploy(check) ==
  (IF versioned THEN <<>> ELSE <<"os-release">>) \o wait_for_ssh(check)
    \o <<"copy">> \o SendKeys(state) \o <<"switch">>

\* _check.  (A mount of /tmp or /home that has failed takes one more call, whose
\* result changes nothing.)
Check == <<"ping", "loadavg", "systemctl">>

Program(command) ==
  IF command = "reboot" THEN <<"reboot", "restart">>
  ELSE IF command = "reboot --wait" THEN RebootSync
  ELSE IF command = "send-keys" THEN SendKeys(state)
  ELSE IF command = "check" THEN Check
  ELSE IF command = "deploy" THEN Deploy(FALSE)
  ELSE Deploy(TRUE)                               \* deploy --check

Begin ==
  /\ todo # <<>> /\ program = <<>> /\ outcome = "none" /\ began = 0
  /\ program' = Program(Head(todo)) /\ began' = boot
  /\ UNCHANGED <<hostVars, attrVars, todo, outcome, masterVars, threadVars, pingVars>>

\* A run_command call: with a time-out, get_master tries once.
Run ==
  /\ Running /\ Instr \in Remote
  /\ Goes(Main, "free", "get")
  /\ tries' = IF Instr = "loadavg" THEN 1 ELSE MaxTries
  /\ UNCHANGED <<hostVars, attrVars, commandVars, masterVars, proxy, via, sboot, pingVars>>

\* The rest of reboot().
Restart ==
  /\ Running /\ Instr = "restart"
  /\ state' = "STARTING" /\ Reset
  /\ program' = Tail(program)
  /\ UNCHANGED <<hostVars, ssh_pinged, versioned, todo, outcome, began, threadVars, pingVars>>

Ping ==
  /\ Running /\ Instr \in Waits /\ pinger = NoThread
  /\ \E t \in Thread : Goes(t, "free", "get") /\ pinger' = t
  /\ answered' = FALSE /\ missed' = (host = "down")
  /\ UNCHANGED <<hostVars, attrVars, commandVars, masterVars, proxy, via, sboot, tries>>

PingEnds == pinger' = NoThread /\ answered' = FALSE /\ missed' = FALSE

\* wait_for_up ends; reboot_sync or wait_for_ssh notes it.
PingSucceeds ==
  /\ Running /\ pinger # NoThread /\ answered /\ PingEnds
  /\ IF Instr = "up"
       THEN /\ ResetAfterUp
            /\ state' = (IF state = "RESCUE" THEN state ELSE "UP")
            /\ ssh_pinged' = TRUE /\ UNCHANGED versioned
       ELSE UNCHANGED <<attrVars, masterVars>>
  /\ program' = IF Instr = "down" THEN program ELSE Tail(program)
  /\ UNCHANGED <<hostVars, todo, outcome, began, threadVars>>

\* The second is over and the event is not set.
TimesOut ==
  \/ ~ prompt \/ missed
  \/ pc[pinger] = "free"
  \/ pc[pinger] = "exec" /\ ~ Connected(pinger)

PingFails ==
  /\ Running /\ pinger # NoThread /\ ~ answered /\ TimesOut /\ PingEnds
  /\ IF Instr = "down" THEN Reset ELSE UNCHANGED masterVars
  /\ program' = IF Instr = "down" THEN Tail(program)
                ELSE IF Instr = "up" THEN program ELSE <<>>
  /\ UNCHANGED <<hostVars, attrVars, todo, outcome, began, threadVars>>

\* The last instruction has been executed.
Return ==
  /\ outcome = "none" /\ program = <<>> /\ began # 0
  /\ outcome' = "ok"
  /\ UNCHANGED <<hostVars, attrVars, todo, program, began, masterVars, threadVars, pingVars>>

\* The interpreter waits for the ping threads, then runs maybe_shutdown.
Exit ==
  /\ outcome # "none" /\ \A t \in Thread : pc[t] = "free"
  /\ Drop /\ disturbed' = FALSE
  /\ todo' = Tail(todo) /\ program' = <<>> /\ outcome' = "none" /\ began' = 0
  /\ PingEnds
  /\ UNCHANGED <<hostVars, attrVars, threadVars>>
-----------------------------------------------------------------------------
(* The machine.                                                            *)

GoDown ==
  /\ host = "up" /\ wants /\ boot < MaxBoots
  /\ host' = "down" /\ wants' = FALSE /\ keys' = {}
  /\ missed' = (pinger # NoThread)
  /\ UNCHANGED <<prompt, patient, boot, attrVars, commandVars, masterVars,
                 threadVars, pinger, answered>>

ComeUp ==
  /\ host = "down"
  /\ patient => ~ (Running /\ Instr = "down")
  /\ host' = "up" /\ boot' = boot + 1
  /\ UNCHANGED <<prompt, patient, wants, keys, attrVars, commandVars, masterVars,
                 threadVars, pingVars>>
-----------------------------------------------------------------------------
MainStep ==
  Begin \/ Run \/ Restart \/ Ping \/ PingSucceeds \/ PingFails \/ Return \/ Exit

Next ==
  \/ MainStep
  \/ \E a \in Actor : ThreadStep(a)
  \/ \E i \in Conn : Notice(i) \/ Expire(i)
  \/ GoDown \/ ComeUp

Fairness ==
  /\ WF_vars(MainStep)
  /\ \A a \in Actor : WF_vars(ThreadStep(a))
  /\ \A i \in Conn : WF_vars(Notice(i))
  /\ WF_vars(GoDown) /\ WF_vars(ComeUp)

Spec == Init /\ [][Next]_vars
FairSpec == Spec /\ Fairness
-----------------------------------------------------------------------------
(* Properties.                                                             *)

TypeOK ==
  /\ prompt \in BOOLEAN /\ patient \in BOOLEAN
  /\ host \in {"up", "down"} /\ boot \in 1 .. MaxBoots /\ wants \in BOOLEAN
  /\ keys \subseteq {"key", "done"}
  /\ state \in States /\ ssh_pinged \in BOOLEAN /\ versioned \in BOOLEAN
  /\ program \in Seq(Instruction) /\ outcome \in {"none", "ok", "failed"} /\ began \in 0 .. MaxBoots
  /\ current \in Conn \cup {NoConn}
  /\ conn \in [Conn -> [socket : BOOLEAN, boot : 0 .. MaxBoots,
                       quiet : BOOLEAN]]
  /\ disturbed \in BOOLEAN
  /\ pc \in [Actor -> {"free", "get", "alive", "connect", "assign", "proxy",
                       "opts", "exec"}]
  /\ proxy \in [Actor -> Conn \cup {NoConn}] /\ via \in [Actor -> Conn \cup {NoConn}]
  /\ sboot \in [Actor -> 0 .. MaxBoots] /\ tries \in 0 .. MaxTries
  /\ pinger \in Thread \cup {NoThread} /\ answered \in BOOLEAN /\ missed \in BOOLEAN

(* Whoever starts, replaces or drops a master, and in whatever order, the only
   ssh masters that live are the one _ssh_master names and those a thread is
   about to put there: none is left behind by a command. *)
MastersOwned ==
  \A i \in Conn :
    conn[i].socket => i = current \/ \E a \in Actor : pc[a] = "assign" /\ proxy[a] = i

(* A reboot_sync that returns has seen the machine go and come back, and it has
   its keys in the boot it is in: on a network where a machine that is up
   answers a ping in time. *)
KeysDelivered ==
  prompt /\ outcome = "ok" /\ Head(todo) = "reboot --wait"
    => boot > began /\ keys = {"key", "done"}

(* `To avoid passing a stderr suppressed master conn forward': a command runs
   over a master of its own that stays until it ends, unless a ping that had
   been given up has put another one there.  (check does not reset after its
   ping.) *)
Undisturbed ==
  \A i \in Conn :
    (pc[Main] \in {"alive", "opts"} /\ proxy[Main] = i) \/ via[Main] = i
      => \/ Head(todo) = "check"
         \/ current = i /\ ~ conn[i].quiet
         \/ disturbed

(* A reboot_sync whose request has reached a machine that takes its time to
   reboot ends, dead masters and late pings notwithstanding. *)
RebootEnds ==
  (/\ patient /\ Running /\ Head(todo) = "reboot --wait" /\ Instr = "down"
   /\ (wants /\ boot < MaxBoots) \/ host = "down")
    ~> ~ Running
=============================================================================
