--------------------------- MODULE MachineProofs ----------------------------
(***************************************************************************)
(* Proofs about Machine: for any ping threads, any masters and any         *)
(* sequence of commands, no ssh master is left behind, a command has its   *)
(* own to itself, and a reboot that is waited for leaves a machine that    *)
(* has been up again since and has its keys.                               *)
(***************************************************************************)
EXTENDS Machine, SequenceTheorems, TLAPS

\* TypeOK in parts.
HostOK == /\ prompt \in BOOLEAN /\ patient \in BOOLEAN
          /\ host \in {"up", "down"} /\ boot \in 1 .. MaxBoots /\ wants \in BOOLEAN
          /\ keys \subseteq {"key", "done"}

CommandOK == /\ state \in States /\ ssh_pinged \in BOOLEAN /\ versioned \in BOOLEAN
             /\ program \in Seq(Instruction) /\ outcome \in {"none", "ok", "failed"}
             /\ began \in 0 .. MaxBoots

MastersOK == /\ current \in Conn \cup {NoConn} /\ disturbed \in BOOLEAN
             /\ conn \in [Conn -> [socket : BOOLEAN, boot : 0 .. MaxBoots, quiet : BOOLEAN]]

ThreadsOK ==
  /\ pc \in [Actor -> {"free", "get", "alive", "connect", "assign", "proxy", "opts", "exec"}]
  /\ proxy \in [Actor -> Conn \cup {NoConn}] /\ via \in [Actor -> Conn \cup {NoConn}]
  /\ sboot \in [Actor -> 0 .. MaxBoots] /\ tries \in 0 .. MaxTries

PingOK ==
  pinger \in Thread \cup {NoThread} /\ answered \in BOOLEAN /\ missed \in BOOLEAN

LEMMA TypeParts == TypeOK <=> HostOK /\ CommandOK /\ MastersOK /\ ThreadsOK /\ PingOK
BY DEF TypeOK, HostOK, CommandOK, MastersOK, ThreadsOK, PingOK

\* What goes with the types: a machine that is down has a boot left, and a
\* thread that looks at a master looks at one there is.
Bounded ==
  /\ host = "down" => boot < MaxBoots
  /\ \A a \in Actor : pc[a] \in {"alive", "assign", "opts"} => proxy[a] \in Conn

Types == TypeOK /\ Bounded

\* A command is in a call while it is at an instruction that is one, waits for
\* a ping only while it is at one that pings, and begins with nothing left of
\* the one before.
AtCall == pc[Main] # "free" => Running /\ Instr \in Remote

AtPing == pinger # NoThread => Running /\ Instr \in Waits

Before ==
  began = 0 => /\ program = <<>> /\ outcome = "none" /\ current = NoConn
               /\ \A a \in Actor : pc[a] = "free"

\* Only a thread that has started its ssh runs over a master.
OverOne == \A a \in Actor : via[a] # NoConn => pc[a] = "exec"

\* check alone goes on after a ping with the master the ping has left.
PingsOfCheck == \A j \in 1 .. Len(program) : program[j] = "ping" => Head(todo) = "check"

Excused == Head(todo) = "check" \/ disturbed

\* Outside of waiting the shared master is not a suppressed one; Main has the
\* shared one in hand, or is about to put there one that is not suppressed.
Ready ==
  Running /\ Instr \notin Waits /\ ~ Excused => current = NoConn \/ ~ conn[current].quiet

Mine ==
  /\ pc[Main] \in {"alive", "opts"} /\ ~ Excused => current = proxy[Main]
  /\ via[Main] # NoConn /\ ~ Excused => current = via[Main]

Loud == pc[Main] = "assign" => ~ conn[proxy[Main]].quiet

IInv ==
  /\ MastersOwned /\ AtCall /\ AtPing /\ Before /\ OverOne /\ PingsOfCheck
  /\ Ready /\ Mine /\ Loud
-----------------------------------------------------------------------------
(* Programs.                                                               *)

LEMMA Programs ==
  ASSUME NEW c, TypeOK
  PROVE  /\ Program(c) \in Seq(Instruction)
         /\ \A j \in 1 .. Len(Program(c)) : Program(c)[j] = "ping" => c = "check"
<1> DEFINE Quiet(s) == s \in Seq(Instruction) /\ \A j \in 1 .. Len(s) : s[j] # "ping"
<1>1. ASSUME NEW s, NEW t, Quiet(s), Quiet(t)  PROVE Quiet(s \o t)
  BY <1>1
<1> USE DEF Instruction, Remote, Waits
<1>2. /\ Quiet(<<>>) /\ Quiet(<<"rm", "mv", "done">>) /\ Quiet(<<"up">>)
      /\ Quiet(<<"reboot", "restart">>) /\ Quiet(<<"reboot", "restart", "down", "up">>)
      /\ Quiet(<<"os-release">>) /\ Quiet(<<"copy">>) /\ Quiet(<<"switch">>)
  OBVIOUS
<1>3. Check \in Seq(Instruction)
  BY DEF Check
<1> HIDE DEF Quiet
<1>4. \A s : Quiet(SendKeys(s))
  BY <1>2 DEF SendKeys
<1>5. \A b : Quiet(wait_for_ssh(b))
  BY <1>2 DEF wait_for_ssh
<1>6. Quiet(RebootSync)
  BY <1>1, <1>2, <1>4 DEF RebootSync
<1>7. \A b : Quiet(Deploy(b))
  BY <1>1, <1>2, <1>4, <1>5 DEF Deploy
<1>8. c # "check" => Quiet(Program(c))
  BY <1>2, <1>4, <1>6, <1>7 DEF Program
<1>9. c = "check" => Program(c) \in Seq(Instruction)
  BY <1>3 DEF Program
<1> QED
  BY <1>8, <1>9 DEF Quiet
-----------------------------------------------------------------------------
(* Types.                                                                  *)

LEMMA HostKept ==
  ASSUME Types, Next  PROVE HostOK' /\ (host' = "down" => boot' < MaxBoots)
<1>1. HostOK /\ (host = "down" => boot < MaxBoots) /\ MaxBoots \in Nat /\ boot \in Int
  BY TypeParts, MachineAssumption DEF Types, Bounded, HostOK
<1> USE <1>1
<1>1a. CASE UNCHANGED hostVars
  BY <1>1a DEF HostOK, hostVars
<1>2. CASE MainStep
  BY <1>1a, <1>2 DEF MainStep, Begin, Run, Restart, Ping, PingSucceeds, PingFails, Return, Exit
<1>3. ASSUME NEW a \in Actor, ThreadStep(a)
      PROVE  HostOK' /\ (host' = "down" => boot' < MaxBoots)
  <2>1. CASE Effect
    BY <2>1 DEF Effect, HostOK
  <2> QED
    BY <1>1a, <1>3, <2>1 DEF ThreadStep, Read, Alive, Connect, ConnectFails, Assign, Proxy, Opts,
       Exec, ExecFails
<1>4. CASE \E i \in Conn : Notice(i) \/ Expire(i)
  BY <1>1a, <1>4 DEF Notice, Expire
<1>5. CASE GoDown
  BY <1>5 DEF GoDown, HostOK
<1>6. CASE ComeUp
  BY <1>6 DEF ComeUp, HostOK
<1> QED
  BY <1>2, <1>3, <1>4, <1>5, <1>6 DEF Next

\* What is left of a program is part of it.
LEMMA Rest ==
  ASSUME CommandOK, program # <<>>
  PROVE  /\ Tail(program) \in Seq(Instruction) /\ Instr = program[1]
         /\ Len(program) \in Nat \ {0} /\ Len(Tail(program)) = Len(program) - 1
         /\ \A j \in 1 .. Len(Tail(program)) : Tail(program)[j] = program[j + 1]
BY DEF CommandOK, Instr

LEMMA CommandKept ==
  ASSUME Types, AtCall, Next  PROVE CommandOK'
<1>1. CommandOK /\ ThreadsOK /\ boot \in 0 .. MaxBoots
  BY TypeParts, MachineAssumption DEF Types, HostOK
<1>2. program # <<>> => Tail(program) \in Seq(Instruction)
  BY <1>1, Rest
<1>3. <<>> \in Seq(Instruction) /\ 0 \in 0 .. MaxBoots
  BY MachineAssumption
<1>4. CASE UNCHANGED <<attrVars, program, outcome, began>>
  BY <1>1, <1>4 DEF CommandOK, attrVars
<1>5. CASE MainStep
  <2>1. CASE Begin
    <3>1. program' \in Seq(Instruction)
      BY <2>1, Programs DEF Begin, Types
    <3> QED
      BY <1>1, <2>1, <3>1 DEF Begin, CommandOK, attrVars
  <2>2. CASE Restart
    BY <1>1, <1>2, <2>2 DEF Restart, Running, CommandOK, States
  <2>3. CASE PingSucceeds
    BY <1>1, <1>2, <2>3 DEF PingSucceeds, Running, CommandOK, States, attrVars
  <2>4. CASE PingFails
    BY <1>1, <1>2, <1>3, <2>4 DEF PingFails, Running, CommandOK, attrVars
  <2>5. CASE Exit \/ Return
    BY <1>1, <1>3, <2>5 DEF Exit, Return, CommandOK, attrVars
  <2> QED
    BY <1>4, <1>5, <2>1, <2>2, <2>3, <2>4, <2>5 DEF MainStep, Run, Ping, commandVars
<1>6. ASSUME NEW a \in Actor, ThreadStep(a)  PROVE CommandOK'
  <2>1. ASSUME NEW ok \in BOOLEAN, After(ok), program # <<>>  PROVE CommandOK'
    BY <1>1, <1>2, <1>3, <2>1 DEF After, CommandOK, States
  <2>2. ASSUME NEW e, Raise(a, e), a = Main => Running  PROVE CommandOK'
    BY <1>1, <1>3, <1>4, <2>1, <2>2 DEF Raise, Running, CommandOK, attrVars, commandVars
  <2>3. ASSUME NEW ok \in BOOLEAN, Leave(a, ok), a = Main => Running  PROVE CommandOK'
    BY <1>4, <2>1, <2>3 DEF Leave, Running, commandVars
  <2>4. pc[a] # "free" /\ a = Main => Running
    BY DEF AtCall
  <2>5. CASE Read(a) \/ Connect(a) \/ Assign(a)
    BY <1>4, <2>5 DEF Read, Connect, Assign, commandVars
  <2>6. CASE Alive(a) \/ Opts(a) \/ Proxy(a)
    BY <1>4, <2>2, <2>4, <2>6 DEF Alive, Opts, Proxy, Start, commandVars
  <2>7. CASE ConnectFails(a)
    BY <1>4, <2>2, <2>4, <2>7 DEF ConnectFails, commandVars
  <2>8. CASE Exec(a) \/ ExecFails(a)
    BY <2>3, <2>4, <2>8 DEF Exec, ExecFails
  <2> QED
    BY <1>6, <2>5, <2>6, <2>7, <2>8 DEF ThreadStep
<1>7. CASE (\E i \in Conn : Notice(i) \/ Expire(i)) \/ GoDown \/ ComeUp
  BY <1>4, <1>7 DEF Notice, Expire, GoDown, ComeUp, commandVars
<1> QED
  BY <1>5, <1>6, <1>7 DEF Next

LEMMA CutMasters ==
  ASSUME MastersOK, NEW masters
  PROVE  /\ Cut(masters) \in [Conn -> [socket : BOOLEAN, boot : 0 .. MaxBoots, quiet : BOOLEAN]]
         /\ \A i \in Conn : /\ Cut(masters)[i].socket => conn[i].socket /\ i \notin masters
                           /\ Cut(masters)[i].quiet => conn[i].quiet
<1>1. Dead \in [socket : BOOLEAN, boot : 0 .. MaxBoots, quiet : BOOLEAN] /\ ~ Dead.socket /\ ~ Dead.quiet
  BY MachineAssumption DEF Dead
<1> HIDE DEF Dead
<1> QED
  BY <1>1 DEF Cut, MastersOK

LEMMA MastersKept ==
  ASSUME Types, Next  PROVE MastersOK'
<1>1. MastersOK /\ ThreadsOK /\ boot \in 0 .. MaxBoots
  BY TypeParts, MachineAssumption DEF Types, HostOK
<1>2. CASE UNCHANGED masterVars
  BY <1>1, <1>2 DEF MastersOK, masterVars
<1>3. CASE Drop /\ disturbed' \in BOOLEAN
  BY <1>1, <1>3, CutMasters DEF Drop, MastersOK
<1>4. CASE Reset
  BY <1>1, <1>3, <1>4 DEF Reset, MastersOK
<1>5. CASE MainStep
  BY <1>2, <1>3, <1>4, <1>5 DEF MainStep, Begin, Run, Restart, Ping, PingSucceeds, PingFails,
     Return, Exit, ResetAfterUp
<1>6. ASSUME NEW a \in Actor, ThreadStep(a)  PROVE MastersOK'
  <2>1. CASE Connect(a)
    BY <1>1, <2>1 DEF Connect, MastersOK
  <2>2. CASE Assign(a)
    <3>1. proxy[a] \in Conn
      BY <2>2 DEF Assign, Goes, Types, Bounded
    <3> QED
      BY <1>1, <2>2, <3>1, CutMasters DEF Assign, MastersOK
  <2> QED
    BY <1>2, <1>6, <2>1, <2>2 DEF ThreadStep, Read, Alive, ConnectFails, Proxy, Opts, Exec, ExecFails
<1>7. ASSUME NEW i \in Conn, Notice(i) \/ Expire(i)  PROVE MastersOK'
  <2>1. conn' = Cut({i}) /\ UNCHANGED <<current, disturbed>>
    BY <1>7 DEF Notice, Expire
  <2> QED
    BY <1>1, <2>1, CutMasters DEF MastersOK
<1>8. CASE GoDown \/ ComeUp
  BY <1>2, <1>8 DEF GoDown, ComeUp
<1> QED
  BY <1>5, <1>6, <1>7, <1>8 DEF Next

\* A thread at its place in run_command, and the others at theirs.
Others(a) ==
  \A b \in Actor \ {a} : /\ pc'[b] = pc[b] /\ proxy'[b] = proxy[b]
                         /\ via'[b] = via[b] /\ sboot'[b] = sboot[b]

LEMMA ThreadsKept ==
  ASSUME Types, Next
  PROVE  ThreadsOK' /\ \A a \in Actor : pc'[a] \in {"alive", "assign", "opts"} => proxy'[a] \in Conn
<1> DEFINE Kept ==
      ThreadsOK' /\ \A a \in Actor : pc'[a] \in {"alive", "assign", "opts"} => proxy'[a] \in Conn
<1>1. /\ ThreadsOK /\ MastersOK /\ boot \in 0 .. MaxBoots /\ 0 \in 0 .. MaxBoots
      /\ 1 \in 0 .. MaxTries /\ MaxTries \in 0 .. MaxTries /\ Main \in Actor /\ Thread \subseteq Actor
      /\ \A a \in Actor : pc[a] \in {"alive", "assign", "opts"} => proxy[a] \in Conn
  BY TypeParts, MachineAssumption DEF Types, HostOK, Bounded, Actor
<1>2. CASE UNCHANGED threadVars
  BY <1>1, <1>2 DEF ThreadsOK, threadVars
<1>3. CASE MainStep
  <2>1. CASE Run
    BY <1>1, <2>1 DEF Run, Goes, ThreadsOK
  <2>2. CASE Ping
    <3>1. PICK t \in Thread : Goes(t, "free", "get")
      BY <2>2 DEF Ping
    <3> QED
      BY <1>1, <2>2, <3>1 DEF Ping, Goes, ThreadsOK
  <2> QED
    BY <1>2, <1>3, <2>1, <2>2 DEF MainStep, Begin, Restart, PingSucceeds, PingFails, Return, Exit
<1>4. ASSUME NEW a \in Actor, ThreadStep(a)  PROVE Kept
  <2> USE <1>1 DEF ThreadsOK
  <2>1. CASE Read(a)
    BY <2>1 DEF Read, Goes, MastersOK
  <2>2. ASSUME Start(a), pc[a] \in {"alive", "opts"}  PROVE Kept
    <3>1. proxy[a] \in Conn /\ conn[proxy[a]].boot \in 0 .. MaxBoots
      BY <2>2 DEF MastersOK
    <3> QED
      BY <2>2, <3>1 DEF Start
  <2>3. ASSUME NEW e, Raise(a, e)  PROVE Kept
    BY <2>3 DEF Raise
  <2>4. ASSUME NEW ok, Leave(a, ok)  PROVE Kept
    BY <2>4 DEF Leave
  <2>5. CASE Alive(a)
    BY <2>2, <2>3, <2>5 DEF Alive, Goes
  <2>6. CASE Connect(a)
    <3>1. PICK i \in Unused : proxy' = [proxy EXCEPT ![a] = i] /\ UNCHANGED <<via, sboot, tries>>
      BY <2>6 DEF Connect
    <3> QED
      BY <2>6, <3>1 DEF Connect, Goes, Unused
  <2>7. CASE ConnectFails(a)
    <3>1. CASE Raise(a, TRUE)
      BY <2>3, <3>1
    <3>2. CASE tries > 1 /\ tries' = tries - 1 /\ UNCHANGED <<pc, proxy, via, sboot>>
      <4>1. tries' \in 0 .. MaxTries
        BY <3>2, MachineAssumption
      <4> QED
        BY <3>2, <4>1
    <3> QED
      BY <2>7, <3>1, <3>2 DEF ConnectFails
  <2>8. CASE Assign(a)
    BY <2>8 DEF Assign, Goes
  <2>9. CASE Proxy(a)
    BY <2>3, <2>9 DEF Proxy, Goes, MastersOK
  <2>10. CASE Opts(a)
    BY <2>2, <2>3, <2>10 DEF Opts
  <2>11. CASE Exec(a) \/ ExecFails(a)
    BY <2>4, <2>11 DEF Exec, ExecFails
  <2> QED
    BY <1>4, <2>1, <2>5, <2>6, <2>7, <2>8, <2>9, <2>10, <2>11 DEF ThreadStep
<1>5. CASE (\E i \in Conn : Notice(i) \/ Expire(i)) \/ GoDown \/ ComeUp
  BY <1>2, <1>5 DEF Notice, Expire, GoDown, ComeUp
<1> QED
  BY <1>3, <1>4, <1>5 DEF Next

LEMMA PingKept ==
  ASSUME Types, Next  PROVE PingOK'
<1>1. PingOK
  BY TypeParts DEF Types
<1>2. CASE UNCHANGED pingVars
  BY <1>1, <1>2 DEF PingOK, pingVars
<1>3. CASE PingEnds
  BY <1>3 DEF PingEnds, PingOK
<1>4. CASE MainStep
  BY <1>1, <1>2, <1>3, <1>4 DEF MainStep, Begin, Run, Restart, Ping, PingSucceeds, PingFails, Return,
     Exit, PingOK
<1>5. ASSUME NEW a \in Actor, ThreadStep(a)  PROVE PingOK'
  <2>1. ASSUME NEW ok \in BOOLEAN, Leave(a, ok)  PROVE PingOK'
    <3>1. Sets(a, ok) \in BOOLEAN
      BY DEF Sets
    <3> QED
      BY <1>1, <1>2, <2>1, <3>1 DEF Leave, PingOK
  <2> QED
    BY <1>2, <1>5, <2>1 DEF ThreadStep, Read, Alive, Start, Raise, Connect, ConnectFails, Assign, Proxy,
       Opts, Exec, ExecFails, pingVars
<1>6. CASE (\E i \in Conn : Notice(i) \/ Expire(i)) \/ GoDown \/ ComeUp
  BY <1>1, <1>2, <1>6 DEF Notice, Expire, GoDown, ComeUp, PingOK
<1> QED
  BY <1>4, <1>5, <1>6 DEF Next

LEMMA InitTypes ==
  ASSUME Init  PROVE Types
<1>1. PICK s \in Setups :
        /\ prompt = s.prompt /\ patient = s.patient /\ host = s.host
        /\ state = s.state /\ ssh_pinged = s.pinged /\ versioned = s.pinged
  BY DEF Init
<1>2. HostOK
  <2>1. prompt \in BOOLEAN /\ patient \in BOOLEAN /\ host \in {"up", "down"}
    BY <1>1, SetupsAssumption
  <2>2. boot = 1 /\ wants = FALSE /\ keys = {}
    BY DEF Init
  <2>3. 1 \in 1 .. MaxBoots
    BY MachineAssumption
  <2> QED
    BY <2>1, <2>2, <2>3 DEF HostOK
<1>3. CommandOK
  <2>1. state \in States /\ ssh_pinged \in BOOLEAN /\ versioned \in BOOLEAN
    BY <1>1, SetupsAssumption
  <2>2. program \in Seq(Instruction) /\ outcome = "none" /\ began \in 0 .. MaxBoots
    BY MachineAssumption DEF Init
  <2> QED
    BY <2>1, <2>2 DEF CommandOK
<1>4. Dead \in [socket : BOOLEAN, boot : 0 .. MaxBoots, quiet : BOOLEAN]
  BY MachineAssumption DEF Dead
<1>5. MastersOK
  BY <1>4 DEF Init, MastersOK
<1>6. ThreadsOK /\ PingOK
  <2>1. 0 \in 0 .. MaxBoots /\ 0 \in 0 .. MaxTries
    BY MachineAssumption
  <2> QED
    BY <2>1 DEF Init, ThreadsOK, PingOK
<1>7. Bounded
  BY MachineAssumption DEF Init, Bounded
<1> QED
  BY <1>2, <1>3, <1>5, <1>6, <1>7, TypeParts DEF Types
-----------------------------------------------------------------------------
(* What a step of a thread can do.                                         *)

\* It goes on by one place, or leaves run_command.
Left(a) == pc'[a] = "free" /\ proxy'[a] = NoConn /\ via'[a] = NoConn

Goings(a) ==
  \/ /\ pc[a] = "get" /\ pc'[a] = "connect" /\ UNCHANGED <<proxy, via>>
  \/ /\ pc[a] = "get" /\ pc'[a] = "alive" /\ proxy'[a] = current /\ UNCHANGED via
  \/ /\ pc[a] \in {"alive", "opts"} /\ proxy[a] = current /\ pc'[a] = "exec"
     /\ via'[a] \in {current, NoConn} /\ UNCHANGED proxy
  \/ pc[a] = "alive" /\ pc'[a] = "connect" /\ UNCHANGED via
  \/ pc[a] = "connect" /\ UNCHANGED <<pc, proxy, via>>
  \/ Connect(a)
  \/ Assign(a)
  \/ pc[a] = "proxy" /\ pc'[a] = "opts" /\ proxy'[a] = current /\ UNCHANGED via

ThreadDoes(a) ==
  /\ Others(a) /\ pc[a] # "free" /\ UNCHANGED <<todo, began, pinger>>
  /\ UNCHANGED masterVars \/ Connect(a) \/ Assign(a)
  /\ \/ Left(a) /\ pc[a] # "assign" /\ UNCHANGED masterVars
     \/ Goings(a) /\ UNCHANGED <<program, outcome>>
  /\ UNCHANGED <<program, outcome>> \/ a = Main
  /\ program' \in {program, Tail(program), <<>>}

LEMMA ThreadSteps ==
  ASSUME Types, AtCall, NEW a \in Actor, ThreadStep(a)
  PROVE  ThreadDoes(a)
<1>1. ThreadsOK
  BY TypeParts DEF Types
<1> USE <1>1 DEF ThreadsOK
<1>2. ASSUME NEW ok, After(ok)
      PROVE  UNCHANGED <<todo, began>> /\ program' \in {program, Tail(program), <<>>}
  BY <1>2 DEF After
<1>3. ASSUME NEW ok, Leave(a, ok), pc[a] \notin {"free", "assign"}, UNCHANGED masterVars
      PROVE  ThreadDoes(a)
  BY <1>2, <1>3 DEF Leave, ThreadDoes, Left, Others, commandVars, pingVars
<1>4. ASSUME NEW e, Raise(a, e), pc[a] \notin {"free", "assign"}, UNCHANGED masterVars
      PROVE  ThreadDoes(a)
  BY <1>2, <1>4 DEF Raise, ThreadDoes, Left, Others, commandVars, pingVars
<1> HIDE DEF ThreadsOK
<1>5. ASSUME Start(a), pc[a] \in {"alive", "opts"}, proxy[a] = current, UNCHANGED masterVars
      PROVE  ThreadDoes(a)
  <2>1. Others(a) /\ pc'[a] = "exec" /\ via'[a] \in {current, NoConn} /\ UNCHANGED proxy
    BY <1>5 DEF Start, Others, ThreadsOK
  <2> QED
    BY <1>5, <2>1 DEF Start, ThreadDoes, Goings, commandVars, pingVars
<1>6. CASE Read(a)
  BY <1>6 DEF Read, Goes, ThreadDoes, Goings, Others, commandVars, pingVars, ThreadsOK
<1>7. CASE Alive(a)
  <2>1. CASE Raise(a, FALSE)
    BY <1>4, <1>7, <2>1 DEF Alive
  <2>2. CASE proxy[a] = current /\ Start(a)
    BY <1>5, <1>7, <2>2 DEF Alive
  <2>3. CASE Goes(a, "alive", "connect") /\ proxy' = [proxy EXCEPT ![a] = NoConn]
             /\ UNCHANGED <<attrVars, commandVars, via, sboot, tries, pingVars>>
    BY <1>7, <2>3 DEF Alive, Goes, ThreadDoes, Goings, Others, commandVars, pingVars, ThreadsOK
  <2> QED
    BY <1>7, <2>1, <2>2, <2>3 DEF Alive
<1>8. CASE Connect(a)
  <2>1. pc[a] = "connect" /\ Others(a)
    BY <1>8 DEF Connect, Goes, Others, ThreadsOK
  <2> QED
    BY <1>8, <2>1 DEF Connect, ThreadDoes, Goings, commandVars, pingVars
<1>9. CASE ConnectFails(a)
  <2>1. CASE Raise(a, TRUE)
    BY <1>4, <1>9, <2>1 DEF ConnectFails
  <2>2. CASE UNCHANGED <<attrVars, commandVars, pc, proxy, via, sboot, pingVars>>
    BY <1>9, <2>2 DEF ConnectFails, ThreadDoes, Goings, Others, commandVars, pingVars
  <2> QED
    BY <1>9, <2>1, <2>2 DEF ConnectFails
<1>10. CASE Assign(a)
  <2>1. pc[a] = "assign" /\ Others(a)
    BY <1>10 DEF Assign, Goes, Others, ThreadsOK
  <2> QED
    BY <1>10, <2>1 DEF Assign, ThreadDoes, Goings, commandVars, pingVars
<1>11. CASE Proxy(a)
  <2>1. CASE Raise(a, FALSE)
    BY <1>4, <1>11, <2>1 DEF Proxy
  <2>2. CASE ~ Raise(a, FALSE)
    BY <1>11, <2>2 DEF Proxy, Goes, ThreadDoes, Goings, Others, commandVars, pingVars, ThreadsOK
  <2> QED
    BY <2>1, <2>2
<1>12. CASE Opts(a)
  BY <1>4, <1>5, <1>12 DEF Opts
<1>13. CASE Exec(a) \/ ExecFails(a)
  BY <1>3, <1>13 DEF Exec, ExecFails
<1> QED
  BY <1>6, <1>7, <1>8, <1>9, <1>10, <1>11, <1>12, <1>13 DEF ThreadStep
-----------------------------------------------------------------------------
(* The invariant.                                                          *)

\* The steps that leave the masters, the commands and the threads alone.
Elsewhere ==
  UNCHANGED <<todo, program, outcome, began, current, disturbed, pc, proxy, via, pinger>>

LEMMA WorldSteps ==
  ASSUME (\E i \in Conn : Notice(i) \/ Expire(i)) \/ GoDown \/ ComeUp
  PROVE  Elsewhere /\ (conn' = conn \/ \E i \in Conn : conn' = Cut({i}))
BY DEF Notice, Expire, GoDown, ComeUp, Elsewhere, commandVars, masterVars, threadVars, pingVars

LEMMA AtCallKept ==
  ASSUME Types, IInv, Next  PROVE AtCall'
<1>1. AtCall /\ ThreadsOK /\ Main \in Actor /\ Remote \cap Waits = {} /\ "restart" \notin Remote
  BY TypeParts, MachineAssumption DEF IInv, Types, Actor, Remote, Waits
<1>2. CASE UNCHANGED <<program, outcome>> /\ pc'[Main] = pc[Main]
  BY <1>1, <1>2 DEF AtCall, Running, Instr
<1>3. CASE MainStep
  <2>1. CASE Run
    <3>1. Running' /\ Instr' = Instr
      BY <2>1 DEF Run, Running, Instr, commandVars
    <3> QED
      BY <2>1, <3>1 DEF Run, AtCall
  <2>2. CASE Ping
    <3>1. pc'[Main] = pc[Main]
      BY <1>1, <2>2, MachineAssumption DEF Ping, Goes, ThreadsOK
    <3> QED
      BY <1>2, <2>2, <3>1 DEF Ping, commandVars
  <2>3. CASE ~ Run /\ ~ Ping
    <3>1. ~ (Running /\ Instr \in Remote)
      <4>1. CASE Begin \/ Return \/ Exit
        BY <4>1 DEF Begin, Return, Exit, Running
      <4>2. CASE Restart
        BY <1>1, <4>2 DEF Restart
      <4>3. CASE PingSucceeds \/ PingFails
        BY <1>1, <4>3 DEF PingSucceeds, PingFails, IInv, AtPing
      <4> QED
        BY <1>3, <2>3, <4>1, <4>2, <4>3 DEF MainStep
    <3>2. pc' = pc
      BY <1>3, <2>3 DEF MainStep, Begin, Restart, PingSucceeds, PingFails, Return, Exit, threadVars
    <3> QED
      BY <1>1, <3>1, <3>2 DEF AtCall
  <2> QED
    BY <2>1, <2>2, <2>3
<1>4. ASSUME NEW a \in Actor, ThreadStep(a)  PROVE AtCall'
  <2>1. ThreadDoes(a)
    BY <1>1, <1>4, ThreadSteps
  <2>2. CASE a = Main /\ Left(a)
    BY <2>2 DEF Left, AtCall
  <2>3. CASE a # Main
    BY <1>1, <1>2, <2>1, <2>3 DEF ThreadDoes, Others
  <2>4. CASE a = Main /\ ~ Left(a)
    <3>1. UNCHANGED <<program, outcome>> /\ pc[Main] # "free"
      BY <2>1, <2>4 DEF ThreadDoes
    <3> QED
      BY <1>1, <3>1 DEF AtCall, Running, Instr
  <2> QED
    BY <2>2, <2>3, <2>4
<1>5. CASE (\E i \in Conn : Notice(i) \/ Expire(i)) \/ GoDown \/ ComeUp
  BY <1>2, <1>5, WorldSteps DEF Elsewhere
<1> QED
  BY <1>3, <1>4, <1>5 DEF Next

LEMMA AtPingKept ==
  ASSUME Types, IInv, Next  PROVE AtPing'
<1>1. AtPing /\ AtCall /\ Remote \cap Waits = {} /\ "restart" \notin Waits
  BY DEF IInv, Remote, Waits
<1>2. CASE UNCHANGED <<program, outcome, pinger>>
  BY <1>1, <1>2 DEF AtPing, Running, Instr
<1>3. CASE pinger' = NoThread
  BY <1>3 DEF AtPing
<1>4. CASE MainStep
  <2>1. CASE Ping
    <3>1. Running' /\ Instr' = Instr
      BY <2>1 DEF Ping, Running, Instr, commandVars
    <3> QED
      BY <2>1, <3>1 DEF Ping, AtPing
  <2>2. CASE Begin \/ Restart \/ Return
    <3>1. pinger = NoThread /\ pinger' = pinger
      BY <1>1, <2>2 DEF Begin, Restart, Return, AtPing, Running, pingVars
    <3> QED
      BY <1>3, <3>1
  <2>3. CASE Run
    BY <1>2, <2>3 DEF Run, commandVars, pingVars
  <2> QED
    BY <1>3, <1>4, <2>1, <2>2, <2>3 DEF MainStep, PingSucceeds, PingFails, Exit, PingEnds
<1>5. ASSUME NEW a \in Actor, ThreadStep(a)  PROVE AtPing'
  <2>1. ThreadDoes(a)
    BY <1>1, <1>5, ThreadSteps
  <2>2. CASE UNCHANGED <<program, outcome>>
    BY <1>2, <2>1, <2>2 DEF ThreadDoes
  <2>3. CASE a = Main
    <3>1. pinger = NoThread
      BY <1>1, <2>1, <2>3 DEF ThreadDoes, AtCall, AtPing
    <3> QED
      BY <1>3, <2>1, <3>1 DEF ThreadDoes
  <2> QED
    BY <2>1, <2>2, <2>3 DEF ThreadDoes
<1>6. CASE (\E i \in Conn : Notice(i) \/ Expire(i)) \/ GoDown \/ ComeUp
  BY <1>2, <1>6, WorldSteps DEF Elsewhere
<1> QED
  BY <1>4, <1>5, <1>6 DEF Next

LEMMA BeforeKept ==
  ASSUME Types, IInv, Next  PROVE Before'
<1>1. Before /\ AtCall
  BY DEF IInv
<1>2. CASE began' # 0
  BY <1>2 DEF Before
<1>3. boot # 0 /\ boot \in Int
  BY MachineAssumption DEF Types, TypeOK
<1>4. CASE MainStep
  <2>1. CASE Begin
    BY <1>2, <1>3, <2>1 DEF Begin
  <2>2. CASE Exit
    <3>1. pc[Main] = "free"
      BY <1>1, <2>2 DEF Exit, AtCall, Running
    <3>2. \A a \in Actor : pc[a] = "free"
      BY <2>2, <3>1 DEF Exit, Actor
    <3> QED
      BY <2>2, <3>2 DEF Exit, Drop, Before, threadVars
  <2>3. CASE ~ Begin /\ ~ Exit
    <3>1. began # 0 /\ began' = began
      BY <1>1, <1>4, <2>3 DEF MainStep, Run, Restart, Ping, PingSucceeds, PingFails, Return, Before,
         Running, commandVars
    <3> QED
      BY <1>2, <3>1
  <2> QED
    BY <2>1, <2>2, <2>3
<1>5. ASSUME NEW a \in Actor, ThreadStep(a)  PROVE Before'
  <2>1. ThreadDoes(a)
    BY <1>1, <1>5, ThreadSteps
  <2> QED
    BY <1>1, <1>2, <2>1 DEF ThreadDoes, Before
<1>6. CASE (\E i \in Conn : Notice(i) \/ Expire(i)) \/ GoDown \/ ComeUp
  BY <1>1, <1>6, WorldSteps DEF Elsewhere, Before
<1> QED
  BY <1>4, <1>5, <1>6 DEF Next

\* What a step of Main does to the threads.
LEMMA MainThreads ==
  ASSUME ThreadsOK, MainStep
  PROVE  /\ UNCHANGED <<proxy, via>>
         /\ \A a \in Actor : pc'[a] = pc[a] \/ (pc[a] = "free" /\ pc'[a] = "get")
<1>1. ASSUME NEW a \in Actor, Goes(a, "free", "get")
      PROVE  \A b \in Actor : pc'[b] = pc[b] \/ (pc[b] = "free" /\ pc'[b] = "get")
  BY <1>1 DEF Goes, ThreadsOK
<1>2. Main \in Actor /\ Thread \subseteq Actor
  BY DEF Actor
<1>3. CASE Run
  BY <1>1, <1>2, <1>3 DEF Run
<1>4. CASE Ping
  BY <1>1, <1>2, <1>4 DEF Ping
<1>5. CASE ~ Run /\ ~ Ping
  <2>1. UNCHANGED <<pc, proxy, via>>
    BY <1>5 DEF MainStep, Begin, Restart, PingSucceeds, PingFails, Return, Exit, threadVars
  <2> QED
    BY <2>1
<1> QED
  BY <1>3, <1>4, <1>5

LEMMA OverOneKept ==
  ASSUME Types, IInv, Next  PROVE OverOne'
<1>1. OverOne /\ AtCall /\ ThreadsOK
  BY TypeParts DEF IInv, Types
<1>2. CASE MainStep
  BY <1>1, <1>2, MainThreads DEF OverOne
<1>3. ASSUME NEW a \in Actor, ThreadStep(a)  PROVE OverOne'
  <2>1. ThreadDoes(a)
    BY <1>1, <1>3, ThreadSteps
  <2>2. Connect(a) => pc[a] = "connect" /\ UNCHANGED via
    BY DEF Connect, Goes
  <2>3. Assign(a) => pc[a] = "assign" /\ UNCHANGED via
    BY DEF Assign, Goes
  <2> QED
    BY <1>1, <2>1, <2>2, <2>3 DEF ThreadDoes, Others, Left, Goings, OverOne
<1>4. CASE (\E i \in Conn : Notice(i) \/ Expire(i)) \/ GoDown \/ ComeUp
  BY <1>1, <1>4, WorldSteps DEF Elsewhere, OverOne
<1> QED
  BY <1>2, <1>3, <1>4 DEF Next

LEMMA PingsOfCheckKept ==
  ASSUME Types, IInv, Next  PROVE PingsOfCheck'
<1>1. PingsOfCheck /\ AtCall /\ CommandOK
  BY TypeParts DEF IInv, Types
<1>2. CASE program' = <<>>
  BY <1>2 DEF PingsOfCheck
<1>3. CASE program' = program /\ todo' = todo
  BY <1>1, <1>3 DEF PingsOfCheck
<1>4. CASE program # <<>> /\ program' = Tail(program) /\ todo' = todo
  <2>1. \A j \in 1 .. Len(Tail(program)) :
          j + 1 \in 1 .. Len(program) /\ Tail(program)[j] = program[j + 1]
    BY <1>1, <1>4, Rest
  <2> QED
    BY <1>1, <1>4, <2>1 DEF PingsOfCheck
<1>5. CASE MainStep
  <2>1. CASE Begin
    BY <2>1, Programs DEF Begin, PingsOfCheck, Types
  <2> QED
    BY <1>2, <1>3, <1>4, <1>5, <2>1 DEF MainStep, Run, Restart, Ping, PingSucceeds, PingFails, Return,
       Exit, Running, commandVars
<1>6. ASSUME NEW a \in Actor, ThreadStep(a)  PROVE PingsOfCheck'
  <2>1. ThreadDoes(a)
    BY <1>1, <1>6, ThreadSteps
  <2>2. a = Main => program # <<>>
    BY <1>1, <2>1 DEF ThreadDoes, AtCall, Running
  <2> QED
    BY <1>2, <1>3, <1>4, <2>1, <2>2 DEF ThreadDoes
<1>7. CASE (\E i \in Conn : Notice(i) \/ Expire(i)) \/ GoDown \/ ComeUp
  BY <1>3, <1>7, WorldSteps DEF Elsewhere
<1> QED
  BY <1>5, <1>6, <1>7 DEF Next

\* What a step does to the masters.
MastersDo ==
  \/ UNCHANGED <<current, conn>>
  \/ Drop /\ pc[Main] = "free" /\ UNCHANGED <<proxy, via>> /\ pc' = pc
  \/ Elsewhere /\ \E i \in Conn : conn' = Cut({i})
  \/ \E a \in Actor : Connect(a) \/ Assign(a)

LEMMA MasterSteps ==
  ASSUME Types, IInv, Next  PROVE MastersDo
<1> USE DEF IInv
<1>1. CASE MainStep
  <2>1. CASE Restart \/ PingSucceeds \/ PingFails \/ Exit
    <3>1. pc[Main] = "free"
      <4>1. AtCall /\ AtPing /\ Remote \cap Waits = {} /\ "restart" \notin Remote
        BY DEF Remote, Waits
      <4>2. CASE Restart \/ Exit
        BY <4>1, <4>2 DEF Restart, Exit, AtCall, Running
      <4>3. CASE PingSucceeds \/ PingFails
        BY <4>1, <4>3 DEF PingSucceeds, PingFails, AtCall, AtPing
      <4> QED
        BY <2>1, <4>2, <4>3
    <3> QED
      BY <2>1, <3>1 DEF Restart, PingSucceeds, PingFails, Exit, ResetAfterUp, Reset, MastersDo,
         threadVars, masterVars
  <2> QED
    BY <1>1, <2>1 DEF MainStep, Begin, Run, Ping, Return, MastersDo, masterVars
<1>2. ASSUME NEW a \in Actor, ThreadStep(a)  PROVE MastersDo
  BY <1>2, ThreadSteps DEF ThreadDoes, MastersDo, masterVars
<1>3. CASE (\E i \in Conn : Notice(i) \/ Expire(i)) \/ GoDown \/ ComeUp
  BY <1>3, WorldSteps DEF MastersDo, Elsewhere
<1> QED
  BY <1>1, <1>2, <1>3 DEF Next

LEMMA OwnedKept ==
  ASSUME Types, IInv, Next  PROVE MastersOwned'
<1>1. /\ MastersOwned /\ MastersOK /\ ThreadsOK /\ AtCall
      /\ \A a \in Actor : pc[a] = "assign" => proxy[a] \in Conn
  BY TypeParts DEF IInv, Types, Bounded
<1>2. SUFFICES ASSUME NEW i \in Conn, conn'[i].socket
               PROVE  i = current' \/ \E a \in Actor : pc'[a] = "assign" /\ proxy'[a] = i
  BY DEF MastersOwned
<1>3. CASE UNCHANGED <<current, conn>>
  <2>1. i = current \/ \E a \in Actor : pc[a] = "assign" /\ proxy[a] = i
    BY <1>1, <1>2, <1>3 DEF MastersOwned
  <2>2. ASSUME NEW a \in Actor, pc[a] = "assign", proxy[a] = i, i # current
        PROVE  pc'[a] = "assign" /\ proxy'[a] = i
    <3>1. CASE MainStep
      BY <1>1, <2>2, <3>1, MainThreads
    <3>2. ASSUME NEW b \in Actor, ThreadStep(b)  PROVE pc'[a] = "assign" /\ proxy'[a] = i
      <4>1. ThreadDoes(b)
        BY <1>1, <3>2, ThreadSteps
      <4>2. CASE b # a
        BY <2>2, <4>1, <4>2 DEF ThreadDoes, Others
      <4>3. CASE b = a
        <5>1. Assign(a)
          BY <2>2, <4>1, <4>3 DEF ThreadDoes, Goings, Connect, Goes
        <5>2. current' = i
          BY <2>2, <5>1 DEF Assign
        <5> QED
          BY <1>3, <2>2, <5>2
      <4> QED
        BY <4>2, <4>3
    <3>3. CASE (\E j \in Conn : Notice(j) \/ Expire(j)) \/ GoDown \/ ComeUp
      BY <2>2, <3>3, WorldSteps DEF Elsewhere
    <3> QED
      BY <3>1, <3>2, <3>3 DEF Next
  <2> QED
    BY <1>3, <2>1, <2>2
<1>4. CASE Drop /\ UNCHANGED proxy /\ pc' = pc
  <2>1. Cut({current})[i].socket => conn[i].socket /\ i \notin {current}
    BY <1>1 DEF Cut, Dead, MastersOK
  <2>2. conn[i].socket /\ i # current
    BY <1>2, <1>4, <2>1 DEF Drop
  <2> QED
    BY <1>1, <1>4, <2>2 DEF MastersOwned
<1>5. CASE Elsewhere /\ \E j \in Conn : conn' = Cut({j})
  <2>1. \A j : Cut({j})[i].socket => conn[i].socket
    BY <1>1 DEF Cut, Dead, MastersOK
  <2>2. conn[i].socket
    BY <1>2, <1>5, <2>1
  <2> QED
    BY <1>1, <1>5, <2>2 DEF MastersOwned, Elsewhere
<1>6. ASSUME NEW b \in Actor, Connect(b)
      PROVE  i = current' \/ \E a \in Actor : pc'[a] = "assign" /\ proxy'[a] = i
  <2>1. PICK n \in Unused : /\ conn' = [conn EXCEPT ![n] = [socket |-> TRUE, boot |-> boot,
                                                            quiet |-> b # Main]]
                            /\ proxy' = [proxy EXCEPT ![b] = n]
    BY <1>6 DEF Connect
  <2>2. /\ current' = current /\ pc[b] = "connect" /\ pc'[b] = "assign" /\ proxy'[b] = n
        /\ \A a \in Actor \ {b} : pc'[a] = pc[a] /\ proxy'[a] = proxy[a]
    BY <1>1, <1>6, <2>1 DEF Connect, Goes, ThreadsOK
  <2>3. CASE i = n
    BY <2>2, <2>3
  <2>4. CASE i # n
    <3>1. conn[i].socket
      BY <1>1, <1>2, <2>1, <2>4 DEF MastersOK
    <3> QED
      BY <1>1, <2>2, <3>1 DEF MastersOwned
  <2> QED
    BY <2>3, <2>4
<1>7. ASSUME NEW b \in Actor, Assign(b)
      PROVE  i = current' \/ \E a \in Actor : pc'[a] = "assign" /\ proxy'[a] = i
  <2>0. Cut({current})[i].socket => conn[i].socket /\ i \notin {current}
    BY <1>1 DEF Cut, Dead, MastersOK
  <2>1. conn[i].socket /\ i # current
    BY <1>2, <1>7, <2>0 DEF Assign, Collected
  <2>2. PICK a \in Actor : pc[a] = "assign" /\ proxy[a] = i
    BY <1>1, <2>1 DEF MastersOwned
  <2>3. CASE a = b
    BY <1>7, <2>2, <2>3 DEF Assign
  <2>4. CASE a # b
    BY <1>1, <1>7, <2>2, <2>4 DEF Assign, Goes, ThreadsOK
  <2> QED
    BY <2>3, <2>4
<1> QED
  BY <1>1, <1>3, <1>4, <1>5, <1>6, <1>7, MasterSteps DEF MastersDo

LEMMA LoudKept ==
  ASSUME Types, IInv, Next  PROVE Loud'
<1>1. /\ Loud /\ MastersOK /\ ThreadsOK /\ AtCall /\ Main \in Actor
      /\ pc[Main] = "assign" => proxy[Main] \in Conn
  BY TypeParts DEF IInv, Types, Bounded, Actor
<1>2. SUFFICES ASSUME pc'[Main] = "assign"  PROVE ~ conn'[proxy'[Main]].quiet
  BY DEF Loud
<1>3. CASE Connect(Main)
  <2>1. PICK n \in Unused : /\ conn' = [conn EXCEPT ![n] = [socket |-> TRUE, boot |-> boot,
                                                            quiet |-> Main # Main]]
                            /\ proxy' = [proxy EXCEPT ![Main] = n]
    BY <1>3 DEF Connect
  <2> QED
    BY <1>1, <2>1 DEF Unused, MastersOK, ThreadsOK
<1>4. CASE ~ Connect(Main)
  <2>1. pc[Main] = "assign" /\ proxy'[Main] = proxy[Main]
    <3>1. CASE MainStep
      BY <1>1, <1>2, <3>1, MainThreads
    <3>2. ASSUME NEW b \in Actor, ThreadStep(b)
          PROVE  pc[Main] = "assign" /\ proxy'[Main] = proxy[Main]
      <4>1. ThreadDoes(b)
        BY <1>1, <3>2, ThreadSteps
      <4>2. b # Main
        BY <1>1, <1>2, <1>4, <4>1 DEF ThreadDoes, Left, Goings, Assign, Goes, ThreadsOK
      <4> QED
        BY <1>1, <1>2, <4>1, <4>2 DEF ThreadDoes, Others
    <3>3. CASE (\E j \in Conn : Notice(j) \/ Expire(j)) \/ GoDown \/ ComeUp
      BY <1>2, <3>3, WorldSteps DEF Elsewhere
    <3> QED
      BY <3>1, <3>2, <3>3 DEF Next
  <2>2. proxy[Main] \in Conn /\ ~ conn[proxy[Main]].quiet
    BY <1>1, <2>1 DEF Loud
  <2>3. CASE UNCHANGED conn
    BY <2>1, <2>2, <2>3
  <2>4. CASE \E masters : conn' = Cut(masters)
    <3>1. \A masters : Cut(masters)[proxy[Main]].quiet => conn[proxy[Main]].quiet
      BY <1>1, <2>2 DEF Cut, Dead, MastersOK
    <3> QED
      BY <2>1, <2>2, <2>4, <3>1
  <2>5. ASSUME NEW b \in Actor, Connect(b)  PROVE conn'[proxy[Main]] = conn[proxy[Main]]
    <3>1. PICK n \in Unused : conn' = [conn EXCEPT ![n] = [socket |-> TRUE, boot |-> boot,
                                                           quiet |-> b # Main]]
      BY <2>5 DEF Connect
    <3>2. n # proxy[Main]
      BY <1>1 DEF Unused
    <3> QED
      BY <1>1, <2>2, <3>1, <3>2 DEF MastersOK
  <2> QED
    BY <1>1, <2>1, <2>2, <2>3, <2>4, <2>5, MasterSteps DEF MastersDo, Drop, Assign
<1> QED
  BY <1>3, <1>4

\* A command that was excused is so until it ends.
LEMMA ExcusedStays ==
  ASSUME Types, IInv, Next, ~ Exit, Excused  PROVE Excused'
<1>1. CASE MainStep
  <2>1. Reset => disturbed' = disturbed
    BY DEF Reset
  <2>2. todo' = todo /\ disturbed' = disturbed
    <3>1. CASE Begin \/ Run \/ Ping \/ Return
      BY <3>1 DEF Begin, Run, Ping, Return, masterVars, commandVars
    <3>2. CASE Restart
      BY <2>1, <3>2 DEF Restart
    <3>3. CASE PingSucceeds
      BY <2>1, <3>3 DEF PingSucceeds, ResetAfterUp, masterVars
    <3>4. CASE PingFails
      BY <2>1, <3>4 DEF PingFails, masterVars
    <3> QED
      BY <1>1, <3>1, <3>2, <3>3, <3>4 DEF MainStep
  <2> QED
    BY <2>2 DEF Excused
<1>2. ASSUME NEW a \in Actor, ThreadStep(a)  PROVE Excused'
  <2>1. ThreadDoes(a)
    BY <1>2, ThreadSteps DEF IInv
  <2>2. Connect(a) => UNCHANGED disturbed
    BY DEF Connect
  <2>3. Assign(a) /\ disturbed => disturbed'
    BY DEF Assign
  <2> QED
    BY <2>1, <2>2, <2>3 DEF ThreadDoes, Excused, masterVars
<1>3. CASE (\E i \in Conn : Notice(i) \/ Expire(i)) \/ GoDown \/ ComeUp
  BY <1>3, WorldSteps DEF Elsewhere, Excused
<1> QED
  BY <1>1, <1>2, <1>3 DEF Next

\* A ping thread that is waited for runs while Main waits.
LEMMA LateAssign ==
  ASSUME Types, IInv, NEW b \in Thread, Assign(b), ~ Excused'
  PROVE  pinger = b /\ Running /\ Instr \in Waits /\ pc[Main] = "free"
<1>1. pinger = b
  BY MachineAssumption DEF Assign, Excused
<1>2. Running /\ Instr \in Waits
  BY <1>1, MachineAssumption DEF IInv, AtPing
<1>3. pc[Main] = "free"
  BY <1>2 DEF IInv, AtCall, Remote, Waits
<1> QED
  BY <1>1, <1>2, <1>3

LEMMA ReadyKept ==
  ASSUME Types, IInv, Next  PROVE Ready'
<1>1. SUFFICES ASSUME Running', Instr' \notin Waits, ~ Excused'
               PROVE  current' = NoConn \/ ~ conn'[current'].quiet
  BY DEF Ready
<1>2. /\ MastersOK /\ CommandOK /\ ThreadsOK /\ AtCall /\ AtPing /\ PingsOfCheck /\ Loud /\ Before
      /\ Running /\ Instr \notin Waits /\ ~ Excused => current = NoConn \/ ~ conn[current].quiet
      /\ Remote \cap Waits = {}
  BY TypeParts DEF IInv, Types, Ready, Remote, Waits
<1>3. ~ Exit
  BY <1>1 DEF Exit, Running
<1>4. ~ Excused
  BY <1>1, <1>3, ExcusedStays
<1>5. CASE MainStep
  <2>1. CASE Reset
    BY <2>1 DEF Reset, Drop
  <2>2. CASE Begin
    BY <1>2, <2>2 DEF Begin, Before, masterVars
  <2>3. CASE Run
    BY <1>1, <1>2, <1>4, <2>3 DEF Run, Running, Instr, commandVars, masterVars
  <2>4. CASE Ping
    BY <1>1, <2>4 DEF Ping, Instr, commandVars
  <2>5. CASE Return
    BY <1>1, <2>5 DEF Return, Running
  <2>6. CASE PingSucceeds
    <3>1. Instr # "ping"
      <4>1. Running => Instr = program[1] /\ 1 \in 1 .. Len(program)
        BY <1>2, Rest DEF Running
      <4> QED
        BY <1>2, <1>4, <2>6, <4>1 DEF PingSucceeds, PingsOfCheck, Excused
    <3>2. Instr \in Waits
      BY <1>2, <2>6 DEF PingSucceeds, AtPing
    <3>3. CASE Instr = "up"
      BY <2>1, <2>6, <3>3 DEF PingSucceeds, ResetAfterUp
    <3>4. CASE Instr = "down"
      BY <1>1, <2>6, <3>4 DEF PingSucceeds, Instr, Waits
    <3> QED
      BY <3>1, <3>2, <3>3, <3>4 DEF Waits
  <2>7. CASE PingFails
    <3>1. CASE Instr = "down"
      BY <2>1, <2>7, <3>1 DEF PingFails
    <3>2. CASE Instr = "up"
      BY <1>1, <2>7, <3>2 DEF PingFails, Instr, Waits
    <3>3. CASE Instr \notin {"down", "up"}
      BY <1>1, <2>7, <3>3 DEF PingFails, Running
    <3> QED
      BY <3>1, <3>2, <3>3
  <2> QED
    BY <1>3, <1>5, <2>1, <2>2, <2>3, <2>4, <2>5, <2>6, <2>7 DEF MainStep, Restart
<1>6. ASSUME NEW a \in Actor, ThreadStep(a)  PROVE current' = NoConn \/ ~ conn'[current'].quiet
  <2>1. ThreadDoes(a)
    BY <1>2, <1>6, ThreadSteps
  <2>2. Running /\ Instr \notin Waits
    <3>1. CASE a = Main
      BY <1>2, <2>1, <3>1 DEF ThreadDoes, AtCall
    <3>2. CASE a # Main
      BY <1>1, <2>1, <3>2 DEF ThreadDoes, Running, Instr
    <3> QED
      BY <3>1, <3>2
  <2>3. current = NoConn \/ ~ conn[current].quiet
    BY <1>2, <1>4, <2>2
  <2>4. CASE UNCHANGED masterVars
    BY <2>3, <2>4 DEF masterVars
  <2>5. CASE Connect(a)
    <3>1. PICK n \in Unused : conn' = [conn EXCEPT ![n] = [socket |-> TRUE, boot |-> boot,
                                                           quiet |-> a # Main]]
      BY <2>5 DEF Connect
    <3>2. n # current /\ current' = current
      BY <2>5 DEF Unused, Connect
    <3> QED
      BY <1>2, <2>3, <3>1, <3>2 DEF MastersOK
  <2>6. CASE Assign(a)
    <3>1. a = Main
      BY <1>1, <2>2, <2>6, LateAssign DEF Actor
    <3>2. pc[Main] = "assign" /\ current' = proxy[Main] /\ conn' = Cut({current})
      BY <2>6, <3>1 DEF Assign, Goes, Collected
    <3>3. proxy[Main] \in Conn /\ ~ conn[proxy[Main]].quiet
      BY <1>2, <3>2 DEF Loud, Types, Bounded, Actor
    <3> QED
      BY <1>2, <3>2, <3>3 DEF Cut, Dead, MastersOK
  <2> QED
    BY <2>1, <2>4, <2>5, <2>6 DEF ThreadDoes
<1>7. CASE (\E i \in Conn : Notice(i) \/ Expire(i)) \/ GoDown \/ ComeUp
  <2>1. Elsewhere /\ (conn' = conn \/ \E i \in Conn : conn' = Cut({i}))
    BY <1>7, WorldSteps
  <2>2. current' = current /\ (current = NoConn \/ ~ conn[current].quiet)
    BY <1>1, <1>2, <1>4, <2>1 DEF Elsewhere, Running, Instr
  <2> QED
    BY <1>2, <2>1, <2>2 DEF Cut, Dead, MastersOK
<1> QED
  BY <1>5, <1>6, <1>7 DEF Next

LEMMA MineKept ==
  ASSUME Types, IInv, Next  PROVE Mine'
<1>1. /\ AtCall /\ AtPing /\ ThreadsOK /\ OverOne /\ Remote \cap Waits = {} /\ Main \in Actor
      /\ pc[Main] \in {"alive", "opts"} /\ ~ Excused => current = proxy[Main]
      /\ via[Main] # NoConn /\ ~ Excused => current = via[Main]
  BY TypeParts DEF IInv, Types, Mine, Remote, Waits, Actor
<1>2. SUFFICES ASSUME ~ Excused'
               PROVE  /\ pc'[Main] \in {"alive", "opts"} => current' = proxy'[Main]
                      /\ via'[Main] # NoConn => current' = via'[Main]
  BY DEF Mine
<1>3. pc[Main] # "free" => ~ Exit
  BY <1>1 DEF Exit, AtCall, Running
<1>4. pc[Main] # "free" => ~ Excused
  BY <1>2, <1>3, ExcusedStays
<1>5. CASE UNCHANGED <<proxy, via, current>> /\ (pc'[Main] = pc[Main] \/ pc'[Main] = "get")
  BY <1>1, <1>4, <1>5 DEF OverOne
<1>6. CASE MainStep
  <2>1. UNCHANGED <<proxy, via>> /\ (pc'[Main] = pc[Main] \/ pc'[Main] = "get")
    BY <1>1, <1>6, MainThreads
  <2>2. CASE pc[Main] = "free"
    BY <1>1, <2>1, <2>2 DEF OverOne
  <2>3. CASE pc[Main] # "free"
    <3>1. current' = current
      BY <1>1, <1>6, <2>3 DEF MainStep, Begin, Run, Restart, Ping, PingSucceeds, PingFails, Return, Exit,
         AtCall, AtPing, Running, masterVars, Goes, Remote
    <3> QED
      BY <1>5, <2>1, <3>1
  <2> QED
    BY <2>2, <2>3
<1>7. ASSUME NEW a \in Actor, ThreadStep(a)
      PROVE  /\ pc'[Main] \in {"alive", "opts"} => current' = proxy'[Main]
             /\ via'[Main] # NoConn => current' = via'[Main]
  <2>1. ThreadDoes(a)
    BY <1>1, <1>7, ThreadSteps
  <2>2. CASE a = Main
    <3>1. Assign(a) => pc'[Main] = "proxy" /\ UNCHANGED via /\ pc[Main] = "assign"
      BY <1>1, <2>2 DEF Assign, Goes, ThreadsOK
    <3>2. Connect(a) => pc'[Main] = "assign" /\ UNCHANGED via /\ pc[Main] = "connect"
      BY <1>1, <2>2 DEF Connect, Goes, ThreadsOK
    <3>3. pc[Main] # "exec" => via[Main] = NoConn
      BY <1>1 DEF OverOne
    <3> QED
      BY <1>1, <1>4, <2>1, <2>2, <3>1, <3>2, <3>3 DEF ThreadDoes, Left, Goings, masterVars
  <2>3. CASE a # Main
    <3>1. pc'[Main] = pc[Main] /\ proxy'[Main] = proxy[Main] /\ via'[Main] = via[Main]
      BY <1>1, <2>1, <2>3 DEF ThreadDoes, Others
    <3>2. CASE pc[Main] = "free"
      BY <1>1, <3>1, <3>2 DEF OverOne
    <3>3. CASE pc[Main] # "free"
      <4>1. ~ Assign(a)
        BY <1>2, <2>3, <3>3, LateAssign DEF Actor
      <4>2. current' = current
        BY <2>1, <4>1 DEF ThreadDoes, Connect, masterVars
      <4> QED
        BY <1>1, <1>4, <3>1, <3>3, <4>2
    <3> QED
      BY <3>2, <3>3
  <2> QED
    BY <2>2, <2>3
<1>8. CASE (\E i \in Conn : Notice(i) \/ Expire(i)) \/ GoDown \/ ComeUp
  BY <1>5, <1>8, WorldSteps DEF Elsewhere
<1> QED
  BY <1>6, <1>7, <1>8 DEF Next
-----------------------------------------------------------------------------
LEMMA Invariant == Spec => [](Types /\ IInv)
<1>1. Init => Types /\ IInv
  <2>1. Init => MastersOwned
    BY DEF Init, MastersOwned, Dead
  <2>2. Init => AtCall /\ AtPing /\ Before /\ OverOne
    BY DEF Init, AtCall, AtPing, Before, OverOne, Actor
  <2>3. Init => PingsOfCheck /\ Ready /\ Mine /\ Loud
    BY DEF Init, PingsOfCheck, Ready, Running, Mine, Loud, Actor
  <2> QED
    BY <2>1, <2>2, <2>3, InitTypes DEF IInv
<1>2. Types /\ IInv /\ [Next]_vars => (Types /\ IInv)'
  <2> SUFFICES ASSUME Types, IInv, [Next]_vars  PROVE (Types /\ IInv)'
    OBVIOUS
  <2>1. CASE Next
    <3>1. TypeOK' <=> HostOK' /\ CommandOK' /\ MastersOK' /\ ThreadsOK' /\ PingOK'
      BY DEF TypeOK, HostOK, CommandOK, MastersOK, ThreadsOK, PingOK
    <3>2. AtCall
      BY DEF IInv
    <3>3. Types'
      BY <2>1, <3>1, <3>2, HostKept, CommandKept, MastersKept, ThreadsKept, PingKept DEF Types, Bounded
    <3> QED
      BY <2>1, <3>3, OwnedKept, AtCallKept, AtPingKept, BeforeKept, OverOneKept, PingsOfCheckKept,
         ReadyKept, MineKept, LoudKept DEF IInv
  <2>2. CASE UNCHANGED vars
    <3> USE <2>2 DEF vars, hostVars, attrVars, commandVars, masterVars, threadVars, pingVars
    <3>1. TypeOK' /\ Bounded'
      BY DEF Types, TypeOK, Bounded
    <3>2. MastersOwned' /\ AtCall' /\ AtPing' /\ Before' /\ OverOne'
      BY DEF IInv, MastersOwned, AtCall, AtPing, Before, OverOne, Running, Instr
    <3>3. PingsOfCheck' /\ Ready' /\ Mine' /\ Loud'
      BY DEF IInv, PingsOfCheck, Ready, Mine, Loud, Excused, Running, Instr
    <3> QED
      BY <3>1, <3>2, <3>3 DEF Types, IInv
  <2> QED
    BY <2>1, <2>2
<1> QED
  BY <1>1, <1>2, PTL DEF Spec

(* The machine, the masters, the threads and the command keep their types; the
   instructions left are always such as there are. *)
THEOREM TypeCorrect == Spec => []TypeOK
<1>1. Types /\ IInv => TypeOK
  BY DEF Types
<1> QED
  BY <1>1, Invariant, PTL

(* No ssh master is left behind: one that lives is the shared one, or in the
   hands of the thread that has just started it, whatever the ping threads and
   the machine do. *)
THEOREM NoMasterLeft == Spec => []MastersOwned
<1>1. Types /\ IInv => MastersOwned
  BY DEF IInv
<1> QED
  BY <1>1, Invariant, PTL

(* A command other than check works over a master whose errors are shown and
   that nobody replaces, as long as no ping it has given up interferes: the
   resets after every wait are enough. *)
THEOREM OwnMaster == Spec => []Undisturbed
<1>1. Types /\ IInv => Undisturbed
  <2> SUFFICES ASSUME Types, IInv, NEW i \in Conn,
                      (pc[Main] \in {"alive", "opts"} /\ proxy[Main] = i) \/ via[Main] = i,
                      ~ Excused
               PROVE  current = i /\ ~ conn[i].quiet
    BY DEF Undisturbed, Excused
  <2>1. i # NoConn /\ Main \in Actor /\ Remote \cap Waits = {}
    BY MachineAssumption DEF Actor, Remote, Waits
  <2>2. pc[Main] # "free"
    BY <2>1 DEF IInv, OverOne
  <2>3. Running /\ Instr \notin Waits
    BY <2>1, <2>2 DEF IInv, AtCall
  <2>4. current = i
    BY <2>1 DEF IInv, Mine
  <2> QED
    BY <2>1, <2>3, <2>4 DEF IInv, Ready
<1> QED
  BY <1>1, Invariant, PTL
-----------------------------------------------------------------------------
(* A reboot that is waited for, on a prompt network.                       *)

\* The programs that are left in the course of reboot_sync.
Left1 == <<"reboot", "restart", "down", "up", "rm", "mv", "done">>
Left2 == <<"restart", "down", "up", "rm", "mv", "done">>
Left3 == <<"down", "up", "rm", "mv", "done">>
Left4 == <<"up", "rm", "mv", "done">>
Left5 == <<"rm", "mv", "done">>
Left6 == <<"mv", "done">>
Left7 == <<"done">>

\* The machine has gone down since the command began and will not again.
Passed == ~ wants /\ (host = "down" \/ boot > began)

\* It is up again.
Back == ~ wants /\ boot > began

\* The machine has not gone down since reboot(): the ping under way, of the
\* only thread there is, is on its way to success.
Intact ==
  /\ host = "up" /\ ~ missed
  /\ \A t \in Thread \ {pinger} : pc[t] = "free"
  /\ current # NoConn /\ conn[current].socket => conn[current].boot = boot
  /\ pinger # NoThread =>
       /\ pc[pinger] = "free" <=> answered
       /\ pc[pinger] = "alive" => proxy[pinger] = current
       /\ pc[pinger] = "assign" =>
            /\ proxy[pinger] # current
            /\ conn[proxy[pinger]].socket /\ conn[proxy[pinger]].boot = boot
       /\ pc[pinger] \in {"proxy", "opts"} => current # NoConn /\ conn[current].socket
       /\ pc[pinger] = "opts" => proxy[pinger] = current
       /\ pc[pinger] = "exec" =>
            /\ sboot[pinger] = boot
            /\ via[pinger] # NoConn => via[pinger] = current /\ conn[current].socket

\* Where reboot_sync stands.
Underway ==
  \/ program \in {Left1, Left2} /\ \A t \in Thread : pc[t] = "free"
  \/ program = Left3 /\ (Passed \/ Intact)
  \/ program = Left4 /\ Passed /\ (answered => boot > began)
  \/ program \in {Left5, Left6} /\ Back
  \/ program = Left7 /\ Back /\ "key" \in keys
  \/ program = <<>> /\ Back /\ keys = {"key", "done"}

Waited == prompt /\ began # 0 /\ Head(todo) = "reboot --wait"

HostInv ==
  /\ host = "down" => ~ wants
  /\ began <= boot
  /\ pinger = NoThread => ~ missed

RebootInv ==
  Waited =>
    /\ outcome = "none" => Underway
    /\ outcome = "ok" => Back /\ keys = {"key", "done"}

\* Two sequences and the one they make.
LEMMA Joined ==
  ASSUME NEW s \in Seq(Instruction), NEW t \in Seq(Instruction), NEW u \in Seq(Instruction),
         Len(s) = 4, Len(t) = 3, Len(u) = 7,
         u[1] = s[1], u[2] = s[2], u[3] = s[3], u[4] = s[4], u[5] = t[1], u[6] = t[2], u[7] = t[3]
  PROVE  s \o t = u
<1>1. /\ s \o t \in Seq(Instruction) /\ Len(s \o t) = Len(s) + Len(t)
      /\ \A i \in 1 .. Len(s) + Len(t) : (s \o t)[i] = IF i <= Len(s) THEN s[i] ELSE t[i - Len(s)]
  BY ConcatProperties, Zenon
<1>2. Len(s) + Len(t) = 7
  OBVIOUS
<1>3. \A i \in 1 .. 7 : (s \o t)[i] = IF i <= 4 THEN s[i] ELSE t[i - 4]
  BY <1>1, <1>2, Zenon
<1>4. ASSUME NEW i \in 1 .. 7 PROVE (s \o t)[i] = u[i]
  <2>1. (s \o t)[i] = IF i <= 4 THEN s[i] ELSE t[i - 4]
    BY <1>3
  <2>2. CASE i <= 4
    <3>1. i = 1 \/ i = 2 \/ i = 3 \/ i = 4
      BY <2>2
    <3> QED BY <2>1, <3>1
  <2>3. CASE ~ (i <= 4)
    <3>1. i = 5 \/ i = 6 \/ i = 7
      BY <2>3
    <3> QED BY <2>1, <3>1
  <2> QED BY <2>2, <2>3
<1>5. Len(s \o t) = Len(u) /\ \A i \in 1 .. Len(s \o t) : (s \o t)[i] = u[i]
  <2>1. Len(s \o t) = 7
    BY <1>1, <1>2, Zenon
  <2> QED BY <1>4, <2>1
<1> QED BY <1>1, <1>5, SeqEqual, Zenon

LEMMA Tails ==
  /\ Head(Left1) = "reboot" /\ Tail(Left1) = Left2
  /\ Head(Left2) = "restart" /\ Tail(Left2) = Left3
  /\ Head(Left3) = "down" /\ Tail(Left3) = Left4
  /\ Head(Left4) = "up" /\ Tail(Left4) = Left5
  /\ Head(Left5) = "rm" /\ Tail(Left5) = Left6
  /\ Head(Left6) = "mv" /\ Tail(Left6) = Left7
  /\ Head(Left7) = "done" /\ Tail(Left7) = <<>>
  /\ RebootSync = Left1
<1>1. RebootSync = Left1
  <2>1. SendKeys("UP") = <<"rm", "mv", "done">>
    BY DEF SendKeys
  <2>2. <<"reboot", "restart", "down", "up">> \o <<"rm", "mv", "done">> = Left1
    <3> DEFINE s == <<"reboot", "restart", "down", "up">>
               t == <<"rm", "mv", "done">>
    <3>1. s \in Seq(Instruction) /\ t \in Seq(Instruction) /\ Left1 \in Seq(Instruction)
      BY DEF Left1, Instruction, Remote, Waits
    <3>2. Len(s) = 4 /\ Len(t) = 3 /\ Len(Left1) = 7
      BY DEF Left1
    <3>3. /\ Left1[1] = s[1] /\ Left1[2] = s[2] /\ Left1[3] = s[3] /\ Left1[4] = s[4]
          /\ Left1[5] = t[1] /\ Left1[6] = t[2] /\ Left1[7] = t[3]
      BY DEF Left1
    <3> HIDE DEF s, t
    <3>4. s \o t = Left1
      BY <3>1, <3>2, <3>3, Joined
    <3> QED BY <3>4 DEF s, t
  <2> QED BY <2>1, <2>2 DEF RebootSync
<1> QED
  BY <1>1 DEF Left1, Left2, Left3, Left4, Left5, Left6, Left7

LEMMA Distinct ==
  /\ \A p \in {Left1, Left2, Left3, Left4, Left5, Left6, Left7} : p # <<>>
  /\ Left1 \notin {Left2, Left3, Left4, Left5, Left6, Left7}
  /\ Left2 \notin {Left3, Left4, Left5, Left6, Left7}
  /\ Left3 \notin {Left4, Left5, Left6, Left7}
  /\ Left4 \notin {Left5, Left6, Left7}
  /\ Left5 \notin {Left6, Left7} /\ Left6 # Left7
BY DEF Left1, Left2, Left3, Left4, Left5, Left6, Left7

\* The ping of an intact machine goes on.
LEMMA IntactPing ==
  ASSUME Types, prompt, Intact, pinger \in Thread, ThreadStep(pinger)
  PROVE  Intact'
<1> /\ ThreadsOK /\ MastersOK /\ pinger \in Actor /\ pinger # Main /\ NoConn \notin Conn
    /\ pinger # NoThread
  BY TypeParts, MachineAssumption DEF Types, Actor
<1> DEFINE t == pinger
<1>1. /\ UNCHANGED <<boot, host>> /\ UNCHANGED <<pinger, missed>>
      /\ \A a \in Thread \ {t} : pc'[a] = pc[a]
  <2> USE DEF hostVars, pingVars, ThreadsOK
  <2> Thread \subseteq Actor
    BY DEF Actor
  <2>1. CASE Read(t) \/ Connect(t) \/ Assign(t)
    BY <2>1 DEF Read, Connect, Assign, Goes
  <2>2. ASSUME Start(t) \/ (\E e : Raise(t, e)) \/ (\E ok : Leave(t, ok))
        PROVE  UNCHANGED <<pinger, missed>> /\ \A a \in Thread \ {t} : pc'[a] = pc[a]
    BY <2>2 DEF Start, Raise, Leave
  <2>3. CASE Alive(t) \/ Proxy(t) \/ Opts(t)
    BY <2>2, <2>3 DEF Alive, Proxy, Opts, Goes
  <2>4. CASE ConnectFails(t)
    BY <2>2, <2>4 DEF ConnectFails
  <2>5. CASE Exec(t) \/ ExecFails(t)
    BY <2>2, <2>5 DEF Exec, ExecFails
  <2> QED BY <2>1, <2>3, <2>4, <2>5 DEF ThreadStep
<1>2. \A a \in Thread \ {t} : pc'[a] = "free"
  BY <1>1 DEF Intact
<1>3. \A i \in Conn : conn[i].socket /\ conn[i].boot = boot => Live(i)
  BY DEF Intact, Live
<1> USE DEF Intact, ThreadsOK, MastersOK
<1>4. CASE Read(t)
  BY <1>1, <1>2, <1>4 DEF Read, Goes, masterVars, pingVars
<1>5. ASSUME Start(t), current \in Conn, proxy[t] = current, UNCHANGED masterVars,
             conn[current].socket, pc[t] # "free"
      PROVE  Intact'
  BY <1>1, <1>2, <1>5 DEF Start, masterVars, pingVars
<1>6. CASE Alive(t)
  <2>1. proxy[t] = current /\ current \in Conn
    BY <1>6 DEF Alive, Types, Bounded
  <2>2. CASE conn[current].socket
    BY <1>5, <1>6, <2>1, <2>2 DEF Alive
  <2>3. CASE ~ conn[current].socket
    BY <1>1, <1>2, <1>6, <2>1, <2>3 DEF Alive, Goes, masterVars, pingVars
  <2> QED BY <2>2, <2>3
<1>7. CASE Connect(t)
  <2>1. PICK i \in Unused : /\ conn' = [conn EXCEPT ![i] = [socket |-> TRUE, boot |-> boot,
                                                          quiet |-> t # Main]]
                           /\ proxy' = [proxy EXCEPT ![t] = i]
    BY <1>7 DEF Connect
  <2>2. i \in Conn /\ i # current
    BY DEF Unused
  <2>3. /\ pc[t] = "connect" /\ pc'[t] = "assign" /\ proxy'[t] = i /\ UNCHANGED <<current, answered>>
        /\ conn'[i].socket /\ conn'[i].boot = boot
    BY <1>7, <2>1, <2>2 DEF Connect, Goes, pingVars
  <2>4. current # NoConn => conn'[current] = conn[current]
    BY <2>1, <2>2
  <2> QED BY <1>1, <1>2, <2>2, <2>3, <2>4
<1>8. CASE ConnectFails(t)
  BY <1>8 DEF ConnectFails
<1>9. CASE Assign(t)
  <2>1. /\ proxy[t] \in Conn /\ proxy[t] # current /\ conn[proxy[t]].socket
        /\ conn[proxy[t]].boot = boot
    BY <1>9 DEF Assign, Goes, Types, Bounded
  <2>2. current' = proxy[t] /\ conn'[current'] = conn[proxy[t]]
    BY <1>9, <2>1 DEF Assign, Cut, Collected
  <2> QED BY <1>1, <1>2, <1>9, <2>1, <2>2 DEF Assign, Goes, pingVars
<1>10. CASE Proxy(t)
  BY <1>1, <1>2, <1>10 DEF Proxy, Goes, masterVars, pingVars
<1>11. CASE Opts(t)
  BY <1>5, <1>11 DEF Opts
<1>12. CASE Exec(t)
  BY <1>1, <1>2, <1>12 DEF Exec, Leave, Sets, masterVars
<1>13. CASE ExecFails(t)
  BY <1>13 DEF ExecFails, Connected
<1> QED
  BY <1>4, <1>6, <1>7, <1>8, <1>9, <1>10, <1>11, <1>12, <1>13 DEF ThreadStep

\* Only what is dead, or used by nobody, is noticed or expires.
LEMMA IntactCut ==
  ASSUME Types, Intact, NEW i \in Conn, Notice(i) \/ Expire(i)
  PROVE  Intact'
<1> /\ MastersOK /\ NoConn \notin Conn /\ Thread \subseteq Actor
    /\ PingOK
  BY TypeParts, MachineAssumption DEF Types, Actor
<1>1. /\ conn' = Cut({i}) /\ UNCHANGED <<boot, host, current, pc, proxy, via, sboot>>
      /\ UNCHANGED pingVars
  BY DEF Notice, Expire, hostVars, threadVars
<1>2. \A j \in Conn \ {i} : conn'[j] = conn[j]
  BY <1>1 DEF Cut
<1>3. ~ conn'[i].socket
  BY <1>1 DEF Cut, Dead
<1>4. CASE Expire(i)
  <2>1. \A t \in Thread : pc[t] = "free"
    BY <1>4 DEF Expire
  <2> QED BY <1>1, <1>2, <1>3, <2>1 DEF Intact, pingVars, MastersOK, PingOK
<1>5. CASE Notice(i)
  <2>1. conn[i].socket /\ conn[i].boot # boot
    BY <1>5 DEF Notice, Live, Intact
  <2>2. /\ current # NoConn /\ conn[current].socket => current # i
        /\ pinger # NoThread /\ pc[pinger] = "assign" => proxy[pinger] # i /\ proxy[pinger] \in Conn
    BY <2>1 DEF Intact, Types, Bounded, PingOK
  <2>3. current # NoConn => current \in Conn
    BY DEF MastersOK
  <2>4. pinger # NoThread => pinger \in Actor
    BY DEF PingOK
  <2>5. via[pinger] # NoConn /\ pinger # NoThread /\ pc[pinger] = "exec" =>
          current # NoConn /\ conn[current].socket
    BY DEF Intact
  <2> QED BY <1>1, <1>2, <1>3, <2>1, <2>2, <2>3, <2>4, <2>5 DEF Intact, pingVars
<1> QED BY <1>4, <1>5

\* A wait that goes on, between two commands or with another command.
LEMMA HostStep == ASSUME Types, IInv, HostInv, Next PROVE HostInv'
<1> USE DEF HostInv
<1>1. boot \in Nat /\ began \in Nat /\ boot # 0 /\ HostOK
  BY TypeParts, MachineAssumption DEF Types, HostOK, CommandOK
<1>2. CASE MainStep
  <2>1. UNCHANGED <<host, wants, boot>>
    BY <1>2 DEF MainStep, Begin, Run, Restart, Ping, PingSucceeds, PingFails, Return, Exit, hostVars
  <2>2. began' \in {0, boot, began}
    BY <1>2 DEF MainStep, Begin, Run, Restart, Ping, PingSucceeds, PingFails, Return, Exit,
                commandVars
  <2>3. pinger' = NoThread => ~ missed'
    <3>1. CASE Ping
      <4>1. PICK t \in Thread : pinger' = t
        BY <3>1 DEF Ping
      <4> QED BY <4>1, MachineAssumption
    <3> QED BY <1>2, <3>1 DEF MainStep, Begin, Run, Restart, PingSucceeds, PingFails, Return, Exit,
                              PingEnds, pingVars
  <2> QED BY <1>1, <2>1, <2>2, <2>3
<1>3. ASSUME NEW a \in Actor, ThreadStep(a) PROVE HostInv'
  <2>1. UNCHANGED <<host, boot>> /\ (wants' = wants \/ host = "up")
    BY <1>3 DEF ThreadStep, Read, Alive, Connect, ConnectFails, Assign, Proxy, Opts, Exec, ExecFails,
                Effect, Connected, hostVars
  <2>2. UNCHANGED <<began, pinger, missed>>
    <3>1. ASSUME Start(a) \/ (\E e : Raise(a, e)) \/ (\E ok : Leave(a, ok))
          PROVE  UNCHANGED <<began, pinger, missed>>
      BY <3>1 DEF Start, Raise, Leave, After, commandVars, pingVars
    <3> QED BY <1>3, <3>1 DEF ThreadStep, Read, Alive, Connect, ConnectFails, Assign, Proxy, Opts, Exec,
                              ExecFails, Goes, commandVars, pingVars
  <2> QED BY <1>1, <2>1, <2>2 DEF HostOK
<1>4. CASE \E i \in Conn : Notice(i) \/ Expire(i)
  BY <1>4 DEF Notice, Expire, hostVars, commandVars, pingVars
<1>5. CASE GoDown
  <2>1. /\ ~ wants' /\ UNCHANGED <<began, boot, pinger>> /\ missed' = (pinger # NoThread)
    BY <1>5 DEF GoDown, commandVars
  <2> QED BY <2>1
<1>6. CASE ComeUp
  <2>1. /\ host' = "up" /\ boot' = boot + 1 /\ UNCHANGED <<began, pinger, missed>>
    BY <1>6 DEF ComeUp, commandVars, pingVars
  <2> QED BY <1>1, <2>1
<1> QED BY <1>2, <1>3, <1>4, <1>5, <1>6 DEF Next

\* What Main does in reboot_sync.
LEMMA RebootMain ==
  ASSUME Types, IInv, HostInv, RebootInv, MainStep PROVE RebootInv'
<1> USE Tails, Distinct
<1> SUFFICES ASSUME Waited' PROVE (outcome' = "none" => Underway')
                                  /\ (outcome' = "ok" => (Back /\ keys = {"key", "done"})')
  BY DEF RebootInv
<1>0. /\ boot \in Nat /\ began \in Nat /\ boot # 0 /\ HostOK /\ PingOK /\ ThreadsOK
      /\ Thread \subseteq Actor /\ Main \in Actor /\ Main \notin Thread /\ NoThread \notin Thread
      /\ UNCHANGED hostVars
  <2>1. UNCHANGED hostVars
    BY DEF MainStep, Begin, Run, Restart, Ping, PingSucceeds, PingFails, Return, Exit
  <2> QED BY <2>1, TypeParts, MachineAssumption DEF Types, HostOK, CommandOK, Actor
<1>h. UNCHANGED <<prompt, host, wants, boot, keys>>
  BY <1>0 DEF hostVars
<1>1. CASE Begin
  <2>1. /\ \A t \in Thread : pc'[t] = "free"
        /\ todo' = todo /\ program' = Program(Head(todo)) /\ outcome' = "none"
    BY <1>0, <1>1 DEF Begin, IInv, Before, threadVars
  <2>2. program' = Left1
    BY <2>1 DEF Waited, Program
  <2> QED BY <2>1, <2>2 DEF Underway
<1>2. CASE Exit
  BY <1>2 DEF Exit, Waited
<1>3. CASE ~ Begin /\ ~ Exit
  <2>1. Waited /\ UNCHANGED began
    BY <1>3, <1>h DEF Waited, MainStep, Run, Restart, Ping, PingSucceeds, PingFails, Return, commandVars
  <2>2. outcome = "none" => Underway
    BY <2>1 DEF RebootInv
  <2>3. CASE Run
    <3>1. UNCHANGED <<program, outcome, answered>> /\ Instr \in Remote /\ outcome = "none"
          /\ \A t \in Thread : pc'[t] = pc[t]
      BY <1>0, <2>3 DEF Run, Goes, Running, commandVars, pingVars, ThreadsOK
    <3>2. program # Left3
      BY <3>1 DEF Instr, Remote
    <3> QED BY <1>h, <2>1, <2>2, <3>1, <3>2 DEF Underway, Passed, Back
  <2>4. CASE Restart
    <3>1. /\ program = Left2 /\ program' = Left3 /\ \A t \in Thread : pc[t] = "free"
      BY <2>2, <2>4 DEF Restart, Running, Instr, Underway
    <3>2. pinger = NoThread /\ ~ missed
      BY <2>4 DEF Restart, IInv, AtPing, Waits, HostInv
    <3>3. current' = NoConn /\ UNCHANGED <<pc, pinger, missed, answered>>
      BY <2>4 DEF Restart, Reset, Drop, threadVars, pingVars
    <3>f. outcome' = "none"
      BY <2>4 DEF Restart, Running
    <3>4. CASE host = "up"
      <4>1. Intact'
        BY <1>h, <3>1, <3>2, <3>3, <3>4 DEF Intact
      <4> QED BY <3>1, <3>f, <4>1 DEF Underway
    <3>5. CASE host = "down"
      <4>1. Passed'
        BY <1>h, <3>5 DEF HostInv, Passed
      <4> QED BY <3>1, <3>f, <4>1 DEF Underway
    <3> QED BY <1>0, <3>4, <3>5 DEF HostOK
  <2>5. CASE Ping
    <3>1. PICK t \in Thread : Goes(t, "free", "get") /\ pinger' = t
      BY <2>5 DEF Ping
    <3>2. /\ UNCHANGED <<program, outcome, conn, current, proxy, via, sboot>> /\ ~ answered'
          /\ (missed' <=> host = "down") /\ outcome = "none" /\ Instr \in Waits /\ pinger = NoThread
      BY <2>5 DEF Ping, Running, commandVars, masterVars
    <3>3. program \in {Left3, Left4}
      <4>1. program # <<>>
        BY <2>5 DEF Ping, Running
      <4> QED BY <2>2, <3>2, <4>1 DEF Underway, Instr, Waits
    <3>4. pc'[t] = "get" /\ \A u \in Thread \ {t} : pc'[u] = pc[u]
      BY <1>0, <3>1 DEF Goes, ThreadsOK
    <3>5. Intact => Intact'
      <4> SUFFICES ASSUME Intact PROVE Intact'
        OBVIOUS
      <4>1. \A u \in Thread : pc[u] = "free"
        BY <1>0, <3>2 DEF Intact
      <4>2. ~ missed' /\ pc'[pinger'] = "get"
        BY <3>1, <3>2, <3>4 DEF Intact
      <4>3. \A u \in Thread \ {pinger'} : pc'[u] = "free"
        BY <3>1, <3>4, <4>1
      <4> QED BY <1>h, <3>2, <4>2, <4>3 DEF Intact
    <3> QED BY <1>h, <2>1, <2>2, <3>2, <3>3, <3>5 DEF Underway, Passed, Back
  <2>6. CASE PingSucceeds
    <3>1. /\ Instr \in Waits /\ outcome = "none" /\ outcome' = "none" /\ pinger # NoThread /\ answered
          /\ pinger' = NoThread /\ ~ answered' /\ ~ missed' /\ UNCHANGED <<pc, proxy, via, sboot>>
          /\ program # <<>>
      BY <2>6 DEF PingSucceeds, PingEnds, Running, IInv, AtPing, threadVars
    <3>2. CASE program = Left3
      <4>1. Instr = "down"
        BY <3>2 DEF Instr
      <4>2. program' = program /\ UNCHANGED <<current, conn>>
        BY <2>6, <4>1 DEF PingSucceeds, masterVars
      <4>3. Intact => Intact'
        BY <1>0, <1>h, <3>1, <4>2 DEF Intact, PingOK
      <4> QED BY <1>h, <2>1, <2>2, <3>1, <3>2, <4>2, <4>3 DEF Underway, Passed
    <3>3. CASE program = Left4
      <4>1. Instr = "up" /\ program' = Left5
        BY <2>6, <3>3 DEF PingSucceeds, Instr
      <4> QED BY <1>h, <2>1, <2>2, <3>1, <3>3, <4>1 DEF Underway, Passed, Back
    <3> QED BY <2>2, <3>1, <3>2, <3>3 DEF Underway, Instr, Waits
  <2>7. CASE PingFails
    <3>1. /\ Instr \in Waits /\ outcome = "none" /\ outcome' = "none" /\ pinger # NoThread /\ ~ answered
          /\ ~ answered' /\ TimesOut /\ prompt /\ program # <<>>
      BY <2>1, <2>7 DEF PingFails, PingEnds, Running, IInv, AtPing, Waited
    <3>2. CASE program = Left3
      <4>1. ~ Intact
        <5> SUFFICES ASSUME Intact PROVE FALSE
          OBVIOUS
        <5>1. pc[pinger] = "exec" => Connected(pinger)
          BY <3>1 DEF Intact, Connected
        <5> QED BY <3>1, <5>1 DEF Intact, TimesOut
      <4>2. program' = Left4
        BY <2>7, <3>2 DEF PingFails, Instr
      <4> QED BY <1>h, <2>1, <2>2, <3>1, <3>2, <4>1, <4>2 DEF Underway, Passed
    <3>3. CASE program = Left4
      <4>1. program' = Left4
        BY <2>7, <3>3 DEF PingFails, Instr
      <4> QED BY <1>h, <2>1, <2>2, <3>1, <3>3, <4>1 DEF Underway, Passed
    <3> QED BY <2>2, <3>1, <3>2, <3>3 DEF Underway, Instr, Waits
  <2>8. CASE Return
    BY <1>h, <2>1, <2>2, <2>8 DEF Return, Underway, Back
  <2> QED BY <1>3, <2>3, <2>4, <2>5, <2>6, <2>7, <2>8 DEF MainStep
<1> QED BY <1>1, <1>2, <1>3

\* What Main's calls do.
LEMMA RebootCall ==
  ASSUME Types, IInv, HostInv, RebootInv, ThreadStep(Main) PROVE RebootInv'
<1> USE Tails, Distinct
<1> SUFFICES ASSUME Waited' PROVE (outcome' = "none" => Underway')
                                  /\ (outcome' = "ok" => (Back /\ keys = {"key", "done"})')
  BY DEF RebootInv
<1> Thread \subseteq Actor /\ Main \in Actor /\ Main \notin Thread /\ HostOK
  BY TypeParts, MachineAssumption DEF Types, Actor
<1>0. ThreadDoes(Main)
  BY ThreadSteps DEF IInv
<1>1. pc[Main] # "free" /\ UNCHANGED <<todo, began>> /\ \A t \in Thread : pc'[t] = pc[t]
  BY <1>0 DEF ThreadDoes, Others
<1>2. Running /\ Instr \in Remote
  BY <1>1 DEF IInv, AtCall
<1>3. \/ UNCHANGED <<hostVars, program, outcome>>
      \/ outcome' = "failed"
      \/ Exec(Main) \/ ExecFails(Main)
      \/ After(FALSE) /\ Instr = "loadavg"
  <2>1. CASE Read(Main) \/ Connect(Main) \/ Assign(Main)
    BY <2>1 DEF Read, Connect, Assign, commandVars
  <2>2. ASSUME NEW e, Raise(Main, e)
        PROVE  outcome' = "failed" \/ (After(FALSE) /\ Instr = "loadavg")
    BY <2>2 DEF Raise
  <2>3. CASE Alive(Main)
    BY <2>2, <2>3 DEF Alive, Start, commandVars
  <2>4. CASE Proxy(Main)
    BY <2>2, <2>4 DEF Proxy, commandVars
  <2>5. CASE Opts(Main)
    BY <2>2, <2>5 DEF Opts, Start, commandVars
  <2>6. CASE ConnectFails(Main)
    BY <2>2, <2>6 DEF ConnectFails, commandVars
  <2> QED BY <2>1, <2>3, <2>4, <2>5, <2>6 DEF ThreadStep
<1>4. UNCHANGED prompt
  BY DEF hostVars, Exec, ExecFails, Effect, ThreadStep, Read, Alive, Connect, ConnectFails, Assign,
         Proxy, Opts
<1>5. Waited /\ Underway
  BY <1>1, <1>2, <1>4 DEF Waited, RebootInv, Running
<1>6. program \in {Left1, Left5, Left6, Left7} /\ Instr # "loadavg"
  BY <1>2, <1>5 DEF Running, Underway, Instr, Remote
<1>7. CASE UNCHANGED <<hostVars, program, outcome>>
  <2>1. outcome' = "none" /\ UNCHANGED <<program, boot, wants, keys>>
    BY <1>2, <1>7 DEF hostVars, Running
  <2>2. \/ program = Left1 /\ \A t \in Thread : pc'[t] = "free"
        \/ program \in {Left5, Left6} /\ Back
        \/ program = Left7 /\ Back /\ "key" \in keys
    <3>1. program = Left1 => \A t \in Thread : pc'[t] = "free"
      BY <1>1, <1>5 DEF Underway
    <3>2. program \in {Left5, Left6} => Back
      BY <1>5 DEF Underway
    <3>3. program = Left7 => Back /\ "key" \in keys
      BY <1>5 DEF Underway
    <3> QED BY <1>6, <3>1, <3>2, <3>3
  <2>3. Back => Back'
    BY <1>1, <2>1 DEF Back
  <2> QED BY <2>1, <2>2, <2>3 DEF Underway
<1>8. CASE Exec(Main)
  <2>1. Effect /\ After(TRUE)
    BY <1>8 DEF Exec, Leave
  <2>2. /\ outcome' = "none" /\ program' = Tail(program) /\ boot' = boot
        /\ wants' = (wants \/ Instr = "reboot")
    BY <1>2, <2>1 DEF After, Running, Effect
  <2>3. CASE program = Left1
    BY <1>1, <1>5, <2>2, <2>3 DEF Underway
  <2>4. Instr # "reboot" => wants' = wants
    BY <2>2 DEF HostOK
  <2>5. CASE program = Left5
    BY <1>1, <1>5, <2>2, <2>4, <2>5 DEF Underway, Back, Instr
  <2>6. CASE program = Left6
    <3>1. Instr = "mv"
      BY <2>6 DEF Instr
    <3>2. "key" \in keys'
      BY <2>1, <3>1 DEF Effect
    <3> QED BY <1>1, <1>5, <2>2, <2>4, <2>6, <3>1, <3>2 DEF Underway, Back
  <2>7. CASE program = Left7
    <3>1. Instr = "done"
      BY <2>7 DEF Instr
    <3>2. "key" \in keys
      BY <1>5, <2>7 DEF Underway
    <3>3. keys' = {"key", "done"}
      BY <2>1, <3>1, <3>2 DEF Effect, HostOK
    <3> QED BY <1>1, <1>5, <2>2, <2>4, <2>7, <3>1, <3>3 DEF Underway, Back
  <2> QED BY <1>6, <2>3, <2>5, <2>6, <2>7
<1>9. CASE ExecFails(Main)
  <2>1. After(FALSE)
    BY <1>9 DEF ExecFails, Leave
  <2>2. CASE program = Left1
    <3>1. Instr = "reboot" /\ outcome = "none"
      BY <1>2, <2>2 DEF Instr, Running
    <3>2. outcome' = "none" /\ program' = Left2
      BY <2>1, <2>2, <3>1 DEF After
    <3> QED BY <1>1, <1>5, <2>2, <3>2 DEF Underway
  <2>3. CASE program # Left1
    <3>1. Instr # "reboot"
      BY <1>6, <2>3 DEF Instr
    <3>2. outcome' = "failed"
      BY <1>6, <2>1, <3>1 DEF After
    <3> QED BY <3>2
  <2> QED BY <2>2, <2>3
<1> QED BY <1>3, <1>6, <1>7, <1>8, <1>9

\* What the ping threads do.
LEMMA RebootPing ==
  ASSUME Types, IInv, HostInv, RebootInv, NEW a \in Thread, ThreadStep(a) PROVE RebootInv'
<1> USE Distinct
<1> SUFFICES ASSUME Waited' PROVE (outcome' = "none" => Underway')
                                  /\ (outcome' = "ok" => (Back /\ keys = {"key", "done"})')
  BY DEF RebootInv
<1> a # Main /\ a \in Actor
  BY MachineAssumption DEF Actor
<1>1. pc[a] # "free" /\ UNCHANGED <<todo, began, program, outcome>>
  BY ThreadSteps DEF IInv, ThreadDoes
<1>2. UNCHANGED hostVars
  BY DEF Exec, ExecFails, ThreadStep, Read, Alive, Connect, ConnectFails, Assign, Proxy, Opts
<1>3. answered' => answered \/ Exec(a)
  <2>1. ASSUME Start(a) \/ (\E e : Raise(a, e)) PROVE UNCHANGED answered
    BY <2>1 DEF Start, Raise, pingVars
  <2>2. CASE ExecFails(a)
    BY <2>2 DEF ExecFails, Leave, Sets
  <2>3. CASE Read(a) \/ Connect(a) \/ Assign(a)
    BY <2>3 DEF Read, Connect, Assign, pingVars
  <2>4. CASE Alive(a)
    BY <2>1, <2>4 DEF Alive, pingVars
  <2>5. CASE Proxy(a)
    BY <2>1, <2>5 DEF Proxy, pingVars
  <2>6. CASE Opts(a)
    BY <2>1, <2>6 DEF Opts
  <2>7. CASE ConnectFails(a)
    BY <2>1, <2>7 DEF ConnectFails
  <2> QED BY <2>2, <2>3, <2>4, <2>5, <2>6, <2>7 DEF ThreadStep
<1>4. UNCHANGED <<prompt, host, boot, wants, keys>>
  BY <1>2 DEF hostVars
<1>5. Waited
  BY <1>1, <1>4 DEF Waited
<1>6. CASE outcome = "ok"
  BY <1>1, <1>4, <1>5, <1>6 DEF RebootInv, Back
<1>7. CASE outcome = "none"
  <2>1. Underway
    BY <1>5, <1>7 DEF RebootInv
  <2>2. CASE program = Left3 /\ Intact
    <3>1. a = pinger
      BY <1>1, <2>2 DEF Intact
    <3>2. Intact'
      BY <1>5, <2>2, <3>1, IntactPing DEF Waited
    <3> QED BY <1>1, <1>7, <2>2, <3>2 DEF Underway
  <2>3. CASE program = Left4 /\ Passed /\ (answered => boot > began)
    <3>1. Exec(a) => boot > began
      BY <2>3 DEF Exec, Connected, Passed
    <3> QED BY <1>1, <1>3, <1>4, <1>7, <2>3, <3>1 DEF Underway, Passed
  <2> QED BY <1>1, <1>4, <1>7, <2>1, <2>2, <2>3 DEF Underway, Passed, Back
<1> QED BY <1>1, <1>6, <1>7

\* What happens to the machine and its connections.
LEMMA RebootHost ==
  ASSUME Types, IInv, HostInv, RebootInv,
         (\E i \in Conn : Notice(i) \/ Expire(i)) \/ GoDown \/ ComeUp
  PROVE  RebootInv'
<1> USE Distinct
<1> SUFFICES ASSUME Waited' PROVE (outcome' = "none" => Underway')
                                  /\ (outcome' = "ok" => (Back /\ keys = {"key", "done"})')
  BY DEF RebootInv
<1>1. /\ UNCHANGED <<prompt, todo, program, outcome, began, pc>>
      /\ boot \in Nat /\ began \in Nat
  <2>1. boot \in Nat /\ began \in Nat
    BY TypeParts, MachineAssumption DEF Types, HostOK, CommandOK
  <2>2. UNCHANGED <<todo, program, outcome, began, pc>>
    BY WorldSteps DEF Elsewhere
  <2>3. UNCHANGED prompt
    BY DEF Notice, Expire, GoDown, ComeUp, hostVars
  <2> QED BY <2>1, <2>2, <2>3
<1>a. UNCHANGED answered
  BY DEF Notice, Expire, GoDown, ComeUp, pingVars
<1>2. Waited
  BY <1>1 DEF Waited
<1>3. CASE \E i \in Conn : Notice(i) \/ Expire(i)
  <2>1. Intact => Intact'
    BY <1>3, IntactCut
  <2>2. UNCHANGED <<host, boot, wants, keys>>
    BY <1>3 DEF Notice, Expire, hostVars
  <2> QED BY <1>1, <1>a, <1>2, <2>1, <2>2 DEF RebootInv, Underway, Passed, Back
<1>4. CASE GoDown
  <2>1. wants /\ ~ wants' /\ host' = "down"
    BY <1>4 DEF GoDown
  <2> QED BY <1>1, <1>a, <1>2, <2>1 DEF RebootInv, Underway, Passed, Back
<1>5. CASE ComeUp
  <2>1. host = "down" /\ boot' = boot + 1 /\ UNCHANGED <<wants, keys>>
    BY <1>5 DEF ComeUp
  <2>2. boot' > began
    BY <1>1, <2>1 DEF HostInv
  <2> QED BY <1>1, <1>a, <1>2, <2>1, <2>2 DEF RebootInv, Underway, Passed, Back, Intact
<1> QED BY <1>3, <1>4, <1>5

LEMMA Reboots == Spec => [](HostInv /\ RebootInv)
<1>1. Init => HostInv /\ RebootInv
  <2> SUFFICES ASSUME Init PROVE HostInv /\ RebootInv
    OBVIOUS
  <2>1. began = 0 /\ boot = 1 /\ wants = FALSE /\ missed = FALSE
    BY DEF Init
  <2> QED BY <2>1 DEF HostInv, RebootInv, Waited
<1>2. Types /\ IInv /\ HostInv /\ RebootInv /\ [Next]_vars => (HostInv /\ RebootInv)'
  <2> SUFFICES ASSUME Types, IInv, HostInv, RebootInv, [Next]_vars PROVE (HostInv /\ RebootInv)'
    OBVIOUS
  <2>1. CASE Next
    BY <2>1, HostStep, RebootMain, RebootCall, RebootPing, RebootHost DEF Next, Actor
  <2>2. CASE UNCHANGED vars
    <3> USE <2>2 DEF vars, hostVars, attrVars, commandVars, masterVars, threadVars, pingVars
    <3>1. HostInv'
      BY DEF HostInv
    <3>2. Waited' = Waited /\ (Intact => Intact')
      BY DEF Waited, Intact
    <3>3. RebootInv'
      BY <3>2 DEF RebootInv, Underway, Passed, Back
    <3> QED BY <3>1, <3>3
  <2> QED BY <2>1, <2>2
<1> QED BY <1>1, <1>2, Invariant, PTL DEF Spec

(* On a network where a machine that is up answers a ping in time, a
   reboot_sync that returns has seen the machine go down and come up, and has
   sent the keys to the boot it is in: neither a ping that succeeded before the
   machine went, nor a master of the earlier boot, nor a reboot asked for by an
   earlier command can deceive it. *)
THEOREM KeysArrive == Spec => []KeysDelivered
<1>1. Types /\ IInv /\ HostInv /\ RebootInv => KeysDelivered
  <2> SUFFICES ASSUME Types, IInv, HostInv, RebootInv, prompt, outcome = "ok",
                      Head(todo) = "reboot --wait"
               PROVE  boot > began /\ keys = {"key", "done"}
    BY DEF KeysDelivered
  <2>1. began # 0
    BY DEF IInv, Before
  <2> QED BY <2>1 DEF RebootInv, Waited, Back
<1> QED BY <1>1, Invariant, Reboots, PTL
=============================================================================
