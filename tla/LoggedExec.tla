----------------------------- MODULE LoggedExec -----------------------------
(***************************************************************************)
(* A command run as a child process, with its output captured or logged    *)
(* (nixops/util.py: logged_exec; nixops/logger.py).  Several threads do it *)
(* at a time, each for its machine, over one Logger: a line of the log may *)
(* stay open while a machine's output goes on, and the others' have to     *)
(* start one of their own.                                                 *)
(*                                                                         *)
(* Output is a sequence of characters, of which a reader may see one of    *)
(* two bytes in halves.  Pipes hold Cap of them.  A child may leave a      *)
(* process behind that keeps its pipes.                                    *)
(***************************************************************************)
EXTENDS Integers, Sequences, FiniteSets

CONSTANTS
  Call,         \* the threads, each with one call of logged_exec
  Cap,          \* what a pipe holds
  Char,         \* the characters: "newline", "half" of one, what "helper" writes, others
  Setups,       \* the commands there are
  NoPrefix, Nobody

\* What a child does: it writes, reads, or leaves a process behind.
ChildSteps == ({"out", "err"} \X Char) \cup {<<"in">>, <<"fork">>}

Kinds ==
  [asks : BOOLEAN, capture : BOOLEAN, quiet : BOOLEAN, check : BOOLEAN, input : Nat,
   steps : Seq(ChildSteps)]

Question == "question"

ASSUME LoggedExecAssumption ==
  /\ Cap \in Nat \ {0} /\ {NoPrefix, Nobody, Question} \cap Call = {}
  /\ "helper" \in Char /\ Setups \subseteq [Call -> Kinds]

VARIABLES
  kind,         \* of each call: asks (it is preceded by a question), capture,
                \* quiet (no capture_stderr), check, input, steps of its child
  at,           \* where it is
  steps, child, \* what is left of its child's program, whether that runs
  helper,       \* the process the child has left behind
  pipe,         \* what is in the pipes for the captured and the logged output
  feed, input,  \* stdin_string: what is left to write, what is in its pipe
  fds, ready,   \* the pipes still open, what select has returned
  stdout, data, \* what has been captured, the piece that is being logged
  at_new_line,
  wrote, shown, \* history: what has gone into the pipes, what has been logged
  late,         \* history: written after select had timed out
  last, lock,   \* Logger._last_log_prefix, _log_lock
  line, lines   \* who has written on the last line of the log, on the others

childVars == <<steps, child, helper>>
readVars == <<fds, ready, stdout, data, at_new_line>>
logVars == <<last, line, lines>>
execVars ==
  <<kind, at, childVars, pipe, feed, input, readVars, wrote, shown, late, lock, logVars>>

Ended == {"done", "raised", "declined"}

ExecInit ==
  /\ kind \in Setups
  /\ at = [c \in Call |-> IF kind[c].asks THEN "confirm" ELSE "spawn"]
  /\ steps = [c \in Call |-> kind[c].steps]
  /\ child = [c \in Call |-> "none"] /\ helper = [c \in Call |-> "none"]
  /\ pipe = [c \in Call |-> [cap |-> <<>>, log |-> <<>>]]
  /\ feed = [c \in Call |-> kind[c].input] /\ input = [c \in Call |-> 0]
  /\ fds = [c \in Call |-> IF kind[c].capture THEN {"cap", "log"} ELSE {"log"}]
  /\ ready = [c \in Call |-> {}] /\ stdout = [c \in Call |-> <<>>]
  /\ data = [c \in Call |-> <<>>] /\ at_new_line = [c \in Call |-> TRUE]
  /\ wrote = [c \in Call |-> [cap |-> <<>>, log |-> <<>>]]
  /\ shown = [c \in Call |-> <<>>] /\ late = [c \in Call |-> FALSE]
  /\ last = NoPrefix /\ lock = Nobody /\ line = {} /\ lines = {}

Goes(c, from, to) == at[c] = from /\ at' = [at EXCEPT ![c] = to]
-----------------------------------------------------------------------------
(* Logger.  c stands for the prefix of its machine.                        *)

FaultContinues(c) == last # NoPrefix

Continues(c) == last = c

\* What stands on the last line once another prefix's open line is closed.
Fresh(c) == IF last = NoPrefix \/ Continues(c) THEN line ELSE {}
Closed(c) == IF last = NoPrefix \/ Continues(c) THEN lines ELSE lines \cup {line}

log(c) ==
  /\ lock = Nobody
  /\ lines' = lines \cup (IF last = NoPrefix THEN {line \cup {c}} ELSE {line, {c}})
  /\ line' = {} /\ last' = NoPrefix

log_start(c) ==
  /\ lock = Nobody
  /\ line' = Fresh(c) \cup {c} /\ lines' = Closed(c) /\ last' = c

log_end(c, msg) ==
  /\ lock = Nobody
  /\ last' = NoPrefix
  /\ IF ~ Continues(c) /\ msg = <<>>
       THEN line' = Fresh(c) /\ lines' = Closed(c)
       ELSE line' = {} /\ lines' = Closed(c) \cup {Fresh(c) \cup {c}}

\* confirm_once keeps the lock until there is an answer.
Confirm(c) ==
  /\ Goes(c, "confirm", "answer")
  /\ lock = Nobody /\ lock' = c
  /\ last' = NoPrefix
  /\ line' = (IF last = NoPrefix THEN line ELSE {}) \cup {Question}
  /\ lines' = IF last = NoPrefix THEN lines ELSE lines \cup {line}
  /\ UNCHANGED <<kind, childVars, pipe, feed, input, readVars, wrote, shown, late>>

\* Yes, no, anything else; the user or the autoresponse ends the line.  The
\* end of stdin means no, and does not.
Answer(c) ==
  /\ at[c] = "answer" /\ lock' = Nobody
  /\ \/ /\ \E to \in {"spawn", "declined", "confirm"} : at' = [at EXCEPT ![c] = to]
        /\ lines' = lines \cup {line} /\ line' = {}
     \/ at' = [at EXCEPT ![c] = "declined"] /\ UNCHANGED <<line, lines>>
  /\ UNCHANGED <<kind, childVars, pipe, feed, input, readVars, wrote, shown, late, last>>
-----------------------------------------------------------------------------
(* The child and what it leaves behind.                                    *)

Exited(c) == child[c] \in {"ok", "bad"}
Open(c) == child[c] = "running" \/ helper[c] \in {"alive", "quiet"}

\* stderr goes to its own pipe, into that of stdout, or to /dev/null.
Target(c, stream) ==
  IF stream = "out" THEN IF kind[c].capture THEN "cap" ELSE "log"
  ELSE IF kind[c].quiet THEN "null" ELSE "log"

Write(c) ==
  /\ child[c] = "running" /\ steps[c] # <<>> /\ Head(steps[c])[1] \in {"out", "err"}
  /\ steps' = [steps EXCEPT ![c] = Tail(@)]
  /\ LET to == Target(c, Head(steps[c])[1])
         what == Head(steps[c])[2] IN
     IF to = "null" \/ at[c] \in Ended THEN UNCHANGED <<pipe, wrote, late>>
     ELSE /\ Len(pipe[c][to]) < Cap
          /\ pipe' = [pipe EXCEPT ![c][to] = Append(@, what)]
          /\ wrote' = [wrote EXCEPT ![c][to] = Append(@, what)]
          /\ late' = [late EXCEPT ![c] = @ \/ (at[c] = "poll" /\ ready[c] = {})]
  /\ UNCHANGED <<kind, at, child, helper, feed, input, readVars, shown, lock, logVars>>

\* It reads its stdin, or leaves a process behind.
Do(c) ==
  /\ child[c] = "running" /\ steps[c] # <<>>
  /\ \/ /\ Head(steps[c])[1] = "in"
        /\ \/ input[c] > 0 /\ input' = [input EXCEPT ![c] = @ - 1]
           \/ input[c] = 0 /\ at[c] # "feed" /\ UNCHANGED input
        /\ UNCHANGED helper
     \/ /\ Head(steps[c])[1] = "fork"
        /\ helper' = [helper EXCEPT ![c] = "alive"] /\ UNCHANGED input
  /\ steps' = [steps EXCEPT ![c] = Tail(@)]
  /\ UNCHANGED <<kind, at, child, pipe, feed, readVars, wrote, shown, late, lock, logVars>>

Exit(c) ==
  /\ child[c] = "running" /\ steps[c] = <<>>
  /\ \E how \in {"ok", "bad"} : child' = [child EXCEPT ![c] = how]
  /\ UNCHANGED <<kind, at, steps, helper, pipe, feed, input, readVars, wrote, shown, late,
                 lock, logVars>>

\* The process left behind writes something, or ends; or does neither.
Helper(c) ==
  /\ \/ /\ helper[c] = "alive" /\ at[c] \notin Ended /\ Len(pipe[c].log) < Cap
        /\ pipe' = [pipe EXCEPT ![c].log = Append(@, "helper")]
        /\ wrote' = [wrote EXCEPT ![c].log = Append(@, "helper")]
        /\ helper' = [helper EXCEPT ![c] = "quiet"]
     \/ /\ helper[c] \in {"alive", "quiet"}
        /\ helper' = [helper EXCEPT ![c] = "over"] /\ UNCHANGED <<pipe, wrote>>
  /\ UNCHANGED <<kind, at, steps, child, feed, input, readVars, shown, late, lock, logVars>>
-----------------------------------------------------------------------------
(* logged_exec.                                                            *)

\* stderr has to go somewhere if stdout is captured: `log_fd was None'.
Spawn(c) ==
  /\ Goes(c, "spawn", IF kind[c].capture /\ kind[c].quiet THEN "raised"
                      ELSE IF feed[c] > 0 THEN "feed" ELSE "select")
  /\ child' = [child EXCEPT ![c] = "running"]
  /\ UNCHANGED <<kind, steps, helper, pipe, feed, input, readVars, wrote, shown, late, lock,
                 logVars>>

\* process_stdin.write blocks, and raises when nobody can read any more.
Feed(c) ==
  /\ at[c] = "feed"
  /\ \/ /\ feed[c] = 0 /\ at' = [at EXCEPT ![c] = "select"] /\ UNCHANGED <<feed, input>>
     \/ /\ feed[c] > 0 /\ Open(c) /\ input[c] < Cap
        /\ feed' = [feed EXCEPT ![c] = @ - 1] /\ input' = [input EXCEPT ![c] = @ + 1]
        /\ UNCHANGED at
     \/ /\ feed[c] > 0 /\ ~ Open(c)
        /\ at' = [at EXCEPT ![c] = "raised"] /\ UNCHANGED <<feed, input>>
  /\ UNCHANGED <<kind, childVars, pipe, readVars, wrote, shown, late, lock, logVars>>

\* Readable: there is something, or there will be nothing more.
Readable(c) == {f \in fds[c] : pipe[c][f] # <<>> \/ ~ Open(c)}

Select(c) ==
  /\ Goes(c, "select", IF fds[c] = {} THEN "wait" ELSE "poll")
  /\ ready' = [ready EXCEPT ![c] = Readable(c)]
  /\ UNCHANGED <<kind, childVars, pipe, feed, input, fds, stdout, data, at_new_line, wrote,
                 shown, late, lock, logVars>>

FaultAsSoonAsItExits(c) == Exited(c)
FaultUntilEndOfFile(c) == FALSE

\* `if len(r) == 0 and process.poll() is not None: break'.
Breaks(c) == ready[c] = {} /\ Exited(c)

FirstOf(r) == IF "cap" \in r THEN "cap" ELSE IF "log" \in r THEN "log" ELSE "select"

Poll(c) ==
  /\ Goes(c, "poll", IF Breaks(c) THEN "wait" ELSE FirstOf(ready[c]))
  /\ late' = [late EXCEPT ![c] = @ /\ Breaks(c)]
  /\ UNCHANGED <<kind, childVars, pipe, feed, input, readVars, wrote, shown, lock, logVars>>

\* read() decodes what there is, and cannot decode half a character.
Cut(s) == s # <<>> /\ s[Len(s)] = "half"

Capture(c) ==
  /\ at[c] = "cap"
  /\ IF Cut(pipe[c].cap) THEN at' = [at EXCEPT ![c] = "raised"] /\ UNCHANGED <<fds, stdout>>
     ELSE /\ at' = [at EXCEPT ![c] = FirstOf(ready[c] \ {"cap"})]
          /\ fds' = [fds EXCEPT ![c] = IF pipe[c].cap = <<>> THEN @ \ {"cap"} ELSE @]
          /\ stdout' = [stdout EXCEPT ![c] = @ \o pipe[c].cap]
  /\ pipe' = [pipe EXCEPT ![c].cap = <<>>]
  /\ UNCHANGED <<kind, childVars, feed, input, ready, data, at_new_line, wrote, shown, late,
                 lock, logVars>>

\* The end of the file ends a line that is open.
Read(c) ==
  /\ at[c] = "log"
  /\ IF Cut(pipe[c].log)
       THEN at' = [at EXCEPT ![c] = "raised"] /\ UNCHANGED <<fds, data, logVars>>
     ELSE IF pipe[c].log # <<>>
       THEN /\ at' = [at EXCEPT ![c] = "show"] /\ data' = [data EXCEPT ![c] = pipe[c].log]
            /\ UNCHANGED <<fds, logVars>>
     ELSE /\ at' = [at EXCEPT ![c] = "select"] /\ fds' = [fds EXCEPT ![c] = @ \ {"log"}]
          /\ IF at_new_line[c] THEN UNCHANGED logVars ELSE log_end(c, <<>>)
          /\ UNCHANGED data
  /\ pipe' = [pipe EXCEPT ![c].log = <<>>]
  /\ UNCHANGED <<kind, childVars, feed, input, ready, stdout, at_new_line, wrote, shown,
                 late, lock>>

\* data.find("\n", start): the place of the first end of a line, or none.
Newline(s) == {i \in DOMAIN s : s[i] = "newline" /\ \A j \in 1 .. i - 1 : s[j] # "newline"}

\* One line of the piece, or what there is of it.
Show(c) ==
  /\ at[c] = "show"
  /\ LET piece == data[c] IN
     IF Newline(piece) = {}
       THEN /\ log_start(c)
            /\ at_new_line' = [at_new_line EXCEPT ![c] = FALSE]
            /\ data' = [data EXCEPT ![c] = <<>>]
            /\ shown' = [shown EXCEPT ![c] = @ \o piece]
       ELSE \E end \in Newline(piece) :
              /\ IF at_new_line[c] THEN log(c) ELSE log_end(c, SubSeq(piece, 1, end - 1))
              /\ at_new_line' = [at_new_line EXCEPT ![c] = TRUE]
              /\ data' = [data EXCEPT ![c] = SubSeq(piece, end + 1, Len(piece))]
              /\ shown' = [shown EXCEPT ![c] = @ \o SubSeq(piece, 1, end)]
  /\ at' = [at EXCEPT ![c] = IF data'[c] = <<>> THEN "select" ELSE "show"]
  /\ UNCHANGED <<kind, childVars, pipe, feed, input, fds, ready, stdout, wrote, late, lock>>

\* process.wait(), and the exit status.
Wait(c) ==
  /\ Goes(c, "wait", IF child[c] = "bad" /\ kind[c].check THEN "raised" ELSE "done")
  /\ Exited(c)
  /\ UNCHANGED <<kind, childVars, pipe, feed, input, readVars, wrote, shown, late, lock,
                 logVars>>
-----------------------------------------------------------------------------
CallStep(c) ==
  \/ Confirm(c) \/ Spawn(c) \/ Feed(c) \/ Select(c) \/ Poll(c) \/ Capture(c) \/ Read(c)
  \/ Show(c) \/ Wait(c)

ChildStep(c) == Write(c) \/ Do(c) \/ Exit(c)

ExecNext == \E c \in Call : CallStep(c) \/ Answer(c) \/ ChildStep(c) \/ Helper(c)

\* A process that is left behind may stay for ever; users answer.
ExecFairness ==
  \A c \in Call :
    SF_execVars(CallStep(c)) /\ WF_execVars(ChildStep(c)) /\ WF_execVars(Answer(c))

ExecSpec == ExecInit /\ [][ExecNext]_execVars
FairExecSpec == ExecSpec /\ ExecFairness
-----------------------------------------------------------------------------
(* Properties.                                                             *)

Places == {"confirm", "answer", "spawn", "feed", "select", "poll", "cap", "log", "show",
           "wait"} \cup Ended
Streams == [cap : Seq(Char), log : Seq(Char)]

ExecTypeOK ==
  /\ kind \in [Call -> Kinds] /\ at \in [Call -> Places]
  /\ steps \in [Call -> Seq(ChildSteps)]
  /\ child \in [Call -> {"none", "running", "ok", "bad"}]
  /\ helper \in [Call -> {"none", "alive", "quiet", "over"}]
  /\ pipe \in [Call -> Streams] /\ wrote \in [Call -> Streams]
  /\ feed \in [Call -> Nat] /\ input \in [Call -> Nat]
  /\ fds \in [Call -> SUBSET {"cap", "log"}] /\ ready \in [Call -> SUBSET {"cap", "log"}]
  /\ stdout \in [Call -> Seq(Char)] /\ data \in [Call -> Seq(Char)]
  /\ shown \in [Call -> Seq(Char)]
  /\ at_new_line \in [Call -> BOOLEAN] /\ late \in [Call -> BOOLEAN]
  /\ last \in Call \cup {NoPrefix} /\ lock \in Call \cup {Nobody}

(* What the child has written is all there when logged_exec returns, on
   whichever streams, in its order, whoever still holds the pipes and however
   the output was cut into pieces: what is missing at the end of the log, a
   process that is left behind has written.  Unless the child has written and
   ended between a time-out of select and the poll. *)
Complete ==
  \A c \in Call :
    at[c] = "done" /\ ~ late[c] =>
      /\ stdout[c] = wrote[c].cap
      /\ shown[c] = SubSeq(wrote[c].log, 1, Len(shown[c]))
      /\ \A i \in Len(shown[c]) + 1 .. Len(wrote[c].log) : wrote[c].log[i] = "helper"

(* No line of the log has the output of two machines, whatever the order in
   which they start, go on with and end theirs, and whoever asks a question in
   between. *)
Unmixed == \A l \in lines \cup {line} : Cardinality(l \cap Call) <= 1

Fits(c) == kind[c].input <= Cap

(* A call ends when its child does, although a process that is left behind
   keeps the pipes, and although its child writes before it reads: if its input
   fits a pipe, as the code warns it must. *)
Ends == \A c \in Call : (child[c] = "running" /\ Fits(c)) ~> at[c] \in Ended
=============================================================================
