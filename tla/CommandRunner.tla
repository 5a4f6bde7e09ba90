----------------------------- MODULE CommandRunner -----------------------------
(***************************************************************************)
(* One command at a time, run as a child process by the main thread.  A    *)
(* live command has both output streams observed, a protocol command (the  *)
(* privileged helper, whose stdout is a JSON reply) only stderr; two       *)
(* reader threads drain the pipes while the main thread waits, and an      *)
(* interrupt terminates the child.  A captured command is left to          *)
(* subprocess.run.                                                         *)
(*                                                                         *)
(* Text is a sequence of the characters x (plain), s and t (together, in   *)
(* this order, the secret of the running command), r (carriage return) and *)
(* n (line feed), each of one byte.  A pipe closes when the child exits:   *)
(* no descendant holds it.                                                 *)
(* The module leaves the rest of the installer's state to the module that  *)
(* extends it: InstallerProgress.                                          *)
(***************************************************************************)
EXTENDS Naturals, Sequences, SequencesExt

CONSTANTS
  Commands,       \* the commands the caller may run: [tool, verb]
  PipeCap,        \* capacity of a pipe
  StreamLimit,    \* DEFAULT_STREAM_LIMIT: what a result keeps of a stream
  MaxRecordBytes, \* MAX_RECORD_BYTES: the longest record without a line end
  Texts,          \* what a command may write to a stream
  MaxText,        \* bound: characters a command writes
  MaxCommands,    \* bound: commands run
  MaxFaults,      \* bound: failures of the observer and of a spawn
  MaxInterrupts   \* bound: Ctrl-C while a command runs

Stream == {"stdout", "stderr"}
Char == {"x", "s", "t", "r", "n"}

ASSUME CommandRunnerAssumption ==
  /\ Texts \subseteq Seq(Char) /\ <<>> \in Texts
  /\ PipeCap \in Nat \ {0}
  /\ StreamLimit \in Nat \ {0} /\ MaxRecordBytes \in Nat \ {0}
  /\ MaxText \in Nat /\ MaxCommands \in Nat
  /\ MaxFaults \in Nat /\ MaxInterrupts \in Nat

VARIABLES
  pc,       \* where the main thread is in the call
  leaving,  \* how the call will end once the readers are joined
  kind,     \* how the running command is executed
  secrets,  \* the observer holds the secrets of the running command
  child,    \* the child process
  signal,   \* the strongest signal sent to it
  script,   \* what the child writes to each stream
  sent,     \* how much of it is in the pipe or read
  pipe,     \* contents of each pipe
  reader,   \* the reader thread of each stream
  pending,  \* the incomplete record of each reader
  records,  \* complete records of a reader not yet observed
  shown,    \* records of this command that reached the log
  kept,     \* the bounded buffer of each stream
  obsError, \* an observer call failed
  result,   \* the CommandResult of the last call
  commands, faults, interrupts

process == <<child, signal, script, sent, pipe>>
reading == <<reader, pending, records, shown, kept, obsError>>
counts == <<commands, faults, interrupts>>
runnerVars == <<pc, leaving, kind, secrets, process, reading, result, counts>>

Scripts == {w \in [Stream -> Texts] : Len(w["stdout"]) + Len(w["stderr"]) <= MaxText}
Buffer == [text: Seq(Char \union {"*"}), truncated: BOOLEAN]
EmptyBuffer == [text |-> <<>>, truncated |-> FALSE]

RunnerTypeOK ==
  /\ pc \in {"caller", "captured", "spawned", "wait", "grace", "killed", "join",
             "raised"}
  /\ leaving \in {"returns", "interrupt", "error", "unguarded"}
  /\ kind \in {"none", "captured", "live", "protocol"}
  /\ secrets \in BOOLEAN
  /\ child \in {"none", "running", "exited", "reaped"}
  /\ signal \in {"none", "term", "kill"}
  /\ script \in Scripts
  /\ \A st \in Stream :
       /\ sent[st] \in 0..Len(script[st])
       /\ pipe[st] \in Seq(Char) /\ Len(pipe[st]) <= PipeCap
       /\ reader[st] \in {"off", "reading", "final", "done"}
       /\ pending[st] \in Seq(Char)
       /\ kept[st] \in Buffer
  /\ obsError \in BOOLEAN
  /\ result \in {"none", "returned", "error", "interrupt"}
  /\ commands \in 0..MaxCommands
  /\ faults \in 0..MaxFaults
  /\ interrupts \in 0..MaxInterrupts

RunnerInit ==
  /\ pc = "caller"
  /\ leaving = "returns"
  /\ kind = "none"
  /\ secrets = FALSE
  /\ child = "none"
  /\ signal = "none"
  /\ script = [st \in Stream |-> <<>>]
  /\ sent = [st \in Stream |-> 0]
  /\ pipe = [st \in Stream |-> <<>>]
  /\ reader = [st \in Stream |-> "off"]
  /\ pending = [st \in Stream |-> <<>>]
  /\ records = [st \in Stream |-> <<>>]
  /\ shown = [st \in Stream |-> <<>>]
  /\ kept = [st \in Stream |-> EmptyBuffer]
  /\ obsError = FALSE
  /\ result = "none"
  /\ commands = 0
  /\ faults = 0
  /\ interrupts = 0

(***************************************************************************)
(* Each MutX below is the definition X that follows it with a plausible    *)
(* mistake; no specification uses it.                                      *)
(***************************************************************************)

(***************************************************************************)
(* Text.                                                                   *)
(***************************************************************************)

\* is_live_command, after _strip_wrappers: the verbs that change something and
\* take long.
LiveVerbs ==
  [apt    |-> {"update", "upgrade", "full-upgrade", "dist-upgrade",
               "install", "remove", "purge", "autoremove"},
   dpkg   |-> {"-i", "--install", "--unpack", "--configure", "--remove", "--purge"},
   uv     |-> {"sync", "lock", "add", "remove", "pip compile", "pip install",
               "pip sync", "pip download"},
   pip    |-> {"install", "download", "wheel"},
   docker |-> {"pull", "build", "buildx build"}]

IsLive(c) == c.tool \in DOMAIN LiveVerbs /\ c.verb \in LiveVerbs[c.tool]

KindOf(c) == CASE c.tool = "privileged" -> "protocol"
               [] IsLive(c)             -> "live"
               [] OTHER                 -> "captured"

MutRecordEnds(value, final) == {i \in DOMAIN value : value[i] \in {"n", "r"}}

\* A record ends at a line feed or at a carriage return that no line feed
\* follows; of a carriage return at the end that is known only at EOF.
RecordEnds(value, final) ==
  {i \in DOMAIN value :
     \/ value[i] = "n"
     \/ /\ value[i] = "r"
        /\ IF i = Len(value) THEN final ELSE value[i + 1] # "n"}

\* The k-th of a set of positions; none comes before the first.
Nth(ends, k) == IF k = 0 THEN 0
                ELSE CHOOSE e \in ends : Cardinality({d \in ends : d <= e}) = k

\* The record that ends at value[end], its line end normalized.
Line(value, start, end) ==
  LET crlf == end > 1 /\ value[end] = "n" /\ value[end - 1] = "r"
  IN Append(SubSeq(value, start, IF crlf THEN end - 2 ELSE end - 1), "n")

Lines(value, ends) ==
  [k \in 1..Cardinality(ends) |-> Line(value, Nth(ends, k - 1) + 1, Nth(ends, k))]

\* A remainder longer than MaxRecordBytes is cut into records of that size.
Cuts(rest) == IF rest = <<>> THEN 0 ELSE (Len(rest) - 1) \div MaxRecordBytes

Parts(rest) ==
  [k \in 1..Cuts(rest) |-> SubSeq(rest, (k - 1) * MaxRecordBytes + 1, k * MaxRecordBytes)]

\* The complete records of value and what remains.
CompleteRecords(value, final) ==
  LET ends == RecordEnds(value, final)
      rest == SubSeq(value, Nth(ends, Cardinality(ends)) + 1, Len(value))
      tail == SubSeq(rest, Cuts(rest) * MaxRecordBytes + 1, Len(rest))
      complete == Lines(value, ends) \o Parts(rest)
  IN IF final /\ tail # <<>>
     THEN [records |-> Append(complete, tail), pending |-> <<>>]
     ELSE [records |-> complete, pending |-> tail]

\* _BoundedTextBuffer.append.
Keep(buffer, value) ==
  LET all == buffer.text \o value
      over == Len(all) - StreamLimit
  IN [text |-> IF Len(all) > StreamLimit THEN SubSeq(all, over + 1, Len(all)) ELSE all,
      truncated |-> \/ buffer.truncated
                    \/ Len(value) >= StreamLimit
                    \/ Len(all) > StreamLimit]

\* Where a text contains the secret.
Secret(text) == {i \in DOMAIN text :
  \/ text[i] = "s" /\ i + 1 \in DOMAIN text /\ text[i + 1] = "t"
  \/ text[i] = "t" /\ i - 1 \in DOMAIN text /\ text[i - 1] = "s"}

\* sanitize_output with the secrets the observer holds: a value is replaced
\* where the record has the whole of it, and only there.
Render(text) ==
  [i \in DOMAIN text |-> IF secrets /\ i \in Secret(text) THEN "*"
                         ELSE IF text[i] = "r" THEN "n" ELSE text[i]]

Observed(st) == kind = "live" \/ (kind = "protocol" /\ st = "stderr")
ReadersDone == \A st \in Stream : reader[st] = "done"

(***************************************************************************)
(* The child.                                                              *)
(***************************************************************************)

\* A full pipe blocks the writer.
ChildWrites(st) ==
  /\ child = "running"
  /\ sent[st] < Len(script[st])
  /\ Len(pipe[st]) < PipeCap
  /\ pipe' = [pipe EXCEPT ![st] = Append(@, script[st][sent[st] + 1])]
  /\ sent' = [sent EXCEPT ![st] = @ + 1]
  /\ UNCHANGED <<pc, leaving, kind, secrets, child, signal, script, reading,
                 result, counts>>

\* It exits when it has written everything, or of the signal; it may hold out
\* against SIGTERM as long as it likes.
ChildExits ==
  /\ child = "running"
  /\ (\A st \in Stream : sent[st] = Len(script[st])) \/ signal # "none"
  /\ child' = "exited"
  /\ UNCHANGED <<pc, leaving, kind, secrets, signal, script, sent, pipe, reading,
                 result, counts>>

(***************************************************************************)
(* The readers: _drain_stream, one thread per stream.                      *)
(***************************************************************************)

\* read1 returns what is in the pipe.
ReadChunk(st) ==
  /\ reader[st] = "reading"
  /\ records[st] = <<>>
  /\ pipe[st] # <<>>
  /\ pipe' = [pipe EXCEPT ![st] = <<>>]
  /\ LET cut == CompleteRecords(pending[st] \o pipe[st], FALSE)
     IN IF Observed(st)
        THEN /\ records' = [records EXCEPT ![st] = cut.records]
             /\ pending' = [pending EXCEPT ![st] = cut.pending]
             /\ UNCHANGED kept
        ELSE /\ kept' = [kept EXCEPT ![st] = Keep(@, pipe[st])]
             /\ UNCHANGED <<records, pending>>
  /\ UNCHANGED <<pc, leaving, kind, secrets, child, signal, script, sent, reader,
                 shown, obsError, result, counts>>

\* An empty read: the child is gone and so is its end of the pipe.
ReadEnd(st) ==
  /\ reader[st] = "reading"
  /\ records[st] = <<>>
  /\ pipe[st] = <<>>
  /\ child \in {"exited", "reaped"}
  /\ reader' = [reader EXCEPT ![st] = "final"]
  /\ records' = [records EXCEPT ![st] =
                   IF Observed(st) THEN CompleteRecords(pending[st], TRUE).records
                                   ELSE <<>>]
  /\ pending' = [pending EXCEPT ![st] = <<>>]
  /\ UNCHANGED <<pc, leaving, kind, secrets, process, shown, kept, obsError,
                 result, counts>>

ReaderEnds(st) ==
  /\ reader[st] = "final"
  /\ records[st] = <<>>
  /\ reader' = [reader EXCEPT ![st] = "done"]
  /\ UNCHANGED <<pc, leaving, kind, secrets, process, pending, records, shown,
                 kept, obsError, result, counts>>

\* The record is taken off the reader's list in each case.
Take(st) == records' = [records EXCEPT ![st] = Tail(@)]

\* _observe_record when the observer takes the record.
RecordShown(st) ==
  /\ records[st] # <<>>
  /\ ~obsError
  /\ Take(st)
  /\ LET rendered == Render(Head(records[st]))
     IN /\ shown' = [shown EXCEPT ![st] = Append(@, rendered)]
        /\ kept' = [kept EXCEPT ![st] = Keep(@, rendered)]
  /\ UNCHANGED <<pc, leaving, kind, secrets, process, reader, pending, obsError,
                 result, counts>>

\* The observer raises: the log cannot be written or is closed.
RecordFails(st) ==
  /\ records[st] # <<>>
  /\ ~obsError
  /\ Take(st)
  /\ obsError' = TRUE
  /\ UNCHANGED <<pc, leaving, kind, secrets, process, reader, pending, shown, kept,
                 result, commands, interrupts>>

\* After the first failure of either reader no record is observed any more, and
\* both readers go on draining.
RecordDropped(st) ==
  /\ records[st] # <<>>
  /\ obsError
  /\ Take(st)
  /\ UNCHANGED <<pc, leaving, kind, secrets, process, reader, pending, shown, kept,
                 obsError, result, counts>>

(***************************************************************************)
(* The main thread: SubprocessRunner.run and _execute_observed_command.    *)
(***************************************************************************)

\* command_started, which loads the secrets of the command, and Popen.  The
\* readers of an observed command are not running yet.  The history of the
\* previous command is forgotten.
Start(c, text) ==
  /\ pc = "caller"
  /\ commands < MaxCommands
  /\ commands' = commands + 1
  /\ kind' = KindOf(c)
  /\ secrets' = TRUE
  /\ pc' = IF KindOf(c) = "captured" THEN "captured" ELSE "spawned"
  /\ leaving' = "returns"
  /\ child' = "running"
  /\ signal' = "none"
  /\ script' = text
  /\ sent' = [st \in Stream |-> 0]
  /\ pipe' = [st \in Stream |-> <<>>]
  /\ reader' = [st \in Stream |-> "off"]
  /\ pending' = [st \in Stream |-> <<>>]
  /\ records' = [st \in Stream |-> <<>>]
  /\ shown' = [st \in Stream |-> <<>>]
  /\ kept' = [st \in Stream |-> EmptyBuffer]
  /\ obsError' = FALSE
  /\ result' = "none"
  /\ UNCHANGED <<faults, interrupts>>

\* command_started has loaded the secrets, Popen fails.
SpawnFails(c) ==
  /\ pc = "caller"
  /\ commands < MaxCommands /\ faults < MaxFaults
  /\ commands' = commands + 1
  /\ faults' = faults + 1
  /\ kind' = KindOf(c)
  /\ secrets' = TRUE
  /\ pc' = "raised"
  /\ result' = "error"
  /\ UNCHANGED <<leaving, process, reading, interrupts>>

\* subprocess.run has collected the output and reaped the child, and
\* command_finished is called.
CapturedReturns ==
  /\ pc = "captured"
  /\ child' = "reaped"
  /\ sent' = [st \in Stream |-> Len(script[st])]
  /\ pc' = "caller" /\ secrets' = FALSE /\ result' = "returned"
  /\ UNCHANGED <<leaving, kind, signal, script, pipe, reading, counts>>

Interrupted ==
  /\ interrupts < MaxInterrupts
  /\ interrupts' = interrupts + 1
  /\ UNCHANGED <<kind, script, sent, pipe, reading, commands, faults>>

Leaves == pc' = "raised" /\ result' = "interrupt"

\* Ctrl-C in subprocess.run: a child that ends in the quarter of a second that
\* it is given is reaped; any other is killed, and nobody waits for it.
CapturedInterrupted ==
  /\ pc = "captured"
  /\ Interrupted /\ Leaves
  /\ \/ child' = "reaped" /\ UNCHANGED signal
     \/ signal' = "kill" /\ child = "running" /\ UNCHANGED child
  /\ UNCHANGED <<leaving, secrets>>

\* The threads are started one after the other, with no handler around them ...
ReaderStarts(st) ==
  /\ pc = "spawned" /\ reader[st] = "off"
  /\ st = "stderr" => reader["stdout"] # "off"
  /\ reader' = [reader EXCEPT ![st] = "reading"]
  /\ UNCHANGED <<pc, leaving, kind, secrets, process, pending, records, shown, kept,
                 obsError, result, counts>>

\* ... then comes the try with its wait.
EnterTry ==
  /\ pc = "spawned" /\ \A st \in Stream : reader[st] # "off"
  /\ pc' = "wait"
  /\ UNCHANGED <<leaving, kind, secrets, process, reading, result, counts>>

\* Ctrl-C before it: child and readers are left alone.
SpawnInterrupted ==
  /\ pc = "spawned"
  /\ Interrupted /\ Leaves
  /\ leaving' = "unguarded"
  /\ UNCHANGED <<secrets, child, signal>>

ToJoin(how) == pc' = "join" /\ leaving' = how

\* process.wait reaps the child: the first wait, the one of five seconds after
\* terminate, and the one after kill.
ChildReaped ==
  /\ pc \in {"wait", "grace", "killed"}
  /\ child = "exited"
  /\ child' = "reaped"
  /\ ToJoin(IF pc = "wait" THEN "returns" ELSE "interrupt")
  /\ UNCHANGED <<kind, secrets, signal, script, sent, pipe, reading, result, counts>>

MutTerminate ==
  /\ pc = "wait"
  /\ Interrupted
  /\ ToJoin("interrupt")
  /\ signal' = "term"
  /\ UNCHANGED <<secrets, child, result>>

\* Ctrl-C while the child runs: terminate, then five seconds to comply.
Terminate ==
  /\ pc = "wait"
  /\ Interrupted
  /\ pc' = "grace"
  /\ signal' = "term"
  /\ UNCHANGED <<leaving, secrets, child, result>>

MutKill == FALSE

\* The five seconds are over.
Kill ==
  /\ pc = "grace"
  /\ child = "running"
  /\ pc' = "killed"
  /\ signal' = "kill"
  /\ UNCHANGED <<leaving, kind, secrets, child, script, sent, pipe, reading,
                 result, counts>>

\* A second Ctrl-C leaves the wait; the readers are joined all the same.
InterruptedAgain ==
  /\ pc \in {"grace", "killed"}
  /\ Interrupted
  /\ ToJoin("interrupt")
  /\ UNCHANGED <<secrets, child, signal, result>>

MutJoinInterrupted ==
  /\ pc = "join"
  /\ Interrupted /\ Leaves
  /\ secrets' = FALSE
  /\ UNCHANGED <<leaving, child, signal>>

\* Ctrl-C in reader.join: the call ends with readers still at work.
JoinInterrupted ==
  /\ pc = "join"
  /\ Interrupted /\ Leaves
  /\ UNCHANGED <<leaving, secrets, child, signal>>

\* The child closes its stdin before it has taken the whole input: the write
\* raises, and nobody waits for the child.
StdinBreaks ==
  /\ pc = "wait"
  /\ faults < MaxFaults
  /\ faults' = faults + 1
  /\ ToJoin("error")
  /\ UNCHANGED <<kind, secrets, process, reading, result, commands, interrupts>>

MutJoined == TRUE

\* reader.join for both readers.
Joined == ReadersDone

\* The readers are joined and the result built; command_finished forgets the
\* secrets.
Return ==
  /\ pc = "join" /\ Joined
  /\ leaving = "returns" /\ ~obsError
  /\ pc' = "caller"
  /\ secrets' = FALSE
  /\ result' = "returned"
  /\ UNCHANGED <<leaving, kind, process, reading, counts>>

\* An interrupt or a broken stdin is raised again; a failed observer becomes an
\* error.  None of them calls command_finished.
Raise ==
  /\ pc = "join" /\ Joined
  /\ leaving # "returns" \/ obsError
  /\ pc' = "raised"
  /\ result' = IF leaving = "interrupt" THEN "interrupt" ELSE "error"
  /\ UNCHANGED <<leaving, kind, secrets, process, reading, counts>>

\* command_finished itself fails.
FinishFails ==
  /\ pc = "join" /\ Joined
  /\ leaving = "returns" /\ ~obsError
  /\ faults < MaxFaults
  /\ faults' = faults + 1
  /\ pc' = "raised"
  /\ result' = "error"
  /\ UNCHANGED <<leaving, kind, secrets, process, reading, commands, interrupts>>

\* The caller falls back to something else: the next replica, say.
Recover ==
  /\ pc = "raised"
  /\ result = "error"
  /\ pc' = "caller"
  /\ UNCHANGED <<leaving, kind, secrets, process, reading, result, counts>>

================================================================================
