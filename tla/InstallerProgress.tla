--------------------------- MODULE InstallerProgress ---------------------------
(***************************************************************************)
(* The installer's reporter around the commands of CommandRunner: stages   *)
(* with their START and PASS, prompts, the session log, and the heartbeat  *)
(* thread that prints WAIT when a stage has been silent for an interval.   *)
(* A stage has a thread of its own, stopped and joined before the stage    *)
(* ends.  Time is one bit: whether an interval has passed since the last   *)
(* activity.                                                               *)
(***************************************************************************)
EXTENDS CommandRunner

CONSTANT Stages  \* number of stages of the run

ASSUME InstallerProgressAssumption == Stages \in Nat \ {0}

VARIABLES
  main,     \* where the installer is
  stage,    \* the current stage
  hb,       \* the heartbeat thread of each stage
  stop,     \* its stop event
  silent,   \* HeartbeatSchedule: an interval without activity
  paused,   \* HeartbeatSchedule.paused
  event,    \* history: the last event printed, and the stage it names
  logOpen   \* the session log takes lines

progressVars == <<main, stage, hb, stop, silent, paused, event, logOpen>>
vars == <<runnerVars, progressVars>>

Stage == 1..Stages
Kinds == {"none", "START", "PASS", "WAIT", "FAIL", "SUMMARY", "COMMAND"}

\* Types of the reporter and of the runner.
TypeOK ==
  /\ RunnerTypeOK
  /\ main \in {"between", "stage", "prompt", "passing", "failing", "closed"}
  /\ stage \in 0..Stages
  /\ hb \in [Stage -> {"none", "asleep", "checked", "due", "dead"}]
  /\ stop \in [Stage -> BOOLEAN]
  /\ silent \in BOOLEAN /\ paused \in BOOLEAN /\ logOpen \in BOOLEAN
  /\ event \in [kind: Kinds, stage: 0..Stages]

Init ==
  /\ RunnerInit
  /\ main = "between"
  /\ stage = 0
  /\ hb = [s \in Stage |-> "none"]
  /\ stop = [s \in Stage |-> FALSE]
  /\ silent = FALSE
  /\ paused = FALSE
  /\ event = [kind |-> "none", stage |-> 0]
  /\ logOpen = TRUE

Emit(k) == event' = [kind |-> k, stage |-> stage]

\* _activity_locked: any line printed starts the interval again.
Activity == silent' = FALSE

(***************************************************************************)
(* Stages, prompts and the end of the run.                                 *)
(***************************************************************************)

MutStagesLeft == stage <= Stages

StagesLeft == stage < Stages

\* stage_started: a fresh schedule, START, and a thread.
StageStarted ==
  /\ main = "between" /\ StagesLeft
  /\ main' = "stage"
  /\ stage' = stage + 1
  /\ hb' = [hb EXCEPT ![stage + 1] = "asleep"]
  /\ event' = [kind |-> "START", stage |-> stage + 1]
  /\ paused' = FALSE
  /\ Activity
  /\ UNCHANGED <<stop, logOpen, runnerVars>>

\* pause_heartbeat, before the question is asked.
Ask ==
  /\ main = "stage" /\ pc = "caller"
  /\ main' = "prompt"
  /\ paused' = TRUE
  /\ UNCHANGED <<stage, hb, stop, silent, event, logOpen, runnerVars>>

\* resume_heartbeat, after the answer.
Answer ==
  /\ main = "prompt"
  /\ main' = "stage"
  /\ paused' = FALSE
  /\ Activity
  /\ UNCHANGED <<stage, hb, stop, event, logOpen, runnerVars>>

\* _stop_heartbeat sets the stop event and joins.
StopHeartbeat(next) ==
  /\ main' = next
  /\ stop' = [stop EXCEPT ![stage] = TRUE]
  /\ UNCHANGED <<stage, hb, silent, paused, event, logOpen, runnerVars>>

StagePasses == main = "stage" /\ pc = "caller" /\ StopHeartbeat("passing")

\* The stage returned an error, or an exception or an interrupt left it.
StageFails == main = "stage" /\ pc \in {"caller", "raised"} /\ StopHeartbeat("failing")

MutHeartbeatJoined == TRUE

HeartbeatJoined == hb[stage] \in {"none", "dead"}

\* stage_passed after the join.
StagePassed ==
  /\ main = "passing" /\ HeartbeatJoined
  /\ main' = "between"
  /\ Emit("PASS")
  /\ Activity
  /\ UNCHANGED <<stage, hb, stop, paused, logOpen, runnerVars>>

\* installation_finished: the final events go to the log, the log is closed, and
\* only then the terminal shows them.
Finished ==
  /\ \/ main = "failing" /\ HeartbeatJoined /\ Emit("FAIL")
     \/ main = "between" /\ ~StagesLeft /\ Emit("SUMMARY")
  /\ main' = "closed"
  /\ logOpen' = FALSE
  /\ Activity
  /\ UNCHANGED <<stage, hb, stop, paused, runnerVars>>

(***************************************************************************)
(* The heartbeat thread.                                                   *)
(***************************************************************************)

\* Nothing has been printed for an interval.
IntervalPasses ==
  /\ main # "closed" /\ ~silent
  /\ silent' = TRUE
  /\ UNCHANGED <<main, stage, hb, stop, paused, event, logOpen, runnerVars>>

\* The wait times out and the stop event is not set.
Wakes(s) ==
  /\ hb[s] = "asleep" /\ ~stop[s] /\ silent
  /\ hb' = [hb EXCEPT ![s] = "checked"]
  /\ UNCHANGED <<main, stage, stop, silent, paused, event, logOpen, runnerVars>>

MutConsume(s) ==
  /\ hb[s] = "checked"
  /\ hb' = [hb EXCEPT ![s] = "due"]
  /\ silent' = FALSE
  /\ UNCHANGED <<main, stage, stop, paused, event, logOpen, runnerVars>>

\* consume_if_due, under the reporter's lock.
Consume(s) ==
  /\ hb[s] = "checked"
  /\ IF silent /\ ~paused
     THEN hb' = [hb EXCEPT ![s] = "due"] /\ silent' = FALSE
     ELSE hb' = [hb EXCEPT ![s] = "asleep"] /\ UNCHANGED silent
  /\ UNCHANGED <<main, stage, stop, paused, event, logOpen, runnerVars>>

\* The lock was given up in between: WAIT is printed whatever happened since.
\* A closed log ends the thread.
Wait(s) ==
  /\ hb[s] = "due"
  /\ IF logOpen
     THEN /\ hb' = [hb EXCEPT ![s] = "asleep"]
          /\ event' = [kind |-> "WAIT", stage |-> s]
          /\ Activity
     ELSE hb' = [hb EXCEPT ![s] = "dead"] /\ UNCHANGED <<event, silent>>
  /\ UNCHANGED <<main, stage, stop, paused, logOpen, runnerVars>>

HeartbeatEnds(s) ==
  /\ hb[s] = "asleep" /\ stop[s]
  /\ hb' = [hb EXCEPT ![s] = "none"]
  /\ UNCHANGED <<main, stage, stop, silent, paused, event, logOpen, runnerVars>>

(***************************************************************************)
(* Commands of a stage.                                                    *)
(***************************************************************************)

\* command_started prints the command.
CommandStarts ==
  /\ main = "stage"
  /\ \E c \in Commands, text \in Scripts : Start(c, text) \/ SpawnFails(c)
  /\ Emit("COMMAND")
  /\ Activity
  /\ UNCHANGED <<main, stage, hb, stop, paused, logOpen>>

\* InstallerProgress.command_output: a record is logged and printed under the
\* reporter's lock; it fails when the disk is full or the log is closed.
CommandOutput(st) ==
  /\ \/ logOpen /\ RecordShown(st) /\ UNCHANGED faults /\ Activity
     \/ /\ logOpen => faults < MaxFaults
        /\ faults' = IF logOpen THEN faults + 1 ELSE faults
        /\ RecordFails(st) /\ UNCHANGED silent
     \/ RecordDropped(st) /\ UNCHANGED silent
  /\ UNCHANGED <<main, stage, hb, stop, paused, event, logOpen>>

\* A captured command prints nothing; only what it printed at its end counts.
CommandEnds ==
  /\ \/ (Return \/ CapturedReturns \/ FinishFails) /\ Activity
     \/ (Raise \/ CapturedInterrupted) /\ UNCHANGED silent
  /\ UNCHANGED <<main, stage, hb, stop, paused, event, logOpen>>

ReaderSteps(st) == ReadChunk(st) \/ ReadEnd(st) \/ ReaderEnds(st)

Interrupts ==
  SpawnInterrupted \/ Terminate \/ InterruptedAgain \/ JoinInterrupted

RunnerStep ==
  /\ \/ \E st \in Stream : ChildWrites(st) \/ ReaderSteps(st) \/ ReaderStarts(st)
     \/ EnterTry \/ ChildExits \/ ChildReaped \/ Kill \/ StdinBreaks \/ Interrupts
  /\ UNCHANGED progressVars

Recovers == main = "stage" /\ Recover /\ UNCHANGED progressVars

\* The installer has reported and returns.
Over == main = "closed" /\ UNCHANGED vars

Next ==
  \/ StageStarted \/ Ask \/ Answer \/ StagePasses \/ StageFails
  \/ StagePassed \/ Finished
  \/ IntervalPasses
  \/ \E s \in Stage : Wakes(s) \/ Consume(s) \/ Wait(s) \/ HeartbeatEnds(s)
  \/ CommandStarts \/ CommandEnds \/ Recovers
  \/ \E st \in Stream : CommandOutput(st)
  \/ RunnerStep
  \/ Over

Spec == Init /\ [][Next]_vars

(***************************************************************************)
(* Fairness: threads and the child are scheduled, a child that has nothing *)
(* left to write exits, and a killed one does.  One that was only asked to *)
(* terminate may hang in its handler.  Nothing is assumed of the operator, *)
(* of faults, of time and of the order of stages and commands.             *)
(***************************************************************************)
ExitIsDue == signal = "kill" \/ (signal = "none" /\ \A st \in Stream : sent[st] = Len(script[st]))

ChildStep == (\E st \in Stream : ChildWrites(st)) \/ (ChildExits /\ ExitIsDue)

Fairness ==
  /\ \A st \in Stream :
       WF_vars((ReaderSteps(st) /\ UNCHANGED progressVars) \/ CommandOutput(st))
  /\ WF_vars(ChildStep /\ UNCHANGED progressVars)
  /\ WF_vars(\/ /\ \/ \E st \in Stream : ReaderStarts(st)
                   \/ EnterTry \/ ChildReaped \/ Kill
                /\ UNCHANGED progressVars
             \/ CommandEnds \/ StagePassed \/ Finished)
  /\ \A s \in Stage : WF_vars(Consume(s) \/ Wait(s) \/ HeartbeatEnds(s))

FairSpec == Spec /\ Fairness

(***************************************************************************)
(* Properties.                                                             *)
(***************************************************************************)

\* What the log is to show of a text: \r\n and \r as line feeds.  Characters of
\* the secret count as hidden, whether Render found the whole of it or not.
LogText(text) ==
  LET crlf(i) == text[i] = "r" /\ i < Len(text) /\ text[i + 1] = "n"
  IN FlattenSeq([i \in DOMAIN text |-> CASE crlf(i)               -> <<>>
                                        [] text[i] \in {"s", "t"} -> <<"*">>
                                        [] text[i] = "x"          -> <<"x">>
                                        [] OTHER                  -> <<"n">>])

Veil(text) == [i \in DOMAIN text |-> IF text[i] \in {"s", "t"} THEN "*" ELSE text[i]]

IsSuffix_(s, t) == Len(s) <= Len(t) /\ s = SubSeq(t, Len(t) - Len(s) + 1, Len(t))

\* A call that returns gives back the end of everything the child wrote, whole
\* unless it is marked truncated, and the log has all of it, one line a record,
\* however the child's writes, the two readers and their reads interleaved.
ResultFaithful ==
  (result = "returned" /\ kind # "captured") =>
    \A st \in Stream :
      LET whole == IF Observed(st) THEN LogText(script[st]) ELSE script[st]
          text == IF Observed(st) THEN Veil(kept[st].text) ELSE kept[st].text
      IN /\ IsSuffix_(text, whole)
         /\ Len(text) = IF Len(whole) < StreamLimit THEN Len(whole) ELSE StreamLimit
         /\ ~kept[st].truncated => text = whole
         /\ Observed(st) => Veil(FlattenSeq(shown[st])) = whole
         /\ \A r \in DOMAIN shown[st] :
              LET record == shown[st][r]
              IN \A i \in DOMAIN record : record[i] = "n" => i = Len(record)

\* No record that has the secret reaches the log or the terminal with it: none
\* is handed over after the secrets of its command were forgotten, on the way
\* out of an interrupt or after a failure, while a reader is still at work.
LogRedacted ==
  \A st \in Stream : \A r \in DOMAIN shown[st] : Secret(shown[st][r]) = {}

\* One Ctrl-C ends the child.  When the interrupt leaves the call, an observed
\* child has been waited for, whatever it does with SIGTERM; unless the write
\* to its stdin had failed, or the interrupt came before the try.  A captured
\* one has been waited for or killed.
InterruptEndsChild ==
  result = "interrupt" /\ interrupts = 1 =>
    /\ kind # "captured" /\ leaving \in {"returns", "interrupt"} => child = "reaped"
    /\ kind = "captured" => child = "reaped" \/ signal = "kill"

\* A WAIT names the stage in progress: none appears after the PASS or FAIL of
\* its stage.
NoLateWait ==
  [][(event'.kind = "WAIT" /\ event' # event)
       => /\ event'.stage = stage
          /\ main \in {"stage", "prompt", "passing", "failing"}]_event

Idle == pc \in {"caller", "raised"}

\* Nobody waits for ever: a call ends, with a full pipe, with an observer that
\* failed and after one Ctrl-C, and a stage that ends gets rid of its heartbeat.
CallsReturn ==
  /\ ~Idle ~> (Idle \/ interrupts > 1)
  /\ (main \in {"passing", "failing"}) ~> (main \in {"between", "closed"})
================================================================================
