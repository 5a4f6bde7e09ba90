------------------------ MODULE InstallerProgressProofs ------------------------
(***************************************************************************)
(* Theorems about CommandRunner and InstallerProgress, for any commands    *)
(* and texts, pipes of any capacity and any number of stages, commands,    *)
(* faults and interrupts: first what holds of a record as a whole, then    *)
(* the types, and then what a result holds, by the lemmas about texts of   *)
(* CommandRunnerProofs.                                                    *)
(***************************************************************************)
EXTENDS CommandRunnerProofs

(***************************************************************************)
(* The inductive invariant, in three parts.                                *)
(***************************************************************************)

AtWork == {"reading", "final"}
ReadersIdle == \A st \in Stream : reader[st] \notin AtWork

\* The secrets of a command stay loaded while one of its readers may still hand
\* over a record: only an interrupt leaves a call with readers at work, and no
\* command follows it.
RecordsGuarded ==
  /\ DOMAIN reader = Stream /\ DOMAIN records = Stream /\ DOMAIN shown = Stream
  /\ \A st \in Stream :
       /\ reader[st] \in AtWork => secrets
       /\ reader[st] \notin AtWork => records[st] = <<>>
       /\ shown[st] \in Seq(Range(shown[st]))
  /\ pc = "spawned" => secrets
  /\ \/ pc \in {"caller", "captured"}
     \/ pc = "raised" /\ result = "error"
     => ReadersIdle
  /\ result = "interrupt" => pc = "raised"

\* A wait that was given up has cost two interrupts; every other way to the
\* join but a broken stdin goes through process.wait.
ChildAccounted ==
  /\ interrupts \in Nat
  /\ pc = "captured" => kind = "captured"
  /\ pc \in {"spawned", "wait", "grace", "killed", "join"} => kind # "captured"
  /\ pc \in {"grace", "killed"} => interrupts > 0
  /\ pc = "join" /\ leaving \in {"returns", "interrupt"} =>
       child = "reaped" \/ interrupts > 1
  /\ result = "interrupt" => pc = "raised"

\* A heartbeat thread that may still print belongs to the stage in progress.
HeartbeatOfStage ==
  /\ stage \in Nat
  /\ DOMAIN hb = Stage
  /\ \A s \in Stage : hb[s] \in {"asleep", "checked", "due"} =>
       s = stage /\ main \in {"stage", "prompt", "passing", "failing"}

ProgressInv == /\ RecordsGuarded /\ LogRedacted
               /\ ChildAccounted /\ InterruptEndsChild
               /\ HeartbeatOfStage

\* The three parts hold at the start.
LEMMA ProgressInit == Init => ProgressInv
<1> SUFFICES ASSUME Init PROVE ProgressInv
  OBVIOUS
<1>1. RecordsGuarded /\ LogRedacted
  BY EmptySeq DEF Init, RunnerInit, RecordsGuarded, LogRedacted, ReadersIdle, AtWork
<1>2. ChildAccounted /\ InterruptEndsChild
  BY DEF Init, RunnerInit, ChildAccounted, InterruptEndsChild
<1>3. HeartbeatOfStage
  BY DEF Init, HeartbeatOfStage
<1> QED BY <1>1, <1>2, <1>3 DEF ProgressInv

(***************************************************************************)
(* The log.                                                                *)
(***************************************************************************)

\* sanitize_output leaves no whole secret while the observer holds the secrets.
LEMMA RenderHides ==
  ASSUME NEW text, secrets
  PROVE  Secret(Render(text)) = {}
<1>1. DOMAIN Render(text) = DOMAIN text
  BY DEF Render
<1>2. \A i \in DOMAIN text : Render(text)[i] \in {"s", "t"} =>
        i \notin Secret(text) /\ text[i] = Render(text)[i]
  BY DEF Render
<1> SUFFICES ASSUME NEW i \in Secret(Render(text)) PROVE FALSE
  OBVIOUS
<1>3. CASE /\ Render(text)[i] = "s" /\ i + 1 \in DOMAIN text
           /\ Render(text)[i + 1] = "t"
  <2>1. i \in DOMAIN text
    BY <1>1 DEF Secret
  <2> QED BY <1>2, <1>3, <2>1 DEF Secret
<1>4. CASE /\ Render(text)[i] = "t" /\ i - 1 \in DOMAIN text
           /\ Render(text)[i - 1] = "s"
  <2>1. i \in DOMAIN text
    BY <1>1 DEF Secret
  <2> QED BY <1>2, <1>4, <2>1 DEF Secret
<1> QED BY <1>1, <1>3, <1>4 DEF Secret

\* A list of records remains one when a record is added.
LEMMA OneMoreRecord ==
  ASSUME NEW list, list \in Seq(Range(list)), NEW record
  PROVE  /\ Append(list, record) \in Seq(Range(Append(list, record)))
         /\ \A r \in DOMAIN Append(list, record) :
              \/ Append(list, record)[r] = record
              \/ r \in DOMAIN list /\ Append(list, record)[r] = list[r]
<1> DEFINE both == Range(list) \union {record}
           longer == Append(list, record)
<1>1. list \in Seq(both)
  BY SeqDef
<1>2. /\ longer \in Seq(both) /\ Len(longer) = Len(list) + 1
      /\ \A i \in 1..Len(list) : longer[i] = list[i]
      /\ longer[Len(list) + 1] = record
  BY <1>1, AppendProperties
<1>3. DOMAIN longer = 1..Len(longer) /\ DOMAIN list = 1..Len(list) /\ Len(list) \in Nat
  BY <1>1, <1>2, LenProperties
<1>4. longer \in Seq(Range(longer))
  BY <1>2, <1>3, SeqDef DEF Range
<1> QED BY <1>2, <1>3, <1>4

\* A step that is not one of a command leaves the runner alone.
LEMMA RunnerSteps ==
  [Next]_vars => \/ UNCHANGED runnerVars
                 \/ CommandStarts \/ CommandEnds \/ Recovers
                 \/ \E st \in Stream : CommandOutput(st)
                 \/ RunnerStep
BY DEF Next, vars, StageStarted, Ask, Answer, StagePasses, StageFails, StagePassed,
       StopHeartbeat, Finished, IntervalPasses, Wakes, Consume, Wait, HeartbeatEnds, Over

\* Every step keeps the secrets out of the log.
LEMMA LogNext == RecordsGuarded /\ LogRedacted /\ [Next]_vars
                   => RecordsGuarded' /\ LogRedacted'
<1> USE DEF RecordsGuarded, LogRedacted, ReadersIdle, AtWork
<1> SUFFICES ASSUME RecordsGuarded, LogRedacted, [Next]_vars
             PROVE  RecordsGuarded' /\ LogRedacted'
  OBVIOUS
<1>1. CASE UNCHANGED runnerVars
  BY <1>1 DEF runnerVars, reading
<1>2. CASE CommandStarts
  <2>1. ASSUME NEW c, NEW text, Start(c, text) PROVE RecordsGuarded' /\ LogRedacted'
    BY <2>1, EmptySeq DEF Start
  <2>2. ASSUME NEW c, SpawnFails(c) PROVE RecordsGuarded' /\ LogRedacted'
    BY <2>2 DEF SpawnFails, reading
  <2> QED BY <1>2, <2>1, <2>2 DEF CommandStarts
<1>3. CASE CommandEnds
  <2>1. CASE Return \/ FinishFails \/ Raise
    BY <2>1 DEF Return, FinishFails, Raise, Joined, ReadersDone, reading
  <2>2. CASE CapturedReturns \/ CapturedInterrupted
    BY <2>2 DEF CapturedReturns, CapturedInterrupted, Interrupted, Leaves, reading
  <2> QED BY <1>3, <2>1, <2>2 DEF CommandEnds
<1>4. CASE Recovers
  BY <1>4 DEF Recovers, Recover, reading
<1>5. ASSUME NEW st \in Stream, CommandOutput(st)
      PROVE  RecordsGuarded' /\ LogRedacted'
  <2>1. /\ records[st] # <<>> /\ secrets
        /\ UNCHANGED <<reader, secrets, pc, result>>
        /\ DOMAIN records' = Stream
        /\ \A other \in Stream \ {st} : records'[other] = records[other]
    BY <1>5 DEF CommandOutput, RecordShown, RecordFails, RecordDropped, Take
  <2>2. CASE UNCHANGED shown
    BY <2>1, <2>2
  <2>3. CASE RecordShown(st)
    <3> DEFINE rendered == Render(Head(records[st]))
    <3>1. shown' = [shown EXCEPT ![st] = Append(@, rendered)]
      BY <2>3 DEF RecordShown
    <3>2. Secret(rendered) = {}
      BY <2>1, RenderHides
    <3> HIDE DEF rendered
    <3>3. /\ shown'[st] = Append(shown[st], rendered)
          /\ \A other \in Stream \ {st} : shown'[other] = shown[other]
          /\ DOMAIN shown' = Stream
      BY <3>1
    <3>4. /\ shown'[st] \in Seq(Range(shown'[st]))
          /\ \A r \in DOMAIN shown'[st] :
               \/ shown'[st][r] = rendered
               \/ r \in DOMAIN shown[st] /\ shown'[st][r] = shown[st][r]
      <4>1. shown[st] \in Seq(Range(shown[st]))
        OBVIOUS
      <4> QED BY <3>3, <4>1, OneMoreRecord
    <3>5. LogRedacted'
      <4>1. ASSUME NEW r \in DOMAIN shown'[st] PROVE Secret(shown'[st][r]) = {}
        BY <3>2, <3>4
      <4>2. ASSUME NEW other \in Stream \ {st}, NEW r \in DOMAIN shown'[other]
            PROVE  Secret(shown'[other][r]) = {}
        BY <3>3
      <4> QED BY <4>1, <4>2
    <3> QED BY <2>1, <3>3, <3>4, <3>5
  <2> QED BY <1>5, <2>2, <2>3 DEF CommandOutput, RecordFails, RecordDropped
<1>6. CASE RunnerStep
  <2>1. ASSUME NEW st \in Stream, ChildWrites(st) \/ ReaderSteps(st) \/ ReaderStarts(st)
        PROVE  RecordsGuarded' /\ LogRedacted'
    <3>1. CASE ChildWrites(st)
      BY <3>1 DEF ChildWrites, reading
    <3>2. CASE ReadChunk(st)
      BY <3>2 DEF ReadChunk
    <3>3. CASE ReadEnd(st)
      BY <3>3 DEF ReadEnd
    <3>4. CASE ReaderEnds(st)
      BY <3>4 DEF ReaderEnds
    <3>5. CASE ReaderStarts(st)
      BY <3>5 DEF ReaderStarts
    <3> QED BY <2>1, <3>1, <3>2, <3>3, <3>4, <3>5 DEF ReaderSteps
  <2>2. CASE EnterTry \/ ChildExits \/ ChildReaped \/ Kill \/ StdinBreaks \/ Interrupts
    BY <2>2 DEF EnterTry, ChildExits, ChildReaped, Kill, StdinBreaks, Interrupts,
                SpawnInterrupted, Terminate, InterruptedAgain, JoinInterrupted,
                Interrupted, Leaves, ToJoin, reading
  <2> QED BY <1>6, <2>1, <2>2 DEF RunnerStep
<1> QED BY RunnerSteps, <1>1, <1>2, <1>3, <1>4, <1>5, <1>6

(***************************************************************************)
(* Interrupts and the child.                                               *)
(***************************************************************************)

\* Every step keeps account of the child.
LEMMA ChildNext == ChildAccounted /\ InterruptEndsChild /\ [Next]_vars
                     => ChildAccounted' /\ InterruptEndsChild'
<1> USE DEF ChildAccounted, InterruptEndsChild
<1> SUFFICES ASSUME ChildAccounted, InterruptEndsChild, [Next]_vars
             PROVE  ChildAccounted' /\ InterruptEndsChild'
  OBVIOUS
<1>1. CASE UNCHANGED runnerVars
  BY <1>1 DEF runnerVars, process, counts
<1>2. CASE CommandStarts
  BY <1>2 DEF CommandStarts, Start, SpawnFails, process, KindOf
<1>3. CASE CommandEnds
  BY <1>3 DEF CommandEnds, Return, FinishFails, Raise, CapturedReturns,
              CapturedInterrupted, Interrupted, Leaves, process, counts
<1>4. CASE Recovers
  BY <1>4 DEF Recovers, Recover, process, counts
<1>5. CASE \E st \in Stream : CommandOutput(st)
  BY <1>5 DEF CommandOutput, RecordShown, RecordFails, RecordDropped, process, counts
<1>6. CASE RunnerStep
  <2>1. CASE \E st \in Stream : ChildWrites(st) \/ ReaderSteps(st) \/ ReaderStarts(st)
    BY <2>1 DEF ChildWrites, ReaderSteps, ReadChunk, ReadEnd, ReaderEnds, ReaderStarts,
                process, counts
  <2>2. CASE EnterTry \/ ChildExits \/ ChildReaped \/ Kill \/ StdinBreaks
    BY <2>2 DEF EnterTry, ChildExits, ChildReaped, Kill, StdinBreaks, ToJoin, process,
                counts
  <2>3. CASE Interrupts
    BY <2>3 DEF Interrupts, SpawnInterrupted, Terminate, InterruptedAgain,
                JoinInterrupted, Interrupted, Leaves, ToJoin
  <2> QED BY <1>6, <2>1, <2>2, <2>3 DEF RunnerStep
<1> QED BY RunnerSteps, <1>1, <1>2, <1>3, <1>4, <1>5, <1>6

(***************************************************************************)
(* Heartbeats.                                                             *)
(***************************************************************************)

\* Every step keeps the heartbeat within its stage.
LEMMA HeartbeatNext == HeartbeatOfStage /\ [Next]_vars => HeartbeatOfStage'
<1> USE DEF HeartbeatOfStage, Stage
<1> SUFFICES ASSUME HeartbeatOfStage, [Next]_vars PROVE HeartbeatOfStage'
  OBVIOUS
<1>1. CASE StageStarted
  BY <1>1 DEF StageStarted
<1>2. CASE Ask \/ Answer \/ StagePasses \/ StageFails
  BY <1>2 DEF Ask, Answer, StagePasses, StageFails, StopHeartbeat
<1>3. CASE StagePassed \/ Finished
  BY <1>3 DEF StagePassed, Finished, HeartbeatJoined
<1>4. ASSUME NEW s \in Stage, Wakes(s) \/ Consume(s) \/ Wait(s) \/ HeartbeatEnds(s)
      PROVE  HeartbeatOfStage'
  BY <1>4 DEF Wakes, Consume, Wait, HeartbeatEnds
<1>5. CASE UNCHANGED <<main, stage, hb>>
  BY <1>5
<1>6. CASE IntervalPasses \/ Recovers \/ RunnerStep \/ Over \/ UNCHANGED vars
  BY <1>5, <1>6 DEF IntervalPasses, Recovers, RunnerStep, Over, vars, progressVars
<1>7. CASE CommandStarts \/ CommandEnds \/ \E st \in Stream : CommandOutput(st)
  BY <1>5, <1>7 DEF CommandStarts, CommandEnds, CommandOutput
<1> QED BY <1>1, <1>2, <1>3, <1>4, <1>6, <1>7 DEF Next

(***************************************************************************)
(* The theorems.                                                           *)
(***************************************************************************)

\* Every step keeps the three parts.
LEMMA ProgressNext == ProgressInv /\ [Next]_vars => ProgressInv'
BY LogNext, ChildNext, HeartbeatNext DEF ProgressInv

\* The three parts of the invariant hold in every reachable state.
THEOREM Invariance == Spec => []ProgressInv
BY ProgressInit, ProgressNext, PTL DEF Spec

\* No record of the log or the terminal ever has the secret of a command,
\* although readers outlive an interrupted call and the secrets are forgotten
\* when a call returns.
THEOREM SecretsHidden == Spec => []LogRedacted
<1>1. ProgressInv => LogRedacted
  BY DEF ProgressInv
<1> QED BY Invariance, <1>1, PTL

\* After one Ctrl-C an observed child that was in the guarded wait has been waited
\* for, and a captured one waited for or killed, when the interrupt leaves the
\* call, whatever the child, the readers and the observer do.
THEOREM ChildWaitedFor == Spec => []InterruptEndsChild
<1>1. ProgressInv => InterruptEndsChild
  BY DEF ProgressInv
<1> QED BY Invariance, <1>1, PTL

\* A WAIT is never printed after the PASS or FAIL of the stage it names: the
\* thread is joined before, in every order of the two threads.
THEOREM WaitsInTime == Spec => NoLateWait
<1>1. ProgressInv /\ [Next]_vars =>
        [(event'.kind = "WAIT" /\ event' # event)
           => /\ event'.stage = stage
              /\ main \in {"stage", "prompt", "passing", "failing"}]_event
  <2> SUFFICES ASSUME ProgressInv, [Next]_vars, event'.kind = "WAIT", event' # event
               PROVE  /\ event'.stage = stage
                      /\ main \in {"stage", "prompt", "passing", "failing"}
    OBVIOUS
  <2>1. PICK s \in Stage : Wait(s)
    BY DEF Next, vars, progressVars, Emit, StageStarted, Ask, Answer, StagePasses,
           StageFails, StopHeartbeat, StagePassed, Finished, IntervalPasses, Wakes,
           Consume, HeartbeatEnds, CommandStarts, CommandEnds, CommandOutput, Recovers,
           RunnerStep, Over
  <2> QED BY <2>1 DEF Wait, ProgressInv, HeartbeatOfStage
<1> QED BY Invariance, <1>1, PTL DEF Spec, NoLateWait

(***************************************************************************)
(* Types.                                                                  *)
(***************************************************************************)

CallTypes ==
  /\ pc \in {"caller", "captured", "spawned", "wait", "grace", "killed", "join",
             "raised"}
  /\ leaving \in {"returns", "interrupt", "error", "unguarded"}
  /\ kind \in {"none", "captured", "live", "protocol"}
  /\ child \in {"none", "running", "exited", "reaped"}
  /\ signal \in {"none", "term", "kill"}
  /\ result \in {"none", "returned", "error", "interrupt"}
  /\ commands \in 0..MaxCommands
  /\ faults \in 0..MaxFaults
  /\ interrupts \in 0..MaxInterrupts

StreamTypes ==
  /\ script \in Scripts
  /\ sent \in [Stream -> Nat]
  /\ pipe \in [Stream -> Seq(Char)]
  /\ reader \in [Stream -> {"off", "reading", "final", "done"}]
  /\ pending \in [Stream -> Seq(Char)]
  /\ records \in [Stream -> Seq(Seq(Char))]
  /\ shown \in [Stream -> Seq(Seq(Rendered))]
  /\ kept \in [Stream -> Buffer]
  /\ \A st \in Stream : sent[st] <= Len(script[st]) /\ Len(pipe[st]) <= PipeCap

ReporterTypes ==
  /\ main \in {"between", "stage", "prompt", "passing", "failing", "closed"}
  /\ stage \in 0..Stages
  /\ hb \in [Stage -> {"none", "asleep", "checked", "due", "dead"}]
  /\ stop \in [Stage -> BOOLEAN]

EventType == event \in [kind: Kinds, stage: 0..Stages]

Flags ==
  /\ secrets \in BOOLEAN /\ obsError \in BOOLEAN
  /\ silent \in BOOLEAN /\ paused \in BOOLEAN /\ logOpen \in BOOLEAN

\* TypeOK does not say what records and shown are, which every next step needs.
TypeInv == CallTypes /\ StreamTypes /\ ReporterTypes /\ EventType /\ Flags

\* The parts make up the type invariant of the module.
LEMMA TypesTogether == TypeInv => TypeOK
<1> SUFFICES ASSUME CallTypes, StreamTypes, ReporterTypes, EventType, Flags PROVE TypeOK
  BY DEF TypeInv
<1>1. ASSUME NEW st \in Stream
      PROVE  /\ sent[st] \in 0..Len(script[st])
             /\ pipe[st] \in Seq(Char) /\ Len(pipe[st]) <= PipeCap
             /\ reader[st] \in {"off", "reading", "final", "done"}
             /\ pending[st] \in Seq(Char)
             /\ kept[st] \in Buffer
  <2>1. Len(script[st]) \in Nat
    BY LenProperties, CommandRunnerAssumption DEF StreamTypes, Scripts
  <2> QED BY <2>1 DEF StreamTypes
<1>2. RunnerTypeOK
  BY <1>1, Zenon DEF RunnerTypeOK, CallTypes, StreamTypes, Flags
<1> QED BY <1>2, Zenon DEF TypeOK, ReporterTypes, EventType, Flags

\* What a child writes is a text.
LEMMA ScriptType ==
  ASSUME NEW text \in Scripts, NEW st \in Stream
  PROVE  text[st] \in Seq(Char) /\ Len(text[st]) \in Nat
<1>1. text[st] \in Seq(Char)
  BY CommandRunnerAssumption DEF Scripts
<1> QED BY <1>1, LenProperties

\* The types of the call are kept by every step.
LEMMA CallTypesNext == CallTypes /\ [Next]_vars => CallTypes'
<1> USE DEF CallTypes
<1> SUFFICES ASSUME CallTypes, [Next]_vars PROVE CallTypes'
  OBVIOUS
<1>0. MaxCommands \in Nat /\ MaxFaults \in Nat /\ MaxInterrupts \in Nat
  BY CommandRunnerAssumption
<1>1. CASE UNCHANGED runnerVars
  BY <1>1 DEF runnerVars, process, counts
<1>2. CASE CommandStarts
  <2>1. ASSUME NEW c PROVE KindOf(c) \in {"captured", "live", "protocol"}
    BY DEF KindOf
  <2>2. ASSUME NEW c, NEW text, Start(c, text) PROVE CallTypes'
    <3>1. /\ commands < MaxCommands /\ commands' = commands + 1
          /\ kind' \in {"captured", "live", "protocol"} /\ pc' \in {"captured", "spawned"}
          /\ leaving' = "returns" /\ child' = "running" /\ signal' = "none"
          /\ result' = "none" /\ faults' = faults /\ interrupts' = interrupts
      BY <2>1, <2>2 DEF Start
    <3> QED BY <1>0, <3>1
  <2>3. ASSUME NEW c, SpawnFails(c) PROVE CallTypes'
    <3>1. /\ commands < MaxCommands /\ commands' = commands + 1
          /\ faults < MaxFaults /\ faults' = faults + 1
          /\ kind' \in {"captured", "live", "protocol"} /\ pc' = "raised"
          /\ leaving' = leaving /\ child' = child /\ signal' = signal
          /\ result' = "error" /\ interrupts' = interrupts
      BY <2>1, <2>3 DEF SpawnFails, process
    <3> QED BY <1>0, <3>1
  <2> QED BY <1>2, <2>2, <2>3 DEF CommandStarts
<1>3. CASE CommandEnds
  <2>1. CASE Return \/ Raise
    BY <2>1 DEF Return, Raise, process, counts
  <2>2. CASE FinishFails
    BY <1>0, <2>2 DEF FinishFails, process
  <2>3. CASE CapturedReturns \/ CapturedInterrupted
    BY <1>0, <2>3 DEF CapturedReturns, CapturedInterrupted, Interrupted, Leaves, counts
  <2> QED BY <1>3, <2>1, <2>2, <2>3 DEF CommandEnds
<1>4. CASE Recovers
  BY <1>4 DEF Recovers, Recover, process, counts
<1>5. ASSUME NEW st \in Stream, CommandOutput(st) PROVE CallTypes'
  <2>1. CASE RecordShown(st) /\ UNCHANGED faults
    BY <2>1 DEF RecordShown, process, counts
  <2>2. CASE RecordFails(st) /\ (logOpen => faults < MaxFaults)
             /\ faults' = IF logOpen THEN faults + 1 ELSE faults
    BY <1>0, <2>2 DEF RecordFails, process
  <2>3. CASE RecordDropped(st)
    BY <2>3 DEF RecordDropped, process, counts
  <2> QED BY <1>5, <2>1, <2>2, <2>3 DEF CommandOutput
<1>6. CASE RunnerStep
  <2>1. ASSUME NEW st \in Stream, ChildWrites(st) \/ ReaderSteps(st) \/ ReaderStarts(st)
        PROVE  CallTypes'
    BY <2>1 DEF ChildWrites, ReaderSteps, ReadChunk, ReadEnd, ReaderEnds, ReaderStarts,
                process, counts
  <2>2. CASE EnterTry \/ ChildExits \/ ChildReaped \/ Kill \/ StdinBreaks
    BY <1>0, <2>2 DEF EnterTry, ChildExits, ChildReaped, Kill, StdinBreaks, ToJoin, process, counts
  <2>3. CASE Interrupts
    BY <1>0, <2>3 DEF Interrupts, SpawnInterrupted, Terminate, InterruptedAgain,
                      JoinInterrupted, Interrupted, Leaves, ToJoin
  <2> QED BY <1>6, <2>1, <2>2, <2>3 DEF RunnerStep
<1> QED BY RunnerSteps, <1>1, <1>2, <1>3, <1>4, <1>5, <1>6

\* Those of the reporter.
LEMMA ReporterTypesNext == ReporterTypes /\ [Next]_vars => ReporterTypes'
<1> USE DEF ReporterTypes
<1> SUFFICES ASSUME ReporterTypes, [Next]_vars PROVE ReporterTypes'
  OBVIOUS
<1>0. Stages \in Nat \ {0} /\ Stage = 1..Stages
  BY InstallerProgressAssumption DEF Stage
<1>1. CASE StageStarted
  BY <1>0, <1>1 DEF StageStarted, StagesLeft
<1>2. CASE Ask \/ Answer \/ StagePasses \/ StageFails
  BY <1>2 DEF Ask, Answer, StagePasses, StageFails, StopHeartbeat
<1>3. CASE StagePassed \/ Finished
  BY <1>3 DEF StagePassed, Finished
<1>4. ASSUME NEW s \in Stage, Wakes(s) \/ Consume(s) \/ Wait(s) \/ HeartbeatEnds(s)
      PROVE  ReporterTypes'
  BY <1>4 DEF Wakes, Consume, Wait, HeartbeatEnds
<1>5. CASE UNCHANGED <<main, stage, hb, stop>>
  BY <1>5
<1>6. CASE IntervalPasses \/ Recovers \/ RunnerStep \/ Over \/ UNCHANGED vars
  BY <1>5, <1>6 DEF IntervalPasses, Recovers, RunnerStep, Over, vars, progressVars
<1>7. CASE CommandStarts \/ CommandEnds \/ \E st \in Stream : CommandOutput(st)
  BY <1>5, <1>7 DEF CommandStarts, CommandEnds, CommandOutput
<1> QED BY <1>1, <1>2, <1>3, <1>4, <1>6, <1>7 DEF Next

\* Those of the printed event.
LEMMA EventTypeNext == ReporterTypes /\ EventType /\ [Next]_vars => EventType'
<1> USE DEF EventType, Kinds
<1> SUFFICES ASSUME ReporterTypes, EventType, [Next]_vars PROVE EventType'
  OBVIOUS
<1>0. stage \in 0..Stages /\ Stages \in Nat /\ Stage = 1..Stages
  BY InstallerProgressAssumption DEF ReporterTypes, Stage
<1>1. CASE StageStarted
  <2>1. event' = [kind |-> "START", stage |-> stage + 1] /\ stage + 1 \in 0..Stages
    BY <1>0, <1>1 DEF StageStarted, StagesLeft
  <2> QED BY <2>1
<1>2. CASE StagePassed \/ Finished \/ CommandStarts
  <2>1. \E k \in Kinds : event' = [kind |-> k, stage |-> stage]
    BY <1>2 DEF StagePassed, Finished, CommandStarts, Emit
  <2> QED BY <1>0, <2>1
<1>3. ASSUME NEW s \in Stage, Wait(s) PROVE EventType'
  <2>1. event' = event \/ event' = [kind |-> "WAIT", stage |-> s]
    BY <1>3 DEF Wait
  <2>2. s \in 0..Stages
    BY <1>0
  <2> QED BY <2>1, <2>2
<1>4. CASE UNCHANGED event
  BY <1>4
<1>5. CASE Ask \/ Answer \/ StagePasses \/ StageFails \/ IntervalPasses
  BY <1>4, <1>5 DEF Ask, Answer, StagePasses, StageFails, StopHeartbeat, IntervalPasses
<1>6. CASE \E s \in Stage : Wakes(s) \/ Consume(s) \/ HeartbeatEnds(s)
  BY <1>4, <1>6 DEF Wakes, Consume, HeartbeatEnds
<1>7. CASE Recovers \/ RunnerStep \/ Over \/ UNCHANGED vars
  BY <1>4, <1>7 DEF Recovers, RunnerStep, Over, vars, progressVars
<1>8. CASE CommandEnds \/ \E st \in Stream : CommandOutput(st)
  BY <1>4, <1>8 DEF CommandEnds, CommandOutput
<1> QED BY <1>1, <1>2, <1>3, <1>5, <1>6, <1>7, <1>8 DEF Next

\* Those of the flags.
LEMMA FlagsNext == Flags /\ [Next]_vars => Flags'
<1> USE DEF Flags
<1> SUFFICES ASSUME Flags, [Next]_vars PROVE Flags'
  OBVIOUS
<1> DEFINE Reporter == silent' \in BOOLEAN /\ paused' \in BOOLEAN /\ logOpen' \in BOOLEAN
           Runner == secrets' \in BOOLEAN /\ obsError' \in BOOLEAN
<1>1. ASSUME UNCHANGED <<secrets, obsError>> PROVE Runner
  BY <1>1, Zenon
<1>2. ASSUME UNCHANGED <<silent, paused, logOpen>> PROVE Reporter
  BY <1>2, Zenon
<1>3. ASSUME UNCHANGED runnerVars PROVE Runner
  <2>1. UNCHANGED <<secrets, obsError>>
    BY <1>3 DEF runnerVars, reading
  <2> QED BY <1>1, <2>1
<1>4. ASSUME UNCHANGED progressVars PROVE Reporter
  <2>1. UNCHANGED <<silent, paused, logOpen>>
    BY <1>4 DEF progressVars
  <2> QED BY <1>2, <2>1
<1>5. CASE StageStarted \/ Ask \/ Answer \/ StagePasses \/ StageFails
  <2>1. UNCHANGED runnerVars
    BY <1>5 DEF StageStarted, Ask, Answer, StagePasses, StageFails, StopHeartbeat
  <2>2. Reporter
    BY <1>5, Zenon DEF StageStarted, Ask, Answer, StagePasses, StageFails,
                       StopHeartbeat, Activity
  <2> QED BY <1>3, <2>1, <2>2, Zenon
<1>6. CASE StagePassed \/ Finished \/ IntervalPasses
  <2>1. UNCHANGED runnerVars
    BY <1>6 DEF StagePassed, Finished, IntervalPasses
  <2>2. Reporter
    BY <1>6, Zenon DEF StagePassed, Finished, IntervalPasses, Activity
  <2> QED BY <1>3, <2>1, <2>2, Zenon
<1>7. ASSUME NEW s \in Stage, Wakes(s) \/ Consume(s) \/ Wait(s) \/ HeartbeatEnds(s)
      PROVE  Flags'
  <2>1. UNCHANGED runnerVars
    BY <1>7 DEF Wakes, Consume, Wait, HeartbeatEnds
  <2>2. Reporter
    BY <1>7, Zenon DEF Wakes, Consume, Wait, HeartbeatEnds, Activity
  <2> QED BY <1>3, <2>1, <2>2, Zenon
<1>8. CASE CommandStarts
  <2>1. ASSUME NEW c, NEW text, Start(c, text) PROVE Runner
    BY <2>1, Zenon DEF Start
  <2>2. ASSUME NEW c, SpawnFails(c) PROVE Runner
    <3>1. secrets' = TRUE /\ UNCHANGED reading
      BY <2>2, Zenon DEF SpawnFails
    <3>2. obsError' = obsError
      BY <3>1 DEF reading
    <3> QED BY <3>1, <3>2, Zenon
  <2>3. Reporter
    BY <1>8, Zenon DEF CommandStarts, Activity
  <2> QED BY <1>8, <2>1, <2>2, <2>3, Zenon DEF CommandStarts
<1>9. CASE CommandEnds
  <2>1. /\ UNCHANGED reading
        /\ secrets' = FALSE \/ secrets' = secrets
    BY <1>9, Zenon DEF CommandEnds, Return, Raise, FinishFails, CapturedReturns,
                       CapturedInterrupted, Interrupted, reading
  <2>2. obsError' = obsError
    BY <2>1 DEF reading
  <2>3. Reporter
    BY <1>9, Zenon DEF CommandEnds, Activity
  <2> QED BY <2>1, <2>2, <2>3, Zenon
<1>10. ASSUME NEW st \in Stream, CommandOutput(st) PROVE Flags'
  <2>1. Runner
    BY <1>10, Zenon DEF CommandOutput, RecordShown, RecordFails, RecordDropped
  <2>2. Reporter
    BY <1>10, Zenon DEF CommandOutput, Activity
  <2> QED BY <2>1, <2>2, Zenon
<1>11. CASE Recovers
  <2>1. UNCHANGED <<secrets, reading>> /\ UNCHANGED progressVars
    BY <1>11, Zenon DEF Recovers, Recover
  <2>2. UNCHANGED <<secrets, obsError>>
    BY <2>1 DEF reading
  <2> QED BY <1>1, <1>4, <2>1, <2>2, Zenon
<1>12. CASE RunnerStep
  <2>1. ASSUME NEW st \in Stream, ChildWrites(st) \/ ReaderSteps(st) \/ ReaderStarts(st)
        PROVE  Runner
    <3>1. UNCHANGED <<secrets, obsError>>
      BY <2>1 DEF ChildWrites, ReaderSteps, ReadChunk, ReadEnd, ReaderEnds, ReaderStarts,
                  reading
    <3> QED BY <1>1, <3>1
  <2>2. ASSUME EnterTry \/ ChildExits \/ ChildReaped \/ Kill \/ StdinBreaks \/ Interrupts
        PROVE  Runner
    <3>1. UNCHANGED <<secrets, obsError>>
      BY <2>2 DEF EnterTry, ChildExits, ChildReaped, Kill, StdinBreaks, Interrupts,
                  SpawnInterrupted, Terminate, InterruptedAgain, JoinInterrupted,
                  Interrupted, reading
    <3> QED BY <1>1, <3>1
  <2>3. Reporter
    BY <1>4, <1>12, Zenon DEF RunnerStep
  <2>4. Runner
    BY <1>12, <2>1, <2>2, Zenon DEF RunnerStep
  <2> QED BY <2>3, <2>4, Zenon
<1>13. CASE Over \/ UNCHANGED vars
  <2>1. UNCHANGED runnerVars /\ UNCHANGED progressVars
    BY <1>13 DEF Over, vars
  <2> QED BY <1>3, <1>4, <2>1, Zenon
<1> QED BY <1>5, <1>6, <1>7, <1>8, <1>9, <1>10, <1>11, <1>12, <1>13, Zenon DEF Next

\* A record rendered with the secrets loaded.
LEMMA RenderShown ==
  ASSUME NEW text \in Seq(Char), secrets
  PROVE  Render(text) \in Seq(Rendered) /\ RenderingOf(Render(text), text)
<1> DEFINE new == Render(text)
<1>1. Len(text) \in Nat /\ DOMAIN text = 1..Len(text)
  BY LenProperties
<1>2. \A i \in 1..Len(text) : text[i] \in {"x", "s", "t", "r", "n"}
  BY ElementOfSeq DEF Char
<1>3. /\ DOMAIN new = 1..Len(text)
      /\ \A i \in 1..Len(text) :
           new[i] = IF i \in Secret(text) THEN "*"
                    ELSE IF text[i] = "r" THEN "n" ELSE text[i]
  BY <1>1 DEF Render
<1>4. \A i \in Secret(text) : text[i] \in {"s", "t"}
  BY DEF Secret
<1>5. new \in [1..Len(text) -> Rendered]
  BY <1>1, <1>2 DEF Render, Rendered
<1> HIDE DEF new
<1>6. new \in Seq(Rendered)
  BY <1>1, <1>5, SeqDef
<1>7. Len(new) = Len(text)
  <2>1. DOMAIN new = 1..Len(new) /\ Len(new) \in Nat
    BY <1>6, LenProperties
  <2> QED BY <1>1, <1>3, <2>1, SameEnd
<1>8. ASSUME NEW i \in 1..Len(text)
      PROVE  /\ (IF new[i] \in {"s", "t"} THEN "*" ELSE new[i]) =
                  IF text[i] \in {"s", "t"} THEN "*"
                  ELSE IF text[i] = "r" THEN "n" ELSE text[i]
             /\ new[i] = "n" => text[i] \in {"n", "r"}
  BY <1>2, <1>3, <1>4
<1>9. Veil(new) = Shown(text)
  BY <1>1, <1>3, <1>8 DEF Veil, Shown
<1> QED BY <1>6, <1>7, <1>8, <1>9 DEF RenderingOf, new

\* The buffers of the runner remain buffers.
LEMMA KeptType ==
  ASSUME NEW buffer \in Buffer, NEW value \in Seq(Char \union {"*"})
  PROVE  Keep(buffer, value) \in Buffer
BY KeepType DEF Buffer

\* What a record looks like in the log.
LEMMA RenderType ==
  ASSUME NEW list \in Seq(Seq(Char)), list # <<>>, secrets
  PROVE  /\ Tail(list) \in Seq(Seq(Char))
         /\ Render(Head(list)) \in Seq(Rendered)
         /\ Render(Head(list)) \in Seq(Char \union {"*"})
<1>1. Head(list) \in Seq(Char) /\ Tail(list) \in Seq(Seq(Char))
  BY HeadTailProperties
<1>2. Render(Head(list)) \in Seq(Rendered)
  BY <1>1, RenderShown
<1>3. Rendered \subseteq Char \union {"*"}
  BY DEF Rendered, Char
<1>4. Render(Head(list)) \in Seq(Char \union {"*"})
  BY <1>2, <1>3, SeqMonotonic
<1> QED BY <1>1, <1>2, <1>4

\* Records and remainder are texts.
LEMMA CutType ==
  ASSUME NEW value \in Seq(Char), NEW final \in BOOLEAN
  PROVE  LET cut == CompleteRecords(value, final)
         IN cut.records \in Seq(Seq(Char)) /\ cut.pending \in Seq(Char)
<1> DEFINE cut == CompleteRecords(value, final)
<1>1. PICK q : Completed(value, final, cut, q)
  BY CompleteRecordsShow
<1> HIDE DEF cut
<1>2. /\ q \in 0..Len(value) /\ cut.records \in Seq(Seq(Char))
      /\ cut.pending = SubSeq(value, q + 1, Len(value))
  BY <1>1 DEF Completed
<1>3. SubSeq(value, q + 1, Len(value)) \in Seq(Char)
  BY <1>2, CutSeq
<1> QED BY <1>2, <1>3 DEF cut

\* The types of the streams are kept: a record is rendered with secrets loaded.
LEMMA StreamTypesNext == StreamTypes /\ RecordsGuarded /\ [Next]_vars => StreamTypes'
<1> SUFFICES ASSUME StreamTypes, RecordsGuarded, [Next]_vars PROVE StreamTypes'
  OBVIOUS
<1>0. \A st \in Stream : script[st] \in Seq(Char) /\ Len(script[st]) \in Nat
  BY ScriptType DEF StreamTypes
<1>1. CASE UNCHANGED <<script, sent, pipe, reading>>
  BY <1>1 DEF StreamTypes, reading
<1>2. CASE UNCHANGED runnerVars
  BY <1>1, <1>2 DEF runnerVars, process
<1>3. CASE CommandStarts
  <2>1. ASSUME NEW c, NEW text \in Scripts, Start(c, text) PROVE StreamTypes'
    <3>1. /\ script' = text /\ sent' = [st \in Stream |-> 0]
          /\ pipe' = [st \in Stream |-> <<>>] /\ pending' = [st \in Stream |-> <<>>]
          /\ records' = [st \in Stream |-> <<>>] /\ shown' = [st \in Stream |-> <<>>]
          /\ kept' = [st \in Stream |-> EmptyBuffer]
          /\ reader' \in [Stream -> {"off", "reading", "final", "done"}]
      BY <2>1 DEF Start
    <3>2. \A st \in Stream : Len(text[st]) \in Nat
      BY ScriptType
    <3>3. EmptyBuffer \in Buffer
      BY EmptySeq DEF EmptyBuffer, Buffer
    <3>4. \A st \in Stream : sent'[st] <= Len(script'[st]) /\ Len(pipe'[st]) <= PipeCap
      BY <3>1, <3>2, EmptySeq, CommandRunnerAssumption
    <3> QED BY <3>1, <3>3, <3>4, EmptySeq DEF StreamTypes
  <2>2. ASSUME NEW c, SpawnFails(c) PROVE StreamTypes'
    BY <1>1, <2>2 DEF SpawnFails, process
  <2> QED BY <1>3, <2>1, <2>2 DEF CommandStarts
<1>4. CASE CommandEnds
  <2>1. CASE Return \/ FinishFails \/ Raise
    BY <1>1, <2>1 DEF Return, FinishFails, Raise, process
  <2>3. CASE CapturedInterrupted
    BY <1>1, <2>3 DEF CapturedInterrupted, Interrupted, process
  <2>2. CASE CapturedReturns
    <3>1. /\ sent' = [st \in Stream |-> Len(script[st])]
          /\ UNCHANGED <<script, pipe, reading>>
      BY <2>2 DEF CapturedReturns
    <3>2. sent' \in [Stream -> Nat] /\ \A st \in Stream : sent'[st] <= Len(script[st])
      BY <1>0, <3>1
    <3> QED BY <3>1, <3>2 DEF StreamTypes, reading
  <2> QED BY <1>4, <2>1, <2>2, <2>3 DEF CommandEnds
<1>5. CASE Recovers
  BY <1>1, <1>5 DEF Recovers, Recover, process
<1>6. ASSUME NEW st \in Stream, CommandOutput(st) PROVE StreamTypes'
  <2>1. records[st] # <<>> /\ records' = [records EXCEPT ![st] = Tail(@)]
        /\ UNCHANGED <<script, sent, pipe, reader, pending>>
    BY <1>6 DEF CommandOutput, RecordShown, RecordFails, RecordDropped, Take, process
  <2>2. records[st] \in Seq(Seq(Char)) /\ secrets
    BY <2>1 DEF StreamTypes, RecordsGuarded
  <2>3. records' \in [Stream -> Seq(Seq(Char))]
    BY <2>1, <2>2, RenderType DEF StreamTypes
  <2>4. shown' \in [Stream -> Seq(Seq(Rendered))] /\ kept' \in [Stream -> Buffer]
    <3>1. CASE RecordShown(st)
      <4> DEFINE rendered == Render(Head(records[st]))
      <4>1. /\ shown' = [shown EXCEPT ![st] = Append(@, rendered)]
            /\ kept' = [kept EXCEPT ![st] = Keep(@, rendered)]
        BY <3>1 DEF RecordShown
      <4>2. rendered \in Seq(Rendered) /\ rendered \in Seq(Char \union {"*"})
        BY <2>1, <2>2, RenderType
      <4> HIDE DEF rendered
      <4>3. Append(shown[st], rendered) \in Seq(Seq(Rendered))
        BY <4>2, AppendProperties DEF StreamTypes
      <4>4. Keep(kept[st], rendered) \in Buffer
        BY <4>2, KeptType DEF StreamTypes
      <4> QED BY <4>1, <4>3, <4>4 DEF StreamTypes
    <3>2. CASE RecordFails(st) \/ RecordDropped(st)
      BY <3>2 DEF RecordFails, RecordDropped, StreamTypes
    <3> QED BY <1>6, <3>1, <3>2 DEF CommandOutput
  <2> QED BY <2>1, <2>3, <2>4 DEF StreamTypes
<1>7. ASSUME NEW st \in Stream, ChildWrites(st) PROVE StreamTypes'
  <2>1. /\ sent[st] < Len(script[st]) /\ Len(pipe[st]) < PipeCap
        /\ pipe' = [pipe EXCEPT ![st] = Append(@, script[st][sent[st] + 1])]
        /\ sent' = [sent EXCEPT ![st] = @ + 1]
        /\ UNCHANGED <<script, reading>>
    BY <1>7 DEF ChildWrites
  <2> DEFINE new == script[st][sent[st] + 1]
  <2>2. sent[st] \in Nat /\ pipe[st] \in Seq(Char) /\ Len(pipe[st]) \in Nat
    BY LenProperties DEF StreamTypes
  <2>3. new \in Char
    <3>1. sent[st] + 1 \in 1..Len(script[st])
      BY <1>0, <2>1, <2>2
    <3> QED BY <1>0, <3>1, ElementOfSeq
  <2> HIDE DEF new
  <2>4. Append(pipe[st], new) \in Seq(Char) /\ Len(Append(pipe[st], new)) = Len(pipe[st]) + 1
    BY <2>2, <2>3, AppendProperties
  <2>5. Len(pipe[st]) + 1 <= PipeCap /\ sent[st] + 1 <= Len(script[st]) /\ sent[st] + 1 \in Nat
    BY SMTT(30), <1>0, <2>1, <2>2, CommandRunnerAssumption
  <2>6. pipe' = [pipe EXCEPT ![st] = Append(@, new)]
    BY <2>1 DEF new
  <2>7. \A other \in Stream :
          sent'[other] <= Len(script[other]) /\ Len(pipe'[other]) <= PipeCap
    BY <2>1, <2>4, <2>5, <2>6 DEF StreamTypes
  <2>8. pipe' \in [Stream -> Seq(Char)] /\ sent' \in [Stream -> Nat]
    BY <2>1, <2>4, <2>5, <2>6 DEF StreamTypes
  <2> QED BY <2>1, <2>7, <2>8 DEF StreamTypes, reading
<1>8. ASSUME NEW st \in Stream, ReadChunk(st) PROVE StreamTypes'
  <2> DEFINE cut == CompleteRecords(pending[st] \o pipe[st], FALSE)
  <2>1. pending[st] \in Seq(Char) /\ pipe[st] \in Seq(Char) /\ kept[st] \in Buffer
    BY DEF StreamTypes
  <2>2. cut.records \in Seq(Seq(Char)) /\ cut.pending \in Seq(Char)
    BY <2>1, ConcatProperties, CutType
  <2>3. /\ pipe' = [pipe EXCEPT ![st] = <<>>]
        /\ UNCHANGED <<script, sent, reader, shown>>
        /\ \/ /\ records' = [records EXCEPT ![st] = cut.records]
              /\ pending' = [pending EXCEPT ![st] = cut.pending]
              /\ UNCHANGED kept
           \/ /\ kept' = [kept EXCEPT ![st] = Keep(@, pipe[st])]
              /\ UNCHANGED <<records, pending>>
    BY <1>8 DEF ReadChunk
  <2> HIDE DEF cut
  <2>4. Keep(kept[st], pipe[st]) \in Buffer
    <3>1. Char \subseteq Char \union {"*"}
      OBVIOUS
    <3>2. pipe[st] \in Seq(Char \union {"*"})
      BY <2>1, <3>1, SeqMonotonic
    <3> QED BY <2>1, <3>2, KeptType
  <2>5. /\ records' \in [Stream -> Seq(Seq(Char))] /\ pending' \in [Stream -> Seq(Char)]
        /\ kept' \in [Stream -> Buffer]
    BY <2>2, <2>3, <2>4 DEF StreamTypes
  <2>6. pipe' \in [Stream -> Seq(Char)] /\ \A other \in Stream : Len(pipe'[other]) <= PipeCap
    BY <2>3, EmptySeq, CommandRunnerAssumption DEF StreamTypes
  <2> QED BY <2>3, <2>5, <2>6 DEF StreamTypes
<1>9. ASSUME NEW st \in Stream, ReadEnd(st) PROVE StreamTypes'
  <2> DEFINE cut == CompleteRecords(pending[st], TRUE)
  <2>1. pending[st] \in Seq(Char)
    BY DEF StreamTypes
  <2>2. cut.records \in Seq(Seq(Char))
    BY <2>1, CutType
  <2>3. /\ reader' = [reader EXCEPT ![st] = "final"]
        /\ records' = [records EXCEPT ![st] = IF Observed(st) THEN cut.records ELSE <<>>]
        /\ pending' = [pending EXCEPT ![st] = <<>>]
        /\ UNCHANGED <<script, sent, pipe, shown, kept>>
    BY <1>9 DEF ReadEnd, process
  <2> HIDE DEF cut
  <2> QED BY <2>2, <2>3, EmptySeq DEF StreamTypes
<1>10. ASSUME NEW st \in Stream, ReaderEnds(st) PROVE StreamTypes'
  BY <1>10 DEF ReaderEnds, process, StreamTypes
<1>13. ASSUME NEW st \in Stream, ReaderStarts(st) PROVE StreamTypes'
  BY <1>13 DEF ReaderStarts, process, StreamTypes
<1>11. CASE EnterTry \/ ChildExits \/ ChildReaped \/ Kill \/ StdinBreaks \/ Interrupts
  BY <1>1, <1>11 DEF EnterTry, ChildExits, ChildReaped, Kill, StdinBreaks, Interrupts,
                     SpawnInterrupted, Terminate, InterruptedAgain, JoinInterrupted,
                     Interrupted, process
<1>12. CASE RunnerStep
  BY <1>7, <1>8, <1>9, <1>10, <1>11, <1>12, <1>13 DEF RunnerStep, ReaderSteps
<1> QED BY RunnerSteps, <1>2, <1>3, <1>4, <1>5, <1>6, <1>12

\* The types hold at the start, and every step keeps them.
LEMMA TypeInit == Init => TypeInv
<1> SUFFICES ASSUME Init PROVE TypeInv
  OBVIOUS
<1>0. /\ MaxCommands \in Nat /\ MaxFaults \in Nat /\ MaxInterrupts \in Nat
      /\ MaxText \in Nat /\ PipeCap \in Nat /\ <<>> \in Texts /\ Stages \in Nat \ {0}
  BY CommandRunnerAssumption, InstallerProgressAssumption
<1>1. CallTypes
  BY <1>0 DEF Init, RunnerInit, CallTypes
<1>2. StreamTypes
  <2>1. [st \in Stream |-> <<>>] \in Scripts
    BY <1>0, EmptySeq DEF Scripts, Stream
  <2>2. EmptyBuffer \in Buffer
    BY EmptySeq DEF EmptyBuffer, Buffer
  <2> QED BY <1>0, <2>1, <2>2, EmptySeq DEF Init, RunnerInit, StreamTypes
<1>3. ReporterTypes /\ EventType
  BY <1>0 DEF Init, ReporterTypes, EventType, Kinds
<1>4. Flags
  BY Zenon DEF Init, RunnerInit, Flags
<1> QED BY <1>1, <1>2, <1>3, <1>4 DEF TypeInv

\* Every step keeps the types.
LEMMA TypeNext == TypeInv /\ ProgressInv /\ [Next]_vars => TypeInv'
BY CallTypesNext, StreamTypesNext, ReporterTypesNext, EventTypeNext, FlagsNext
   DEF TypeInv, ProgressInv

\* The types of the runner and of the reporter.
THEOREM TypeCorrect == Spec => []TypeOK
<1>1. TypeInv /\ ProgressInv /\ [Next]_vars => (TypeInv /\ ProgressInv)'
  BY TypeNext, ProgressNext
<1> QED BY TypeInit, ProgressInit, TypesTogether, <1>1, PTL DEF Spec

(***************************************************************************)
(* Calls.                                                                  *)
(***************************************************************************)

\* The child has written everything.
AllSent == \A st \in Stream : sent[st] = Len(script[st])

\* What the place of the main thread says of the call: a child that exits of
\* itself has written everything, and only such a child leads to a return.
CallPhase ==
  /\ pc \in {"spawned", "wait", "grace", "killed", "join"} =>
       kind \in {"live", "protocol"} /\ result = "none"
  /\ pc = "captured" => kind = "captured"
  /\ pc \in {"spawned", "wait"} => leaving = "returns"
  /\ pc \in {"spawned", "wait"} \/ (pc = "join" /\ leaving = "returns") => signal = "none"
  /\ pc = "join" /\ leaving = "returns" => child = "reaped"
  /\ child \in {"exited", "reaped"} /\ signal = "none" /\ result # "interrupt" => AllSent
  /\ result = "returned" /\ kind # "captured" =>
       /\ kind # "none" /\ pc = "caller" /\ ReadersDone /\ ~obsError
       /\ child = "reaped" /\ signal = "none"

\* Before the first call.
LEMMA CallPhaseInit == Init => CallPhase
BY DEF Init, RunnerInit, CallPhase

\* Every step keeps the phases of a call.
LEMMA CallPhaseNext == CallPhase /\ TypeInv /\ RecordsGuarded /\ [Next]_vars => CallPhase'
<1> USE DEF CallPhase
<1> SUFFICES ASSUME CallPhase, TypeInv, RecordsGuarded, [Next]_vars PROVE CallPhase'
  OBVIOUS
<1>1. CASE UNCHANGED runnerVars
  BY <1>1 DEF runnerVars, process, reading, ReadersDone, AllSent
<1>2. CASE CommandStarts
  <2>1. ASSUME NEW c PROVE KindOf(c) \in {"captured", "live", "protocol"}
    BY DEF KindOf
  <2>2. ASSUME NEW c, NEW text, Start(c, text) PROVE CallPhase'
    BY <2>1, <2>2 DEF Start
  <2>3. ASSUME NEW c, SpawnFails(c) PROVE CallPhase'
    BY <2>3 DEF SpawnFails, RecordsGuarded, process, reading, AllSent
  <2> QED BY <1>2, <2>2, <2>3 DEF CommandStarts
<1>3. CASE CommandEnds
  <2>1. CASE Return
    BY <2>1 DEF Return, Joined, ReadersDone, process, reading, AllSent
  <2>2. CASE FinishFails \/ Raise
    BY <2>2 DEF FinishFails, Raise, process, AllSent
  <2>3. CASE CapturedReturns
    <3>1. /\ pc = "captured" /\ pc' = "caller" /\ kind' = kind
          /\ sent' = [st \in Stream |-> Len(script[st])] /\ script' = script
      BY <2>3 DEF CapturedReturns
    <3>2. AllSent'
      BY <3>1 DEF AllSent
    <3> QED BY <3>1, <3>2
  <2>4. CASE CapturedInterrupted
    BY <2>4 DEF CapturedInterrupted, Interrupted, Leaves
  <2> QED BY <1>3, <2>1, <2>2, <2>3, <2>4 DEF CommandEnds
<1>4. CASE Recovers
  BY <1>4 DEF Recovers, Recover, process, AllSent
<1>5. ASSUME NEW st \in Stream, CommandOutput(st) PROVE CallPhase'
  <2>1. /\ records[st] # <<>>
        /\ UNCHANGED <<pc, leaving, kind, child, signal, script, sent, result, reader>>
    BY <1>5 DEF CommandOutput, RecordShown, RecordFails, RecordDropped, process
  <2>2. ~ReadersDone
    BY <2>1 DEF ReadersDone, RecordsGuarded, AtWork
  <2> QED BY <2>1, <2>2 DEF AllSent
<1>6. CASE RunnerStep
  <2>1. ASSUME NEW st \in Stream, ChildWrites(st) PROVE CallPhase'
    BY <2>1 DEF ChildWrites
  <2>2. ASSUME NEW st \in Stream, ReaderSteps(st) PROVE CallPhase'
    <3>1. /\ ~ReadersDone
          /\ UNCHANGED <<pc, leaving, kind, child, signal, script, sent, result>>
      BY <2>2 DEF ReaderSteps, ReadChunk, ReadEnd, ReaderEnds, ReadersDone, process
    <3> QED BY <3>1 DEF AllSent
  <2>3. CASE ChildExits
    BY <2>3 DEF ChildExits, AllSent, reading
  <2>4. CASE EnterTry \/ ChildReaped \/ Kill \/ StdinBreaks
    BY <2>4 DEF EnterTry, ChildReaped, Kill, StdinBreaks, ToJoin, AllSent, process, reading
  <2>5. CASE Interrupts
    BY <2>5 DEF Interrupts, SpawnInterrupted, Terminate, InterruptedAgain,
                JoinInterrupted, Interrupted, Leaves, ToJoin, AllSent, reading
  <2>6. ASSUME NEW st \in Stream, ReaderStarts(st) PROVE CallPhase'
    BY <2>6 DEF ReaderStarts, AllSent, process
  <2> QED BY <1>6, <2>1, <2>2, <2>3, <2>4, <2>5, <2>6 DEF RunnerStep
<1> QED BY RunnerSteps, <1>1, <1>2, <1>3, <1>4, <1>5, <1>6

(***************************************************************************)
(* What a stream has come to.                                              *)
(***************************************************************************)

\* An observed call that goes on or has returned: of any other the results say
\* nothing.
Live == kind \in {"live", "protocol"} /\ result \in {"none", "returned"}

\* What the child has written to a stream up to now.
Written(st) == SubSeq(script[st], 1, sent[st])

\* A reader that may still read.
Open == {"off", "reading"}

\* Of what was read of an observed stream, the reader has made records of gone:
\* those in the log and those it still holds show exactly that.
Logged(st, read) ==
  /\ \E gone \in Seq(Char) :
       /\ gone \o pending[st] = read
       /\ reader[st] \in Open => Clean(gone, pending[st])
       /\ Veil(FlattenSeq(shown[st])) \o FlattenSeq(ShownAll(records[st])) = LogText(gone)
  /\ Bounded(kept[st], FlattenSeq(shown[st]))
  /\ \A k \in 1..Len(records[st]) : OneLine(records[st][k])
  /\ \A k \in 1..Len(shown[st]) : OneLineShown(shown[st][k])

\* What was read of a stream that nobody observes went to the buffer.
Collected(st, read) ==
  /\ pending[st] = <<>> /\ records[st] = <<>> /\ shown[st] = <<>>
  /\ Bounded(kept[st], read)

\* What the child has written is what was read and what is in the pipe.
Flow(st) ==
  /\ \E read \in Seq(Char) :
       /\ read \o pipe[st] = Written(st)
       /\ Observed(st) => Logged(st, read)
       /\ ~Observed(st) => Collected(st, read)
  /\ reader[st] \notin Open => pipe[st] = <<>> /\ pending[st] = <<>> /\ child # "running"

\* Until an observer call fails nothing is lost on the way from the child.
FlowInv == Live /\ ~obsError => \A st \in Stream : Flow(st)

\* The log of a stream, and what it shows.
LEMMA VeiledLog ==
  ASSUME StreamTypes, NEW st \in Stream
  PROVE  FlattenSeq(shown[st]) \in Seq(Rendered) /\ Veil(FlattenSeq(shown[st])) \in Seq(LogChar)
<1>1. shown[st] \in Seq(Seq(Rendered))
  BY DEF StreamTypes
<1>2. FlattenSeq(shown[st]) \in Seq(Rendered)
  BY <1>1, FlattenConcat
<1> QED BY <1>2, VeilType

\* A step that leaves a stream alone leaves it logged.
LEMMA LoggedSame ==
  ASSUME NEW st, NEW read, Logged(st, read),
         reader'[st] = reader[st], pending'[st] = pending[st],
         records'[st] = records[st], shown'[st] = shown[st], kept'[st] = kept[st]
  PROVE  Logged(st, read)'
BY DEF Logged

\* Or collected.
LEMMA CollectedSame ==
  ASSUME NEW st, NEW read, Collected(st, read),
         pending'[st] = pending[st], records'[st] = records[st],
         shown'[st] = shown[st], kept'[st] = kept[st]
  PROVE  Collected(st, read)'
BY DEF Collected

\* It leaves the flow of the stream as it is.
LEMMA FlowSame ==
  ASSUME NEW st \in Stream, Flow(st), child # "running" => child' # "running",
         UNCHANGED kind,
         script'[st] = script[st], sent'[st] = sent[st], pipe'[st] = pipe[st],
         reader'[st] = reader[st], pending'[st] = pending[st],
         records'[st] = records[st], shown'[st] = shown[st], kept'[st] = kept[st]
  PROVE  Flow(st)'
<1>1. PICK read \in Seq(Char) : /\ read \o pipe[st] = Written(st)
                                /\ Observed(st) => Logged(st, read)
                                /\ ~Observed(st) => Collected(st, read)
  BY DEF Flow
<1>2. Written(st)' = Written(st)
  BY DEF Written
<1>3. Observed(st)' <=> Observed(st)
  BY DEF Observed
<1>4. ASSUME Observed(st) PROVE Logged(st, read)'
  <2>1. Logged(st, read)
    BY <1>1, <1>4, Zenon
  <2> QED BY <2>1, LoggedSame
<1>8. ASSUME ~Observed(st) PROVE Collected(st, read)'
  <2>1. Collected(st, read)
    BY <1>1, <1>8, Zenon
  <2> QED BY <2>1, CollectedSame
<1>5. reader'[st] \notin Open => pipe'[st] = <<>> /\ pending'[st] = <<>> /\ child' # "running"
  BY DEF Flow
<1>6. read \o pipe'[st] = Written(st)'
  BY <1>1, <1>2
<1>7. (Observed(st)' => Logged(st, read)') /\ (~Observed(st)' => Collected(st, read)')
  BY <1>3, <1>4, <1>8, Zenon
<1> QED BY <1>5, <1>6, <1>7, Zenon DEF Flow

\* A step that leaves both streams alone, of a call that goes on.
LEMMA FlowUnchanged ==
  ASSUME FlowInv, Live' => Live, ~obsError' => ~obsError,
         child # "running" => child' # "running",
         UNCHANGED <<kind, script, sent, pipe, reader, pending, records, shown, kept>>
  PROVE  FlowInv'
<1> SUFFICES ASSUME Live', ~obsError', NEW st \in Stream PROVE Flow(st)'
  BY DEF FlowInv
<1>1. Flow(st)
  BY DEF FlowInv
<1> QED BY <1>1, FlowSame

\* A call starts with nothing written, read or shown.
LEMMA FlowStart ==
  ASSUME NEW c, NEW text \in Scripts, Start(c, text)
  PROVE  FlowInv'
<1> SUFFICES ASSUME Live', ~obsError', NEW st \in Stream PROVE Flow(st)'
  BY DEF FlowInv
<1>1. /\ kind' = KindOf(c) /\ script' = text /\ sent'[st] = 0 /\ pipe'[st] = <<>>
      /\ pending'[st] = <<>> /\ records'[st] = <<>> /\ shown'[st] = <<>>
      /\ kept'[st] = EmptyBuffer
      /\ reader'[st] = "off"
  BY DEF Start
<1>2. reader'[st] \in Open
  BY <1>1 DEF Open
<1>3. Written(st)' = <<>>
  BY <1>1, SubSeqEmpty DEF Written
<1>4. <<>> \in Seq(Char) /\ <<>> \o <<>> = <<>>
  BY EmptySeq, ConcatEmptySeq
<1>5. Logged(st, <<>>)'
  <2>1. Clean(<<>>, <<>>)
    BY DEF Clean
  <2>2. ShownAll(<<>>) = <<>>
    BY DEF ShownAll
  <2>3. Veil(FlattenSeq(<<>>)) \o FlattenSeq(ShownAll(<<>>)) = LogText(<<>>)
    BY <1>4, <2>2, FlattenNone, LogNothing, VeilNothing
  <2>4. Len(<<>>) = 0
    BY EmptySeq
  <2>5. Bounded(EmptyBuffer, FlattenSeq(<<>>))
    BY NothingKept, FlattenNone
  <2>6. /\ <<>> \o pending'[st] = <<>>
        /\ Clean(<<>>, pending'[st])
        /\ Veil(FlattenSeq(shown'[st])) \o FlattenSeq(ShownAll(records'[st])) = LogText(<<>>)
    BY <1>1, <1>4, <2>1, <2>3, Zenon
  <2>7. Bounded(kept'[st], FlattenSeq(shown'[st]))
    BY <1>1, <2>5, Zenon
  <2>8. /\ \A k \in 1..Len(records'[st]) : OneLine(records'[st][k])
        /\ \A k \in 1..Len(shown'[st]) : OneLineShown(shown'[st][k])
    BY <1>1, <2>4
  <2> QED BY <1>4, <2>6, <2>7, <2>8, Zenon DEF Logged
<1>6. Collected(st, <<>>)'
  BY <1>1, NothingKept DEF Collected
<1> QED BY <1>1, <1>2, <1>3, <1>4, <1>5, <1>6 DEF Flow

\* A character that the child writes is in the pipe.
LEMMA FlowWrites ==
  ASSUME StreamTypes, FlowInv, NEW st \in Stream, ChildWrites(st)
  PROVE  FlowInv'
<1> SUFFICES ASSUME Live', ~obsError', NEW other \in Stream PROVE Flow(other)'
  BY DEF FlowInv
<1>1. /\ child = "running" /\ sent[st] < Len(script[st])
      /\ pipe' = [pipe EXCEPT ![st] = Append(@, script[st][sent[st] + 1])]
      /\ sent' = [sent EXCEPT ![st] = @ + 1]
      /\ UNCHANGED <<kind, child, script, result, reading>>
  BY DEF ChildWrites
<1>2. Flow(other)
  BY <1>1 DEF FlowInv, Live, reading
<1>3. CASE other # st
  BY <1>1, <1>2, <1>3, FlowSame DEF StreamTypes, reading
<1>4. CASE other = st
  <2> DEFINE new == script[st][sent[st] + 1]
             w == Written(st)
  <2>1. PICK read \in Seq(Char) : /\ read \o pipe[st] = w
                                  /\ Observed(st) => Logged(st, read)
                                  /\ ~Observed(st) => Collected(st, read)
    BY <1>2, <1>4 DEF Flow
  <2>2. /\ script[st] \in Seq(Char) /\ Len(script[st]) \in Nat
        /\ sent[st] \in Nat /\ pipe[st] \in Seq(Char)
    BY ScriptType DEF StreamTypes
  <2>3. sent[st] + 1 \in 1..Len(script[st]) /\ (sent[st] + 1) - 1 = sent[st]
    BY SMTT(60), <1>1, <2>2
  <2>4. new \in Char
    BY <2>2, <2>3, ElementOfSeq
  <2>5. SubSeq(script[st], 1, sent[st] + 1) = w \o <<new>>
    <3>1. 1 \in 1..Len(script[st]) /\ sent[st] + 1 \in 1..Len(script[st])
      BY <2>2, <2>3
    <3> QED BY <2>2, <2>3, <3>1, SubSeqRecursiveSecond DEF Written
  <2> HIDE DEF new, w
  <2>6. pipe'[st] = pipe[st] \o <<new>>
    <3>1. pipe'[st] = Append(pipe[st], new)
      BY <1>1 DEF StreamTypes, new
    <3> QED BY <2>2, <2>4, <3>1, AppendIsConcat
  <2>7. read \o pipe'[st] = w \o <<new>>
    <3> DEFINE p == pipe[st]
               t == <<new>>
    <3>1. p \in Seq(Char) /\ t \in Seq(Char)
      BY <2>2, <2>4
    <3> HIDE DEF p, t
    <3>2. read \o (p \o t) = (read \o p) \o t
      BY SMTT(60), <3>1, ConcatAssociative
    <3>3. read \o p = w
      BY <2>1, Zenon DEF p
    <3>4. pipe'[st] = p \o t
      BY <2>6, Zenon DEF p, t
    <3>5. read \o pipe'[st] = w \o t
      BY <3>2, <3>3, <3>4
    <3> QED BY <3>5 DEF t
  <2>8. Written(st)' = w \o <<new>>
    <3>1. sent'[st] = sent[st] + 1 /\ script' = script
      BY <1>1 DEF StreamTypes
    <3> QED BY <2>5, <3>1 DEF Written
  <2>9. reader[st] \in Open /\ UNCHANGED reader
    BY <1>1, <1>2, <1>4 DEF Flow, reading
  <2>10. Observed(st)' <=> Observed(st)
    BY <1>1 DEF Observed
  <2>11. UNCHANGED <<reader, pending, records, shown, kept>>
    BY <1>1 DEF reading
  <2>12. ASSUME Observed(st) PROVE Logged(st, read)'
    <3>1. Logged(st, read)
      BY <2>1, <2>12, Zenon
    <3> QED BY <2>11, <3>1, LoggedSame
  <2>13. ASSUME ~Observed(st) PROVE Collected(st, read)'
    <3>1. Collected(st, read)
      BY <2>1, <2>13, Zenon
    <3> QED BY <2>11, <3>1, CollectedSame
  <2>14. (Observed(st)' => Logged(st, read)') /\ (~Observed(st)' => Collected(st, read)')
    BY <2>10, <2>12, <2>13, Zenon
  <2>15. read \o pipe'[st] = Written(st)'
    BY <2>7, <2>8, Zenon
  <2> QED BY <1>4, <2>9, <2>14, <2>15 DEF Flow
<1> QED BY <1>3, <1>4

\* Records made of what a reader held and of what it reads: the log and the new
\* records show together what is gone.
\* What a reader makes of what it held and of a chunk it read.
LEMMA ReadAdds ==
  ASSUME NEW gone \in Seq(Char), NEW rest \in Seq(Char), NEW chunk \in Seq(Char),
         NEW final \in BOOLEAN, Clean(gone, rest)
  PROVE  ReadAs(gone, rest \o chunk, final, CompleteRecords(rest \o chunk, final))
<1>1. PICK value \in Seq(Char) : value = rest \o chunk
  BY ConcatProperties
<1>2. Clean(gone, value)
  BY <1>1, CleanLonger
<1>3. ReadAs(gone, value, final, CompleteRecords(value, final))
  BY <1>2, ReadShows
<1> QED BY <1>1, <1>3, Zenon

\* With the log as it is and the records of cut, all that was read is accounted for.
NowLogged(st, read, final, cut) ==
  /\ \E all \in Seq(Char) :
       /\ all \o cut.pending = read
       /\ ~final => Clean(all, cut.pending)
       /\ Veil(FlattenSeq(shown[st])) \o FlattenSeq(ShownAll(cut.records)) = LogText(all)
  /\ \A k \in 1..Len(cut.records) : OneLine(cut.records[k])
  /\ final => cut.pending = <<>>

\* Reading a chunk from an observed stream accounts for it.
LEMMA ReadLogged ==
  ASSUME StreamTypes, NEW st \in Stream, NEW read \in Seq(Char), Logged(st, read),
         records[st] = <<>>, reader[st] = "reading",
         NEW chunk \in Seq(Char), NEW final \in BOOLEAN
  PROVE  NowLogged(st, read \o chunk, final, CompleteRecords(pending[st] \o chunk, final))
<1>1. PICK gone \in Seq(Char) :
        /\ gone \o pending[st] = read
        /\ Clean(gone, pending[st])
        /\ Veil(FlattenSeq(shown[st])) \o FlattenSeq(ShownAll(records[st])) = LogText(gone)
  BY DEF Logged, Open
<1>2. PICK rest \in Seq(Char) : rest = pending[st]
  BY DEF StreamTypes
<1>3. PICK log \in Seq(LogChar) : log = Veil(FlattenSeq(shown[st]))
  BY VeiledLog
<1>4. log = LogText(gone)
  <2>1. ShownAll(<<>>) = <<>>
    BY DEF ShownAll
  <2>2. FlattenSeq(ShownAll(records[st])) = <<>>
    BY <2>1, FlattenNone
  <2>3. log \o <<>> = log
    BY <1>3, ConcatEmptySeq
  <2> QED BY <1>1, <1>3, <2>2, <2>3
<1>5. Clean(gone, rest)
  BY <1>1, <1>2
<1>6. ReadAs(gone, rest \o chunk, final, CompleteRecords(rest \o chunk, final))
  BY <1>5, ReadAdds
<1>7. gone \o (rest \o chunk) = (gone \o rest) \o chunk
  BY ZenonT(60), TextRegrouped
<1>8. gone \o (rest \o chunk) = read \o chunk
  BY <1>1, <1>2, <1>7, Zenon
<1> DEFINE cut == CompleteRecords(rest \o chunk, final)
<1> HIDE DEF cut
<1>9. /\ \A k \in 1..Len(cut.records) : OneLine(cut.records[k])
      /\ final => cut.pending = <<>>
      /\ \E all \in Seq(Char) :
           /\ all \o cut.pending = read \o chunk
           /\ LogText(all) = log \o FlattenSeq(ShownAll(cut.records))
           /\ ~final => Clean(all, cut.pending)
  BY <1>4, <1>6, <1>8, Zenon DEF ReadAs, cut
<1>10. CompleteRecords(pending[st] \o chunk, final) = cut
  BY <1>2, Zenon DEF cut
<1>11. NowLogged(st, read \o chunk, final, cut)
  BY <1>3, <1>9 DEF NowLogged
<1> QED BY <1>10, <1>11, Zenon
\* Whether a stream is observed depends on the command only.
LEMMA ObservedSame ==
  ASSUME NEW st, UNCHANGED kind
  PROVE  Observed(st)' <=> Observed(st)
BY DEF Observed

\* A reader takes what is in the pipe.
LEMMA FlowRead ==
  ASSUME StreamTypes, FlowInv, NEW st \in Stream, ReadChunk(st)
  PROVE  FlowInv'
<1> SUFFICES ASSUME Live', ~obsError', NEW other \in Stream PROVE Flow(other)'
  BY DEF FlowInv
<1> DEFINE cut == CompleteRecords(pending[st] \o pipe[st], FALSE)
           left == cut.pending
           new == cut.records
<1>1. /\ reader[st] = "reading" /\ records[st] = <<>>
      /\ pipe' = [pipe EXCEPT ![st] = <<>>]
      /\ UNCHANGED <<kind, child, script, sent, reader, shown, obsError, result>>
  BY DEF ReadChunk
<1>2. IF Observed(st)
      THEN /\ records' = [records EXCEPT ![st] = new]
           /\ pending' = [pending EXCEPT ![st] = left]
           /\ UNCHANGED kept
      ELSE /\ kept' = [kept EXCEPT ![st] = Keep(@, pipe[st])]
           /\ UNCHANGED <<records, pending>>
  BY Zenon DEF ReadChunk
<1> HIDE DEF cut, left, new
<1>3. Flow(other) /\ Flow(st)
  <2>1. Live /\ ~obsError
    BY <1>1 DEF Live
  <2> QED BY <2>1, Zenon DEF FlowInv
<1>4. CASE other # st
  <2>1. /\ pipe'[other] = pipe[other] /\ pending'[other] = pending[other]
        /\ records'[other] = records[other] /\ kept'[other] = kept[other]
    BY <1>1, <1>2, <1>4 DEF StreamTypes
  <2> QED BY <1>1, <1>3, <2>1, FlowSame
<1>5. CASE other = st
  <2>1. PICK read \in Seq(Char) : /\ read \o pipe[st] = Written(st)
                                  /\ Observed(st) => Logged(st, read)
                                  /\ ~Observed(st) => Collected(st, read)
    BY <1>3 DEF Flow
  <2>2. pipe[st] \in Seq(Char) /\ pending[st] \in Seq(Char) /\ kept[st] \in Buffer
    BY DEF StreamTypes
  <2>3. PICK now \in Seq(Char) : now = read \o pipe[st] /\ now \o <<>> = now
    <3>1. read \o pipe[st] \in Seq(Char)
      BY <2>2, ConcatProperties
    <3> QED BY <3>1, ConcatEmptySeq
  <2>4. now \o pipe'[st] = Written(st)'
    <3>1. pipe'[st] = <<>>
      BY <1>1 DEF StreamTypes
    <3>2. Written(st)' = Written(st)
      BY <1>1 DEF Written
    <3> QED BY <2>1, <2>3, <3>1, <3>2
  <2>5. ASSUME Observed(st) PROVE Logged(st, now)'
    <3>1. Logged(st, read)
      BY <2>1, <2>5, Zenon
    <3>2. /\ \E gone \in Seq(Char) :
                 /\ gone \o left = now
                 /\ Clean(gone, left)
                 /\ Veil(FlattenSeq(shown[st])) \o FlattenSeq(ShownAll(new)) = LogText(gone)
          /\ \A k \in 1..Len(new) : OneLine(new[k])
      <4>1. PICK chunk \in Seq(Char) : chunk = pipe[st]
        BY <2>2
      <4>2. FALSE \in BOOLEAN
        OBVIOUS
      <4>3. NowLogged(st, read \o chunk, FALSE, CompleteRecords(pending[st] \o chunk, FALSE))
        BY <1>1, <3>1, <4>2, ReadLogged, Zenon
      <4>4. NowLogged(st, now, FALSE, cut)
        BY <2>3, <4>1, <4>3, Zenon DEF cut
      <4> QED BY <4>4 DEF NowLogged, left, new
    <3>3. records'[st] = new /\ pending'[st] = left /\ kept'[st] = kept[st]
      BY <1>2, <2>5 DEF StreamTypes
    <3>4. shown'[st] = shown[st] /\ reader'[st] = reader[st]
      BY <1>1
    <3>5. Bounded(kept[st], FlattenSeq(shown[st]))
          /\ \A k \in 1..Len(shown[st]) : OneLineShown(shown[st][k])
      BY <3>1 DEF Logged
    <3>6. /\ \E gone \in Seq(Char) :
               /\ gone \o pending'[st] = now
               /\ reader'[st] \in Open => Clean(gone, pending'[st])
               /\ Veil(FlattenSeq(shown'[st])) \o FlattenSeq(ShownAll(records'[st])) = LogText(gone)
          /\ Bounded(kept'[st], FlattenSeq(shown'[st]))
          /\ \A k \in 1..Len(records'[st]) : OneLine(records'[st][k])
          /\ \A k \in 1..Len(shown'[st]) : OneLineShown(shown'[st][k])
      BY <3>2, <3>3, <3>4, <3>5
    <3> QED BY <3>6, Zenon DEF Logged
  <2>6. ASSUME ~Observed(st) PROVE Collected(st, now)'
    <3>1. /\ pending[st] = <<>> /\ records[st] = <<>> /\ shown[st] = <<>>
          /\ Bounded(kept[st], read)
      BY <2>1, <2>6 DEF Collected
    <3>2. kept'[st] = Keep(kept[st], pipe[st])
          /\ pending'[st] = pending[st] /\ records'[st] = records[st]
      BY <1>2, <2>6 DEF StreamTypes
    <3>3. Bounded(Keep(kept[st], pipe[st]), now)
      <4>1. Char \subseteq Char \union {"*"}
        OBVIOUS
      <4>2. pipe[st] \in Seq(Char \union {"*"}) /\ read \in Seq(Char \union {"*"})
        BY <2>2, <4>1, SeqMonotonic
      <4> QED BY <2>2, <2>3, <3>1, <4>2, KeepBounded DEF Buffer
    <3>4. /\ pending'[st] = <<>> /\ records'[st] = <<>> /\ shown'[st] = <<>>
          /\ Bounded(kept'[st], now)
      BY <1>1, <3>1, <3>2, <3>3
    <3> QED BY <3>4, Zenon DEF Collected
  <2>7. (Observed(st)' => Logged(st, now)') /\ (~Observed(st)' => Collected(st, now)')
    <3>1. Observed(st)' <=> Observed(st)
      BY <1>1, ObservedSame
    <3> QED BY <2>5, <2>6, <3>1, Zenon
  <2>8. reader'[st] \in Open
    BY <1>1 DEF Open
  <2> QED BY <1>5, <2>3, <2>4, <2>7, <2>8 DEF Flow
<1> QED BY <1>4, <1>5

\* A reader meets the end of the pipe: the remainder becomes a last record.
LEMMA FlowEnd ==
  ASSUME StreamTypes, FlowInv, NEW st \in Stream, ReadEnd(st)
  PROVE  FlowInv'
<1> SUFFICES ASSUME Live', ~obsError', NEW other \in Stream PROVE Flow(other)'
  BY DEF FlowInv
<1> DEFINE cut == CompleteRecords(pending[st], TRUE)
           new == IF Observed(st) THEN cut.records ELSE <<>>
<1>1. /\ reader[st] = "reading" /\ records[st] = <<>> /\ pipe[st] = <<>>
      /\ child \in {"exited", "reaped"}
      /\ reader' = [reader EXCEPT ![st] = "final"]
      /\ pending' = [pending EXCEPT ![st] = <<>>]
      /\ UNCHANGED <<kind, child, script, sent, pipe, shown, kept, obsError, result>>
  BY DEF ReadEnd, process
<1>2. records' = [records EXCEPT ![st] = new]
  BY Zenon DEF ReadEnd
<1> HIDE DEF cut, new
<1>3. Flow(other) /\ Flow(st)
  <2>1. Live /\ ~obsError
    BY <1>1 DEF Live
  <2> QED BY <2>1, Zenon DEF FlowInv
<1>4. CASE other # st
  <2>1. /\ reader'[other] = reader[other] /\ pending'[other] = pending[other]
        /\ records'[other] = records[other]
    BY <1>1, <1>2, <1>4 DEF StreamTypes
  <2> QED BY <1>1, <1>3, <2>1, FlowSame
<1>5. CASE other = st
  <2>1. PICK read \in Seq(Char) : /\ read \o pipe[st] = Written(st)
                                  /\ Observed(st) => Logged(st, read)
                                  /\ ~Observed(st) => Collected(st, read)
    BY <1>3 DEF Flow
  <2>2. /\ reader'[st] = "final" /\ pending'[st] = <<>> /\ records'[st] = new
        /\ shown'[st] = shown[st] /\ kept'[st] = kept[st] /\ pipe'[st] = <<>>
    BY <1>1, <1>2 DEF StreamTypes
  <2>3. read \o pipe'[st] = Written(st)'
    <3>1. Written(st)' = Written(st)
      BY <1>1 DEF Written
    <3>2. pipe' = pipe
      BY <1>1
    <3> QED BY <2>1, <3>1, <3>2
  <2>4. ASSUME Observed(st) PROVE Logged(st, read)'
    <3>1. Logged(st, read)
      BY <2>1, <2>4, Zenon
    <3>2. /\ \E all \in Seq(Char) :
               /\ all \o <<>> = read
               /\ Veil(FlattenSeq(shown[st])) \o FlattenSeq(ShownAll(new)) = LogText(all)
          /\ \A k \in 1..Len(new) : OneLine(new[k])
      <4>1. <<>> \in Seq(Char) /\ TRUE \in BOOLEAN
        BY EmptySeq
      <4>2. pending[st] \o <<>> = pending[st] /\ read \o <<>> = read
        BY ConcatEmptySeq DEF StreamTypes
      <4>3. NowLogged(st, read \o <<>>, TRUE, CompleteRecords(pending[st] \o <<>>, TRUE))
        BY <1>1, <3>1, <4>1, ReadLogged, Zenon
      <4>4. NowLogged(st, read, TRUE, cut)
        BY <4>2, <4>3, Zenon DEF cut
      <4>5. new = cut.records
        BY <2>4, Zenon DEF new
      <4> QED BY <4>4, <4>5 DEF NowLogged
    <3>3. Bounded(kept[st], FlattenSeq(shown[st]))
          /\ \A k \in 1..Len(shown[st]) : OneLineShown(shown[st][k])
      BY <3>1 DEF Logged
    <3>4. reader'[st] \notin Open
      BY <2>2 DEF Open
    <3>5. /\ \E gone \in Seq(Char) :
               /\ gone \o pending'[st] = read
               /\ reader'[st] \in Open => Clean(gone, pending'[st])
               /\ Veil(FlattenSeq(shown'[st])) \o FlattenSeq(ShownAll(records'[st])) = LogText(gone)
          /\ Bounded(kept'[st], FlattenSeq(shown'[st]))
          /\ \A k \in 1..Len(records'[st]) : OneLine(records'[st][k])
          /\ \A k \in 1..Len(shown'[st]) : OneLineShown(shown'[st][k])
      BY <2>2, <3>2, <3>3, <3>4
    <3> QED BY <3>5, Zenon DEF Logged
  <2>5. ASSUME ~Observed(st) PROVE Collected(st, read)'
    <3>1. shown[st] = <<>> /\ Bounded(kept[st], read)
      BY <2>1, <2>5 DEF Collected
    <3>2. new = <<>>
      BY <2>5, Zenon DEF new
    <3> QED BY <2>2, <3>1, <3>2, Zenon DEF Collected
  <2>6. (Observed(st)' => Logged(st, read)') /\ (~Observed(st)' => Collected(st, read)')
    <3>1. Observed(st)' <=> Observed(st)
      BY <1>1, ObservedSame
    <3> QED BY <2>4, <2>5, <3>1, Zenon
  <2>7. child' # "running"
    BY <1>1
  <2> QED BY <1>5, <2>2, <2>3, <2>6, <2>7 DEF Flow
<1> QED BY <1>4, <1>5

\* A reader that starts has not read yet.
LEMMA FlowReaderStarts ==
  ASSUME StreamTypes, FlowInv, NEW st \in Stream, ReaderStarts(st)
  PROVE  FlowInv'
<1> SUFFICES ASSUME Live', ~obsError', NEW other \in Stream PROVE Flow(other)'
  BY DEF FlowInv
<1>1. /\ reader[st] \in Open
      /\ reader' = [reader EXCEPT ![st] = "reading"]
      /\ UNCHANGED <<kind, child, script, sent, pipe, pending, records, shown, kept,
                     obsError, result>>
  BY DEF ReaderStarts, process, Open
<1>2. Flow(other)
  <2>1. Live /\ ~obsError
    BY <1>1 DEF Live
  <2> QED BY <2>1, Zenon DEF FlowInv
<1>3. CASE other # st
  <2>1. reader'[other] = reader[other]
    BY <1>1, <1>3 DEF StreamTypes
  <2> QED BY <1>1, <1>2, <2>1, FlowSame
<1>4. CASE other = st
  <2>1. PICK read \in Seq(Char) : /\ read \o pipe[st] = Written(st)
                                  /\ Observed(st) => Logged(st, read)
                                  /\ ~Observed(st) => Collected(st, read)
    BY <1>2, <1>4 DEF Flow
  <2>2. reader'[st] \in Open
    BY <1>1 DEF StreamTypes, Open
  <2>3. read \o pipe'[st] = Written(st)'
    <3>1. Written(st)' = Written(st)
      BY <1>1 DEF Written
    <3> QED BY <1>1, <2>1, <3>1
  <2>4. ASSUME Observed(st) PROVE Logged(st, read)'
    <3>1. Logged(st, read)
      BY <2>1, <2>4, Zenon
    <3> QED BY <1>1, <2>2, <3>1 DEF Logged
  <2>5. ASSUME ~Observed(st) PROVE Collected(st, read)'
    <3>1. Collected(st, read)
      BY <2>1, <2>5, Zenon
    <3> QED BY <1>1, <3>1, CollectedSame
  <2>6. (Observed(st)' => Logged(st, read)') /\ (~Observed(st)' => Collected(st, read)')
    <3>1. Observed(st)' <=> Observed(st)
      BY <1>1, ObservedSame
    <3> QED BY <2>4, <2>5, <3>1, Zenon
  <2> QED BY <1>4, <2>2, <2>3, <2>6 DEF Flow
<1> QED BY <1>3, <1>4

\* A reader that has nothing left ends.
LEMMA FlowReaderEnds ==
  ASSUME StreamTypes, FlowInv, NEW st \in Stream, ReaderEnds(st)
  PROVE  FlowInv'
<1> SUFFICES ASSUME Live', ~obsError', NEW other \in Stream PROVE Flow(other)'
  BY DEF FlowInv
<1>1. /\ reader[st] = "final"
      /\ reader' = [reader EXCEPT ![st] = "done"]
      /\ UNCHANGED <<kind, child, script, sent, pipe, pending, records, shown, kept,
                     obsError, result>>
  BY DEF ReaderEnds, process
<1>2. Flow(other) /\ Flow(st)
  <2>1. Live /\ ~obsError
    BY <1>1 DEF Live
  <2> QED BY <2>1, Zenon DEF FlowInv
<1>3. CASE other # st
  <2>1. reader'[other] = reader[other]
    BY <1>1, <1>3 DEF StreamTypes
  <2> QED BY <1>1, <1>2, <2>1, FlowSame
<1>4. CASE other = st
  <2>1. PICK read \in Seq(Char) : /\ read \o pipe[st] = Written(st)
                                  /\ Observed(st) => Logged(st, read)
                                  /\ ~Observed(st) => Collected(st, read)
    BY <1>2 DEF Flow
  <2>2. reader'[st] = "done"
    BY <1>1 DEF StreamTypes
  <2>3. read \o pipe'[st] = Written(st)'
    <3>1. Written(st)' = Written(st)
      BY <1>1 DEF Written
    <3> QED BY <1>1, <2>1, <3>1
  <2>4. ASSUME Observed(st) PROVE Logged(st, read)'
    <3>1. Logged(st, read)
      BY <2>1, <2>4, Zenon
    <3> QED BY <1>1, <2>2, <3>1 DEF Logged, Open
  <2>5. ASSUME ~Observed(st) PROVE Collected(st, read)'
    <3>1. Collected(st, read)
      BY <2>1, <2>5, Zenon
    <3> QED BY <1>1, <3>1, CollectedSame
  <2>6. (Observed(st)' => Logged(st, read)') /\ (~Observed(st)' => Collected(st, read)')
    <3>1. Observed(st)' <=> Observed(st)
      BY <1>1, ObservedSame
    <3> QED BY <2>4, <2>5, <3>1, Zenon
  <2>7. pipe'[st] = <<>> /\ pending'[st] = <<>> /\ child' # "running"
    BY <1>1, <1>2 DEF Flow, Open
  <2> QED BY <1>4, <2>3, <2>6, <2>7 DEF Flow
<1> QED BY <1>3, <1>4

\* The observer takes the first record of a stream.
LEMMA ShownLogged ==
  ASSUME NEW st \in Stream, NEW read \in Seq(Char), Logged(st, read), StreamTypes, secrets,
         RecordShown(st)
  PROVE  Logged(st, read)'
<1>1. PICK list \in Seq(Seq(Char)), log \in Seq(Seq(Rendered)), buffer \in Buffer :
        list = records[st] /\ log = shown[st] /\ buffer = kept[st]
  BY DEF StreamTypes
<1>2. list # <<>>
  BY <1>1 DEF RecordShown
<1>3. PICK new \in Seq(Rendered) : new = Render(Head(list)) /\ RenderingOf(new, Head(list))
  <2>1. Head(list) \in Seq(Char)
    BY <1>2, HeadTailProperties
  <2> QED BY <2>1, RenderShown
<1>4. /\ records'[st] = Tail(list) /\ shown'[st] = Append(log, new)
      /\ kept'[st] = Keep(buffer, new)
      /\ pending'[st] = pending[st] /\ reader'[st] = reader[st]
  <2>1. /\ records' = [records EXCEPT ![st] = Tail(@)]
        /\ shown' = [shown EXCEPT ![st] = Append(@, Render(Head(records[st])))]
        /\ kept' = [kept EXCEPT ![st] = Keep(@, Render(Head(records[st])))]
        /\ UNCHANGED <<pending, reader>>
    BY DEF RecordShown, Take
  <2>2. Render(Head(records[st])) = new
    BY <1>1, <1>3
  <2> QED BY <1>1, <2>1, <2>2 DEF StreamTypes
<1>5. /\ \A k \in 1..Len(list) : OneLine(list[k])
      /\ \A k \in 1..Len(log) : OneLineShown(log[k])
      /\ Bounded(buffer, FlattenSeq(log))
  BY <1>1, Zenon DEF Logged
<1> DEFINE longer == Append(log, new)
           rest == Tail(list)
<1>6. /\ \A k \in 1..Len(rest) : OneLine(rest[k])
      /\ \A k \in 1..Len(longer) : OneLineShown(longer[k])
      /\ FlattenSeq(log) \in Seq(Rendered)
      /\ FlattenSeq(longer) = FlattenSeq(log) \o new
      /\ Veil(FlattenSeq(longer)) \o FlattenSeq(ShownAll(rest)) =
           Veil(FlattenSeq(log)) \o FlattenSeq(ShownAll(list))
  BY <1>2, <1>3, <1>5, RecordTaken
<1>7. Bounded(Keep(buffer, new), FlattenSeq(longer))
  <2>1. Rendered \subseteq Char \union {"*"}
    BY DEF Rendered, Char
  <2>2. new \in Seq(Char \union {"*"}) /\ FlattenSeq(log) \in Seq(Char \union {"*"})
    BY <1>6, <2>1, SeqMonotonic
  <2>3. buffer \in [text : Seq(Char \union {"*"}), truncated : BOOLEAN]
    BY DEF Buffer
  <2>4. Bounded(Keep(buffer, new), FlattenSeq(log) \o new)
    BY <1>5, <2>2, <2>3, KeepBounded
  <2> QED BY <1>6, <2>4, Zenon
<1> HIDE DEF longer, rest
<1>8. shown'[st] = longer /\ records'[st] = rest
  BY <1>4 DEF longer, rest
<1>9. PICK gone \in Seq(Char) :
        /\ gone \o pending[st] = read
        /\ reader[st] \in Open => Clean(gone, pending[st])
        /\ Veil(FlattenSeq(log)) \o FlattenSeq(ShownAll(list)) = LogText(gone)
  BY <1>1, Zenon DEF Logged
<1>10. /\ gone \o pending'[st] = read
       /\ reader'[st] \in Open => Clean(gone, pending'[st])
       /\ Veil(FlattenSeq(shown'[st])) \o FlattenSeq(ShownAll(records'[st])) = LogText(gone)
  BY <1>4, <1>6, <1>8, <1>9, Zenon
<1>11. /\ Bounded(kept'[st], FlattenSeq(shown'[st]))
       /\ \A k \in 1..Len(records'[st]) : OneLine(records'[st][k])
       /\ \A k \in 1..Len(shown'[st]) : OneLineShown(shown'[st][k])
  BY <1>4, <1>6, <1>7, <1>8, Zenon
<1> QED BY <1>10, <1>11, Zenon DEF Logged

\* A record is shown; if it is not, an observer call has failed.
LEMMA FlowShown ==
  ASSUME StreamTypes, RecordsGuarded, FlowInv, NEW st \in Stream, CommandOutput(st)
  PROVE  FlowInv'
<1> SUFFICES ASSUME Live', ~obsError', NEW other \in Stream PROVE Flow(other)'
  BY DEF FlowInv
<1>1. RecordShown(st)
  <2>1. ASSUME RecordFails(st) PROVE FALSE
    BY <2>1, Zenon DEF RecordFails
  <2>2. ASSUME RecordDropped(st) PROVE FALSE
    BY <2>2 DEF RecordDropped
  <2> QED BY <2>1, <2>2, Zenon DEF CommandOutput
<1>2. /\ records[st] # <<>> /\ ~obsError
      /\ records' = [records EXCEPT ![st] = Tail(@)]
      /\ shown' = [shown EXCEPT ![st] = Append(@, Render(Head(records[st])))]
      /\ kept' = [kept EXCEPT ![st] = Keep(@, Render(Head(records[st])))]
      /\ UNCHANGED <<kind, child, script, sent, pipe, reader, pending, result>>
  BY <1>1 DEF RecordShown, Take, process
<1>3. secrets
  BY <1>2 DEF RecordsGuarded
<1>4. Flow(other) /\ Flow(st)
  <2>1. Live /\ ~obsError
    BY <1>2 DEF Live
  <2> QED BY <2>1, Zenon DEF FlowInv
<1>5. CASE other # st
  <2>1. /\ records'[other] = records[other] /\ shown'[other] = shown[other]
        /\ kept'[other] = kept[other]
    BY <1>2, <1>5 DEF StreamTypes
  <2> QED BY <1>2, <1>4, <2>1, FlowSame
<1>6. CASE other = st
  <2>1. PICK read \in Seq(Char) : /\ read \o pipe[st] = Written(st)
                                  /\ Observed(st) => Logged(st, read)
                                  /\ ~Observed(st) => Collected(st, read)
    BY <1>4 DEF Flow
  <2>2. Observed(st)
    BY <1>2, <2>1 DEF Collected
  <2>3. Logged(st, read)
    BY <2>1, <2>2, Zenon
  <2>4. Logged(st, read)'
    BY <1>1, <1>3, <2>3, ShownLogged
  <2>5. Observed(st)' <=> Observed(st)
    BY <1>2, ObservedSame
  <2>6. (Observed(st)' => Logged(st, read)') /\ (~Observed(st)' => Collected(st, read)')
    BY <2>2, <2>4, <2>5, Zenon
  <2>7. read \o pipe'[st] = Written(st)'
    <3>1. Written(st)' = Written(st)
      BY <1>2 DEF Written
    <3> QED BY <1>2, <2>1, <3>1
  <2>8. reader'[st] \notin Open => pipe'[st] = <<>> /\ pending'[st] = <<>> /\ child' # "running"
    BY <1>2, <1>4 DEF Flow
  <2> QED BY <1>6, <2>6, <2>7, <2>8 DEF Flow
<1> QED BY <1>5, <1>6

\* Every step of the system keeps the flow of both streams.
LEMMA FlowNext ==
  CallPhase /\ StreamTypes /\ RecordsGuarded /\ FlowInv /\ [Next]_vars => FlowInv'
<1> SUFFICES ASSUME CallPhase, StreamTypes, RecordsGuarded, FlowInv, [Next]_vars
             PROVE  FlowInv'
  OBVIOUS
<1>1. CASE UNCHANGED runnerVars
  <2>1. UNCHANGED <<kind, result, obsError, child, script, sent, pipe, reader, pending,
                    records, shown, kept>>
    BY <1>1 DEF runnerVars, process, reading
  <2> QED BY <2>1, FlowUnchanged DEF Live
<1>2. CASE CommandStarts
  <2>1. ASSUME NEW c, SpawnFails(c) PROVE FlowInv'
    BY <2>1 DEF SpawnFails, FlowInv, Live
  <2> QED BY <1>2, <2>1, FlowStart DEF CommandStarts
<1>3. CASE CommandEnds
  <2>1. CASE Return
    <3>1. /\ Live
          /\ UNCHANGED <<kind, obsError, child, script, sent, pipe, reader, pending,
                         records, shown, kept>>
      BY <2>1 DEF Return, process, reading, CallPhase, Live
    <3> QED BY <3>1, FlowUnchanged
  <2>2. CASE FinishFails \/ Raise
    <3>1. result' \in {"error", "interrupt"}
      BY <2>2 DEF FinishFails, Raise
    <3> QED BY <3>1 DEF FlowInv, Live
  <2>3. CASE CapturedReturns \/ CapturedInterrupted
    BY <2>3 DEF CapturedReturns, CapturedInterrupted, Interrupted, CallPhase, FlowInv, Live
  <2> QED BY <1>3, <2>1, <2>2, <2>3 DEF CommandEnds
<1>4. CASE Recovers
  BY <1>4 DEF Recovers, Recover, FlowInv, Live
<1>5. CASE \E st \in Stream : CommandOutput(st)
  BY <1>5, FlowShown
<1>6. CASE RunnerStep
  <2>1. ASSUME NEW st \in Stream, ChildWrites(st) PROVE FlowInv'
    BY <2>1, FlowWrites
  <2>2. ASSUME NEW st \in Stream, ReaderSteps(st) \/ ReaderStarts(st) PROVE FlowInv'
    BY <2>2, FlowReaderStarts, FlowRead, FlowEnd, FlowReaderEnds DEF ReaderSteps
  <2>3. CASE \/ EnterTry \/ ChildExits \/ ChildReaped \/ Kill \/ StdinBreaks
             \/ Terminate \/ InterruptedAgain
    <3>1. /\ child # "running" => child' # "running"
          /\ UNCHANGED <<kind, result, obsError, script, sent, pipe, reader, pending,
                         records, shown, kept>>
      BY <2>3 DEF EnterTry, ChildExits, ChildReaped, Kill, StdinBreaks, Terminate, InterruptedAgain,
                  Interrupted, process, reading
    <3> QED BY <3>1, FlowUnchanged DEF Live
  <2>4. CASE SpawnInterrupted \/ JoinInterrupted
    BY <2>4 DEF SpawnInterrupted, JoinInterrupted, Leaves, FlowInv, Live
  <2> QED BY <1>6, <2>1, <2>2, <2>3, <2>4 DEF RunnerStep, Interrupts
<1> QED BY RunnerSteps, <1>1, <1>2, <1>3, <1>4, <1>5, <1>6

\* The inductive invariant of the results.
ResultInv == TypeInv /\ ProgressInv /\ CallPhase /\ FlowInv

\* The invariant holds at the start, and every step keeps it.
LEMMA ResultInit == Init => ResultInv
<1>1. Init => FlowInv
  BY DEF Init, RunnerInit, FlowInv, Live
<1> QED BY <1>1, TypeInit, ProgressInit, CallPhaseInit DEF ResultInv

\* Every step keeps the invariant of the results.
LEMMA ResultNext == ResultInv /\ [Next]_vars => ResultInv'
<1> SUFFICES ASSUME ResultInv, [Next]_vars PROVE ResultInv'
  OBVIOUS
<1>1. /\ TypeInv /\ ProgressInv /\ CallPhase /\ FlowInv /\ RecordsGuarded /\ StreamTypes
  BY DEF ResultInv, ProgressInv, TypeInv
<1> QED BY <1>1, TypeNext, ProgressNext, CallPhaseNext, FlowNext DEF ResultInv

\* Once the readers are done with a child that was waited for, all it wrote was
\* read, and the log and the buffer have it.
LEMMA AllRead ==
  ASSUME StreamTypes, RecordsGuarded, AllSent, ReadersDone, NEW st \in Stream, Flow(st)
  PROVE  /\ Observed(st) =>
              /\ Veil(FlattenSeq(shown[st])) = LogText(script[st])
              /\ Bounded(kept[st], FlattenSeq(shown[st]))
              /\ \A k \in 1..Len(shown[st]) : OneLineShown(shown[st][k])
         /\ ~Observed(st) => Bounded(kept[st], script[st]) /\ shown[st] = <<>>
<1>1. PICK read \in Seq(Char) : /\ read \o pipe[st] = Written(st)
                                /\ Observed(st) => Logged(st, read)
                                /\ ~Observed(st) => Collected(st, read)
  BY DEF Flow
<1>2. pipe[st] = <<>> /\ pending[st] = <<>> /\ records[st] = <<>>
  <2>1. reader[st] = "done"
    BY DEF ReadersDone
  <2> QED BY <2>1 DEF Flow, RecordsGuarded, AtWork, Open
<1>3. script[st] \in Seq(Char)
  BY ScriptType DEF StreamTypes
<1>4. read = script[st]
  <2>1. Written(st) = SubSeq(script[st], 1, Len(script[st]))
    BY DEF Written, AllSent
  <2>2. Written(st) = script[st]
    BY <1>3, <2>1, SubSeqFull
  <2>3. read \o <<>> = read
    BY ConcatEmptySeq
  <2> QED BY <1>1, <1>2, <2>2, <2>3
<1>5. ASSUME Observed(st)
      PROVE  /\ Veil(FlattenSeq(shown[st])) = LogText(script[st])
             /\ Bounded(kept[st], FlattenSeq(shown[st]))
             /\ \A k \in 1..Len(shown[st]) : OneLineShown(shown[st][k])
  <2>1. Logged(st, read)
    BY <1>1, <1>5, Zenon
  <2>2. PICK gone \in Seq(Char) :
          /\ gone \o pending[st] = read
          /\ Veil(FlattenSeq(shown[st])) \o FlattenSeq(ShownAll(records[st])) = LogText(gone)
    BY <2>1 DEF Logged
  <2>3. gone = script[st]
    <3>1. gone \o <<>> = gone
      BY ConcatEmptySeq
    <3> QED BY <1>2, <1>4, <2>2, <3>1
  <2>4. Veil(FlattenSeq(shown[st])) = LogText(script[st])
    <3>1. PICK log \in Seq(LogChar) : log = Veil(FlattenSeq(shown[st]))
      BY VeiledLog
    <3>2. ShownAll(<<>>) = <<>>
      BY DEF ShownAll
    <3>3. FlattenSeq(ShownAll(records[st])) = <<>>
      BY <1>2, <3>2, FlattenNone
    <3>4. log \o <<>> = log
      BY <3>1, ConcatEmptySeq
    <3> QED BY <2>2, <2>3, <3>1, <3>3, <3>4
  <2>5. /\ Bounded(kept[st], FlattenSeq(shown[st]))
        /\ \A k \in 1..Len(shown[st]) : OneLineShown(shown[st][k])
    BY <2>1 DEF Logged
  <2> QED BY <2>4, <2>5
<1>6. ASSUME ~Observed(st) PROVE Bounded(kept[st], script[st]) /\ shown[st] = <<>>
  <2>1. Collected(st, read)
    BY <1>1, <1>6, Zenon
  <2> QED BY <1>4, <2>1 DEF Collected
<1> QED BY <1>5, <1>6, Zenon

\* A buffer that has the end of a log has, veiled, the end of what the log shows.
LEMMA VeiledEnd ==
  ASSUME NEW buffer \in Buffer, NEW log \in Seq(Rendered), Bounded(buffer, log)
  PROVE  /\ IsSuffix_(Veil(buffer.text), Veil(log))
         /\ Len(Veil(buffer.text)) = IF Len(Veil(log)) < StreamLimit
                                     THEN Len(Veil(log)) ELSE StreamLimit
         /\ ~buffer.truncated => Veil(buffer.text) = Veil(log)
<1>1. PICK text : text = buffer.text
  OBVIOUS
<1>2. /\ IsSuffix_(text, log)
      /\ Len(text) = IF Len(log) < StreamLimit THEN Len(log) ELSE StreamLimit
      /\ ~buffer.truncated => text = log
  BY <1>1 DEF Bounded
<1>3. text \in Seq(Rendered)
  <2>1. Len(text) \in Nat /\ Len(log) \in Nat
    BY <1>1, LenProperties DEF Buffer
  <2>2. Len(text) <= Len(log)
    BY <1>2 DEF IsSuffix_
  <2>3. PICK k \in 0..Len(log) : k = Len(log) - Len(text)
    BY <2>1, <2>2
  <2>4. \A s \in Seq(Rendered) : \A e \in 0..Len(s) :
          SubSeq(s, e + 1, Len(s)) \in Seq(Rendered)
    BY CutSeq
  <2>5. text = SubSeq(log, k + 1, Len(log))
    BY <1>2, <2>3, Zenon DEF IsSuffix_
  <2> QED BY <2>4, <2>5, Zenon
<1>4. Len(Veil(text)) = Len(text) /\ Len(Veil(log)) = Len(log)
  BY <1>3, VeilType
<1>5. IsSuffix_(Veil(text), Veil(log))
  BY <1>2, <1>3, VeilEnd
<1> QED BY <1>1, <1>2, <1>4, <1>5, Zenon

\* At a return everything was sent and read.
LEMMA FaithfulFromInv == ResultInv => ResultFaithful
<1> SUFFICES ASSUME ResultInv, result = "returned", kind # "captured", NEW st \in Stream
             PROVE  LET whole == IF Observed(st) THEN LogText(script[st]) ELSE script[st]
                        text == IF Observed(st) THEN Veil(kept[st].text) ELSE kept[st].text
                    IN /\ IsSuffix_(text, whole)
                       /\ Len(text) = IF Len(whole) < StreamLimit
                                      THEN Len(whole) ELSE StreamLimit
                       /\ ~kept[st].truncated => text = whole
                       /\ Observed(st) => Veil(FlattenSeq(shown[st])) = whole
                       /\ \A r \in DOMAIN shown[st] :
                            LET record == shown[st][r]
                            IN \A i \in DOMAIN record : record[i] = "n" => i = Len(record)
  BY Zenon DEF ResultFaithful
<1>1. CallPhase /\ StreamTypes /\ CallTypes /\ RecordsGuarded /\ FlowInv
  BY DEF ResultInv, TypeInv, ProgressInv
<1>2. ReadersDone /\ ~obsError /\ AllSent /\ Live
  BY <1>1 DEF CallPhase, CallTypes, Live
<1>3. Flow(st)
  BY <1>1, <1>2, Zenon DEF FlowInv
<1>4. /\ Observed(st) =>
              /\ Veil(FlattenSeq(shown[st])) = LogText(script[st])
              /\ Bounded(kept[st], FlattenSeq(shown[st]))
              /\ \A k \in 1..Len(shown[st]) : OneLineShown(shown[st][k])
      /\ ~Observed(st) => Bounded(kept[st], script[st]) /\ shown[st] = <<>>
  BY <1>1, <1>2, <1>3, AllRead
<1> DEFINE whole == IF Observed(st) THEN LogText(script[st]) ELSE script[st]
           text == IF Observed(st) THEN Veil(kept[st].text) ELSE kept[st].text
<1>5. Observed(st) => Veil(FlattenSeq(shown[st])) = whole
  BY <1>4, Zenon
<1>6. \A k \in 1..Len(shown[st]) : OneLineShown(shown[st][k])
  <2>1. Len(<<>>) = 0
    BY EmptySeq
  <2>2. CASE ~Observed(st)
    <3>1. Len(shown[st]) = 0
      BY <1>4, <2>1, <2>2, Zenon
    <3> QED BY <3>1
  <2> QED BY <1>4, <2>2, Zenon
<1>7. ASSUME NEW r \in DOMAIN shown[st]
      PROVE  \A i \in DOMAIN shown[st][r] : shown[st][r][i] = "n" => i = Len(shown[st][r])
  <2>1. shown[st] \in Seq(Seq(Rendered))
    BY <1>1 DEF StreamTypes
  <2>2. DOMAIN shown[st] = 1..Len(shown[st])
    BY <2>1, LenProperties
  <2>3. shown[st][r] \in Seq(Rendered)
    BY <2>1, <2>2, ElementOfSeq
  <2>4. DOMAIN shown[st][r] = 1..Len(shown[st][r])
    BY <2>3, LenProperties
  <2>5. OneLineShown(shown[st][r])
    BY <1>6, <2>2
  <2> QED BY <2>4, <2>5, Zenon DEF OneLineShown
<1>8. /\ IsSuffix_(text, whole)
      /\ Len(text) = IF Len(whole) < StreamLimit THEN Len(whole) ELSE StreamLimit
      /\ ~kept[st].truncated => text = whole
  <2>1. CASE Observed(st)
    <3>1. kept[st] \in Buffer /\ FlattenSeq(shown[st]) \in Seq(Rendered)
      BY <1>1, VeiledLog DEF StreamTypes
    <3>2. /\ text = Veil(kept[st].text) /\ whole = Veil(FlattenSeq(shown[st]))
          /\ Bounded(kept[st], FlattenSeq(shown[st]))
      BY <1>4, <2>1, Zenon
    <3> HIDE DEF text, whole
    <3> QED BY <3>1, <3>2, VeiledEnd
  <2>2. CASE ~Observed(st)
    <3>1. text = kept[st].text /\ whole = script[st] /\ Bounded(kept[st], script[st])
      BY <1>4, <2>2, Zenon
    <3> HIDE DEF text, whole
    <3> QED BY <3>1, Zenon DEF Bounded
  <2> QED BY <2>1, <2>2
<1> HIDE DEF text, whole
<1> QED BY <1>5, <1>7, <1>8, Zenon DEF text, whole

\* A call that returns gives back the end of everything the child wrote, whole
\* unless it is marked truncated, and the log has all of it, one line a record,
\* for any texts, pipes, limits and order of child, readers and observer.
THEOREM ResultsFaithful == Spec => []ResultFaithful
BY ResultInit, ResultNext, FaithfulFromInv, PTL DEF Spec
================================================================================
