------------------------ MODULE InstallerOutcomeProofs ------------------------
(***************************************************************************)
(* What an installation has reached when its stages are complete, for any  *)
(* number of processes and projects and any bounds: the host was booted    *)
(* since its kernel was changed, tuning ran on a verified kernel, every    *)
(* plan was named by the command that applies it, and images, release and  *)
(* project agree.                                                          *)
(*                                                                         *)
(* The invariant says what each completed stage stands for as long as it   *)
(* is complete, and what a run that has passed a stage knows; it rests on  *)
(* the one of InstallerWorkflowProofs.                                     *)
(***************************************************************************)
EXTENDS InstallerWorkflowProofs

USE DEF BOOTSTRAP, HOST_PREFLIGHT, KERNEL_PLAN, KERNEL_CONFIRM, KERNEL_APPLY,
        KERNEL_REBOOT_PENDING, KERNEL_VERIFY, HOST_PLAN, HOST_CONFIRM, HOST_APPLY,
        HOST_VERIFY, RELEASE_RESOLVE, IMAGE_PULL_OR_BUILD, IMAGE_VERIFY, PROJECT_INIT,
        PROJECT_VERIFY, COMPLETE, Stage

NeedOp == Op \ {"oem", "group"}
PlanShape(plan) == /\ plan \in [Phase -> Digest]
                   /\ plan["kernel"] \in {None} \union SUBSET KernelOp
                   /\ plan["host"] \in {None} \union SUBSET (HostOp \ {"group"})

\* The recorded inputs of a confirmation: interactive, or the plan was named.
Answered(inputs, plan) ==
  /\ inputs[1] = plan
  /\ inputs[2] \in BOOLEAN
  /\ inputs[2] = FALSE => inputs[3] = plan

\* What a completed stage stands for, as long as it is complete: s is the file
\* and inputs what it records for the stage, c the configuration of the project,
\* ch the boot of its last kernel operation.
StageMeans(at, s, inputs, c, ch, now) ==
  /\ at = KERNEL_PLAN => s.plan["kernel"] # None
  /\ at = HOST_PLAN => s.plan["host"] # None
  /\ at \in ConfirmStage => Answered(inputs, s.plan[PhaseOf(at)])
  /\ at = HOST_CONFIRM /\ inputs[2] = FALSE => inputs[4] = s.group
  /\ at = KERNEL_APPLY /\ RebootRequired(s.plan["kernel"]) =>
       s.kboot \in 1..now /\ ch \in 1..s.kboot
  /\ at = KERNEL_REBOOT_PENDING /\ RebootRequired(s.plan["kernel"]) => s.kboot < now
  /\ at = RELEASE_RESOLVE => s.image = s.release /\ s.image \in Image
  /\ at = PROJECT_INIT => c.image = s.image

FileTyped(s, now) ==
  /\ s.tool \in Version /\ s.group \in BOOLEAN /\ s.kboot \in {None} \union 1..now
  /\ s.kstatus \in {None, "pass", "blocked"} /\ s.kkernel \in {None} \union Kernel
  /\ s.release \in {None} \union Image /\ s.image \in {None} \union Image

OutFile(s, c, ch, now) ==
  /\ PlanShape(s.plan) /\ FileTyped(s, now)
  /\ \A at \in Stage : Done(s, at) => StageMeans(at, s, s.inputs[at], c, ch, now)

\* A run, its options and what it works with.
RunShape(j) ==
  /\ j.tool \in Version /\ j.opts.interactive \in BOOLEAN /\ j.opts.group \in BOOLEAN
  /\ PlanShape(j.plan) /\ j.release \in {None} \union Version

\* A run that has the stages up to at behind it, and the file of its project.
Passed(at, j, s) ==
  /\ at >= KERNEL_VERIFY => KernelFine /\ s.kstatus = "pass" /\ s.kkernel = running
  /\ at >= KERNEL_CONFIRM /\ ~j.opts.interactive => j.opts.accept["kernel"] = s.plan["kernel"]
  /\ at >= HOST_CONFIRM /\ ~j.opts.interactive =>
       j.opts.accept["host"] = s.plan["host"] /\ (s.group => j.opts.group)

\* A confirmation under way has read what it is to record.
Asking(j, s) ==
  /\ j.inputs[1] = s.plan[PhaseOf(j.at)] /\ j.inputs[2] = j.opts.interactive
  /\ j.inputs[3] = j.opts.accept[PhaseOf(j.at)]
  /\ j.at = HOST_CONFIRM => j.inputs[4] = j.opts.group

\* What has been executed of a kernel plan was executed in this boot.
Changing(j, s, ch, now) ==
  /\ j.plan["kernel"] = s.plan["kernel"] /\ j.left \subseteq s.plan["kernel"]
  /\ RebootRequired(s.plan["kernel"] \ j.left) => ch = now

OutRun(step, j, s, ch, now) ==
  /\ RunShape(j) /\ Passed(j.at - 1, j, s)
  /\ step = "run" /\ j.at \in ConfirmStage => Asking(j, s)
  /\ step = "apply" /\ j.at = KERNEL_APPLY => Changing(j, s, ch, now)

RunKnows(i) == OutRun(pc[i], job[i], state[job[i].project], changed[job[i].project], boot)

Surroundings ==
  /\ config \in [Project -> {None} \union [image : Image, edited : BOOLEAN]]
  /\ changed \in [Project -> {None} \union 1..boot]
  /\ todo \subseteq NeedOp /\ boot \in Nat \ {0}
  /\ installed \subseteq Kernel /\ running \in installed /\ healthy \in BOOLEAN
  /\ manifest \in Version /\ tool \in Version

Outcome ==
  /\ Surroundings
  /\ \A p \in Project : OutFile(state[p], config[p], changed[p], boot)
  /\ \A i \in Installer : pc[i] # "idle" => RunKnows(i)

-----------------------------------------------------------------------------
(* A step of the only run under way.                                       *)

LEMMA OutcomeOfRun ==
  ASSUME Inv, Outcome, NEW i \in Installer, pc[i] # "idle",
         Surroundings', UNCHANGED <<running, healthy, boot>>,
         \A p \in Project : p # job[i].project =>
           state'[p] = state[p] /\ config'[p] = config[p] /\ changed'[p] = changed[p],
         \A k \in Installer : k # i => pc'[k] = pc[k] /\ job'[k] = job[k],
         OutFile(state'[job[i].project], config'[job[i].project],
                 changed'[job[i].project], boot),
         pc'[i] # "idle" =>
           /\ job'[i].project = job[i].project
           /\ OutRun(pc'[i], job'[i], state'[job[i].project], changed'[job[i].project], boot)
  PROVE  Outcome'
<1>1. \A p \in Project : OutFile(state'[p], config'[p], changed'[p], boot')
  BY DEF Outcome
<1>2. \A k \in Installer : k # i => pc[k] = "idle"
  BY DEF Inv, Running
<1>3. \A k \in Installer : pc'[k] # "idle" => RunKnows(k)'
  <2> SUFFICES ASSUME NEW k \in Installer, pc'[k] # "idle" PROVE RunKnows(k)'
    OBVIOUS
  <2>1. k = i
    BY <1>2
  <2>2. OutRun(pc'[i], job'[i], state'[job'[i].project], changed'[job'[i].project], boot')
    BY <2>1
  <2> QED BY <2>1, <2>2 DEF RunKnows, OutRun, Passed, KernelFine
<1> QED BY <1>1, <1>3 DEF Outcome

\* What is known of a run under way.
LEMMA KnownOut ==
  ASSUME Inv, Outcome, NEW i \in Installer, pc[i] # "idle"
  PROVE  /\ OutFile(File(i), config[job[i].project], changed[job[i].project], boot)
         /\ OutRun(pc[i], job[i], File(i), changed[job[i].project], boot)
         /\ Surroundings
BY Known DEF Outcome, RunKnows

\* A run goes on to the next stage, or ends after the last.
LEMMA OutAdvances ==
  ASSUME Inv, Outcome, NEW i \in Installer, pc[i] # "idle", NEW j, NextStage(i, j),
         Shaped(j), RunShape(j), j.project = job[i].project, j.at \in Stage,
         UNCHANGED <<config, host, checkout, changed>>,
         \A p \in Project : p # job[i].project => state'[p] = state[p],
         OutFile(state'[job[i].project], config[job[i].project],
                 changed[job[i].project], boot),
         Passed(j.at, j, state'[job[i].project])
  PROVE  Outcome'
<1>0. Surroundings' /\ UNCHANGED <<running, healthy, boot>>
  BY DEF Outcome, Surroundings, host, checkout
<1>1. /\ \A k \in Installer : k # i => pc'[k] = pc[k] /\ job'[k] = job[k]
      /\ pc'[i] # "idle" =>
           /\ pc'[i] = "stage" /\ job'[i] = [[j EXCEPT !.at = j.at + 1] EXCEPT !.inputs = None]
  BY Known DEF NextStage, Stop
<1>2. ASSUME pc'[i] # "idle"
      PROVE  /\ job'[i].project = j.project /\ job'[i].tool = j.tool /\ job'[i].opts = j.opts
             /\ job'[i].plan = j.plan /\ job'[i].release = j.release
             /\ job'[i].at = j.at + 1
  BY <1>1, <1>2 DEF Shaped, JobFields
<1>3. ASSUME pc'[i] # "idle"
      PROVE  OutRun(pc'[i], job'[i], state'[job[i].project], changed'[job[i].project], boot)
  <2>1. job'[i].at - 1 = j.at /\ pc'[i] = "stage"
    BY <1>1, <1>2, <1>3
  <2>2. Passed(j.at, job'[i], state'[job[i].project]) /\ RunShape(job'[i])
    BY <1>2, <1>3 DEF RunShape, Passed
  <2> QED BY <2>1, <2>2 DEF OutRun
<1> QED BY <1>0, <1>1, <1>2, <1>3, OutcomeOfRun

\* A run that ends leaves everything as it is, or reports.
LEMMA OutEnds ==
  ASSUME Inv, Outcome, NEW i \in Installer, pc[i] # "idle", Stop(i),
         UNCHANGED <<config, host, checkout, changed>>,
         \A p \in Project : p # job[i].project => state'[p] = state[p],
         OutFile(state'[job[i].project], config[job[i].project],
                 changed[job[i].project], boot)
  PROVE  Outcome'
<1>1. Surroundings' /\ UNCHANGED <<running, healthy, boot>>
  BY DEF Outcome, Surroundings, host, checkout
<1>2. /\ \A k \in Installer : k # i => pc'[k] = pc[k] /\ job'[k] = job[k]
      /\ pc'[i] = "idle"
  BY SMTT(30), Known DEF Stop
<1> QED BY <1>1, <1>2, OutcomeOfRun

\* The file t is s with the stage of the run j added to those of f.
Written(f, s, j, t) ==
  /\ t.plan = s.plan /\ t.tool = s.tool /\ t.group = s.group
  /\ t.kboot = s.kboot /\ t.kstatus = s.kstatus /\ t.kkernel = s.kkernel
  /\ t.image = s.image /\ t.release = s.release
  /\ \A a \in Stage : Done(t, a) <=> Done(f, a) \/ a = j.at
  /\ \A a \in Stage : Done(f, a) => t.inputs[a] = f.inputs[a]
  /\ t.inputs[j.at] = j.inputs

\* What a stage that passes writes.
LEMMA PassFile ==
  ASSUME Inv, NEW i \in Installer, pc[i] \in {"run", "apply"}, NEW s, NEW j, Pass(i, s, j),
         DOMAIN s = FileFields, s.inputs = File(i).inputs, j.at = job[i].at
  PROVE  /\ Written(File(i), s, j, state'[job[i].project])
         /\ \A p \in Project : p # job[i].project => state'[p] = state[p]
<1> DEFINE c == Checkpoint(s, j)
<1>1. /\ job[i].project \in Project /\ DOMAIN state = Project /\ job[i].at \in Stage
      /\ ~Done(File(i), job[i].at) /\ Admitted(File(i))
      /\ \A a \in Stage : a < j.at => Done(File(i), a)
  BY Known DEF GoodRun, GoodFile
<1>2. /\ c.plan = s.plan /\ c.tool = s.tool /\ c.group = s.group
      /\ c.kboot = s.kboot /\ c.kstatus = s.kstatus /\ c.kkernel = s.kkernel
      /\ c.image = s.image /\ c.release = s.release
      /\ c.inputs = Recorded(s.inputs, j)
  BY DEF Checkpoint, FileFields
<1>3. state' = [state EXCEPT ![job[i].project] = c]
  BY DEF Pass, Save
<1> HIDE DEF c
<1>4. /\ \A a \in Stage : Done(c, a) <=> Done(File(i), a) \/ a = j.at
      /\ \A a \in Stage : Done(File(i), a) => c.inputs[a] = File(i).inputs[a]
      /\ c.inputs[j.at] = j.inputs
  BY <1>1, <1>2 DEF Done, Recorded
<1>5. state'[job[i].project] = c /\ \A p \in Project : p # job[i].project => state'[p] = state[p]
  BY <1>1, <1>3
<1> QED BY <1>2, <1>4, <1>5 DEF Written

\* What the completed stages mean depends on few fields of the file.
SameMeaning(s, t) == /\ t.plan = s.plan /\ t.group = s.group /\ t.kboot = s.kboot
                     /\ t.image = s.image /\ t.release = s.release

LEMMA FileMeans ==
  ASSUME NEW s, NEW c, NEW ch, NEW now, OutFile(s, c, ch, now)
  PROVE  \A at \in Stage : Done(s, at) => StageMeans(at, s, s.inputs[at], c, ch, now)
BY DEF OutFile

LEMMA MeansSame ==
  ASSUME NEW s, NEW t, SameMeaning(s, t),
         NEW at, NEW inputs, NEW c, NEW ch, NEW now, StageMeans(at, s, inputs, c, ch, now)
  PROVE  StageMeans(at, t, inputs, c, ch, now)
BY SMTT(30) DEF StageMeans, SameMeaning

\* A stage that passes: what the others stood for still holds with the file s,
\* and so does what it stands for itself.
LEMMA OutPasses ==
  ASSUME Inv, Outcome, NEW i \in Installer, pc[i] \in {"run", "apply"},
         NEW s, NEW j, Pass(i, s, j), DOMAIN s = FileFields, s.inputs = File(i).inputs,
         Shaped(j), RunShape(j), j.project = job[i].project, j.at = job[i].at,
         UNCHANGED <<config, host, checkout, changed>>,
         PlanShape(s.plan), FileTyped(s, boot), Passed(j.at, j, s),
         \A a \in Stage : Done(File(i), a) =>
           StageMeans(a, s, File(i).inputs[a], config[j.project], changed[j.project], boot),
         StageMeans(j.at, s, j.inputs, config[j.project], changed[j.project], boot)
  PROVE  Outcome'
<1> DEFINE t == state'[job[i].project]
<1>1. /\ SameMeaning(s, t) /\ t.kstatus = s.kstatus /\ t.kkernel = s.kkernel /\ t.tool = s.tool
      /\ \A a \in Stage : Done(t, a) <=> Done(File(i), a) \/ a = j.at
      /\ \A a \in Stage : Done(File(i), a) => t.inputs[a] = File(i).inputs[a]
      /\ t.inputs[j.at] = j.inputs
      /\ \A p \in Project : p # job[i].project => state'[p] = state[p]
  <2>1. Written(File(i), s, j, t) /\ \A p \in Project : p # job[i].project => state'[p] = state[p]
    BY PassFile
  <2> HIDE DEF t
  <2> QED BY <2>1 DEF Written, SameMeaning
<1>2. pc[i] # "idle" /\ j.at \in Stage /\ NextStage(i, j)
  BY Known DEF Pass
<1> HIDE DEF t
<1>3. OutFile(t, config[j.project], changed[j.project], boot)
  <2>1. ASSUME NEW a \in Stage, Done(t, a)
        PROVE  StageMeans(a, t, t.inputs[a], config[j.project], changed[j.project], boot)
    <3>1. CASE Done(File(i), a)
      BY <1>1, <2>1, <3>1, MeansSame
    <3>2. CASE a = j.at
      BY <1>1, <2>1, <3>2, MeansSame
    <3> QED BY <1>1, <2>1, <3>1, <3>2
  <2>2. PlanShape(t.plan) /\ FileTyped(t, boot)
    BY <1>1 DEF SameMeaning, FileTyped
  <2> QED BY <2>1, <2>2 DEF OutFile
<1>4. Passed(j.at, j, t)
  BY SMTT(30), <1>1 DEF Passed, SameMeaning
<1>5. /\ OutFile(state'[job[i].project], config[job[i].project], changed[job[i].project], boot)
      /\ Passed(j.at, j, state'[job[i].project])
      /\ \A p \in Project : p # job[i].project => state'[p] = state[p]
  BY ZenonT(30), <1>1, <1>3, <1>4 DEF t
<1> QED BY <1>2, <1>5, OutAdvances

\* A stage that changes none of the fields that mean something.
LEMMA OutQuiet ==
  ASSUME Inv, Outcome, NEW i \in Installer, pc[i] \in {"run", "apply"},
         NEW s, Pass(i, s, job[i]), DOMAIN s = FileFields, s.inputs = File(i).inputs,
         UNCHANGED <<config, host, checkout, changed>>,
         SameMeaning(File(i), s), s.kstatus = File(i).kstatus, s.kkernel = File(i).kkernel,
         job[i].at \notin {KERNEL_VERIFY} \union ConfirmStage, FileTyped(s, boot),
         StageMeans(job[i].at, s, job[i].inputs, config[job[i].project],
                    changed[job[i].project], boot)
  PROVE  Outcome'
<1>1. /\ OutFile(File(i), config[job[i].project], changed[job[i].project], boot)
      /\ RunShape(job[i]) /\ Passed(job[i].at - 1, job[i], File(i))
      /\ Shaped(job[i]) /\ job[i].at \in Stage
  BY Known, KnownOut DEF OutRun
<1>2. PlanShape(s.plan)
  BY <1>1 DEF OutFile, SameMeaning
<1>3. \A a \in Stage : Done(File(i), a) =>
        StageMeans(a, s, File(i).inputs[a], config[job[i].project],
                   changed[job[i].project], boot)
  BY <1>1, MeansSame DEF OutFile
<1>4. Passed(job[i].at, job[i], s)
  <2>1. /\ job[i].at >= KERNEL_VERIFY => job[i].at - 1 >= KERNEL_VERIFY
        /\ job[i].at >= KERNEL_CONFIRM => job[i].at - 1 >= KERNEL_CONFIRM
        /\ job[i].at >= HOST_CONFIRM => job[i].at - 1 >= HOST_CONFIRM
    BY <1>1 DEF ConfirmStage
  <2> QED BY <1>1, <2>1 DEF Passed, SameMeaning
<1> QED BY <1>1, <1>2, <1>3, <1>4, OutPasses

-----------------------------------------------------------------------------
(* The actions, one by one.                                                *)

\* Of a stage that is being worked on none of the later ones is complete.
LEMMA DoneBefore ==
  ASSUME Inv, NEW i \in Installer, pc[i] \in {"run", "apply"}
  PROVE  \A a \in Stage : Done(File(i), a) => a < job[i].at
<1>1. job[i].at \in Stage /\ ~Done(File(i), job[i].at) /\ Admitted(File(i))
  BY Known DEF GoodRun, GoodFile
<1> QED BY <1>1 DEF Admitted

\* The recorded inputs of a completed confirmation are those of this run.
LEMMA ConfirmInputs ==
  ASSUME NEW j, NEW s, j.at \in ConfirmStage
  PROVE  LET n == Inputs(j, s)
         IN /\ n[1] = s.plan[PhaseOf(j.at)] /\ n[2] = j.opts.interactive
            /\ n[3] = j.opts.accept[PhaseOf(j.at)]
            /\ j.at = HOST_CONFIRM /\ j.opts.group \in BOOLEAN => n[4] = j.opts.group
  BY SMTT(30) DEF Inputs, ConfirmStage

LEMMA SkipOut ==
  ASSUME Inv, Outcome, NEW i \in Installer, Skip(i)
  PROVE  Outcome'
<1>1. /\ pc[i] # "idle" /\ job[i].at \in Stage \ GuardStage /\ NextStage(i, job[i])
      /\ Done(File(i), job[i].at) /\ File(i).inputs[job[i].at] = Inputs(job[i], File(i))
      /\ UNCHANGED <<state, config, host, checkout, changed>>
  BY DEF Skip, At, Unchanged, disk, history
<1>2. /\ OutFile(File(i), config[job[i].project], changed[job[i].project], boot)
      /\ RunShape(job[i]) /\ Passed(job[i].at - 1, job[i], File(i))
      /\ Shaped(job[i]) /\ job[i].at \in Stage /\ File(i) = state[job[i].project]
  BY <1>1, Known, KnownOut DEF OutRun
<1>3. StageMeans(job[i].at, File(i), Inputs(job[i], File(i)), config[job[i].project],
                 changed[job[i].project], boot)
  BY <1>1, <1>2 DEF OutFile
<1>5. Passed(job[i].at, job[i], File(i))
  <2>1. job[i].at # KERNEL_VERIFY
    BY <1>1 DEF GuardStage
  <2>2. CASE job[i].at \notin ConfirmStage
    <3>1. /\ job[i].at >= KERNEL_VERIFY => job[i].at - 1 >= KERNEL_VERIFY
          /\ job[i].at >= KERNEL_CONFIRM => job[i].at - 1 >= KERNEL_CONFIRM
          /\ job[i].at >= HOST_CONFIRM => job[i].at - 1 >= HOST_CONFIRM
      BY <1>2, <2>1, <2>2 DEF ConfirmStage
    <3> QED BY <1>2, <3>1 DEF Passed
  <2>3. CASE job[i].at = KERNEL_CONFIRM
    <3>1. ~job[i].opts.interactive => job[i].opts.accept["kernel"] = File(i).plan["kernel"]
      BY <1>2, <1>3, <2>3, ConfirmInputs DEF StageMeans, Answered, ConfirmStage, PhaseOf, RunShape
    <3> QED BY <2>3, <3>1 DEF Passed
  <2>4. CASE job[i].at = HOST_CONFIRM
    <3>1. ~job[i].opts.interactive =>
            /\ job[i].opts.accept["host"] = File(i).plan["host"]
            /\ File(i).group => job[i].opts.group
      BY <1>2, <1>3, <2>4, ConfirmInputs DEF StageMeans, Answered, ConfirmStage, PhaseOf, RunShape
    <3>2. Passed(HOST_CONFIRM - 1, job[i], File(i))
      BY <1>2, <2>4
    <3> QED BY <2>4, <3>1, <3>2 DEF Passed
  <2> QED BY <2>2, <2>3, <2>4 DEF ConfirmStage
<1>6. UNCHANGED state => /\ state'[job[i].project] = File(i)
                         /\ \A p \in Project : p # job[i].project => state'[p] = state[p]
  BY <1>2
<1> QED BY <1>1, <1>2, <1>5, <1>6, OutAdvances

LEMMA BeginOut ==
  ASSUME Inv, Outcome, NEW i \in Installer, Begin(i)
  PROVE  Outcome'
<1> DEFINE j == [[job[i] EXCEPT !.inputs = Inputs(job[i], File(i))] EXCEPT !.release = Cached(job[i])]
<1>1. /\ pc[i] # "idle" /\ job' = [job EXCEPT ![i] = j] /\ pc' = [pc EXCEPT ![i] = "run"]
      /\ UNCHANGED <<state, config, host, checkout, changed>>
  BY DEF Begin, At, disk, history
<1>2. /\ OutFile(File(i), config[job[i].project], changed[job[i].project], boot)
      /\ RunShape(job[i]) /\ Passed(job[i].at - 1, job[i], File(i)) /\ manifest \in Version
      /\ Shaped(job[i]) /\ job[i].at \in Stage /\ File(i) = state[job[i].project]
      /\ DOMAIN pc = Installer /\ DOMAIN job = Installer
  BY <1>1, Known, KnownOut DEF OutRun, Surroundings
<1>3. /\ j.plan = job[i].plan /\ j.project = job[i].project /\ j.opts = job[i].opts
      /\ j.tool = job[i].tool /\ j.at = job[i].at /\ j.inputs = Inputs(job[i], File(i))
      /\ j.release = Cached(job[i])
  BY <1>2 DEF Shaped, JobFields
<1>4. Cached(job[i]) \in {None} \union Version
  BY <1>2 DEF Cached, ResolvedRelease, RunShape
<1> HIDE DEF j
<1>5. OutRun("run", j, File(i), changed[job[i].project], boot)
  <2>1. RunShape(j) /\ Passed(j.at - 1, j, File(i))
    BY <1>2, <1>3, <1>4 DEF RunShape, Passed
  <2>2. j.at \in ConfirmStage => Asking(j, File(i))
    BY <1>2, <1>3, ConfirmInputs DEF Asking, RunShape
  <2> QED BY <2>1, <2>2 DEF OutRun
<1>6. Surroundings' /\ UNCHANGED <<running, healthy, boot>>
  BY <1>1 DEF Outcome, Surroundings, host, checkout
<1>7. /\ pc'[i] = "run" /\ job'[i] = j /\ \A k \in Installer : k # i => pc'[k] = pc[k] /\ job'[k] = job[k]
  BY <1>1, <1>2
<1> QED BY <1>1, <1>2, <1>3, <1>5, <1>6, <1>7, OutcomeOfRun

\* What a verification writes means nothing to the stages that are complete.
LEMMA ReportOut ==
  ASSUME Inv, Outcome, NEW i \in Installer, pc[i] # "idle", NEW verdict \in {"pass", "blocked"}
  PROVE  LET s == Report(i, verdict)
         IN /\ SameMeaning(File(i), s) /\ DOMAIN s = FileFields /\ s.inputs = File(i).inputs
            /\ s.tool = File(i).tool /\ PlanShape(s.plan) /\ FileTyped(s, boot)
            /\ \A a \in Stage : Done(File(i), a) =>
                 StageMeans(a, s, File(i).inputs[a], config[job[i].project],
                            changed[job[i].project], boot)
            /\ OutFile(s, config[job[i].project], changed[job[i].project], boot)
            /\ job[i].at = KERNEL_VERIFY => s.kstatus = verdict /\ s.kkernel = running
            /\ job[i].at # KERNEL_VERIFY => s = File(i)
<1> DEFINE s == Report(i, verdict)
<1>1. /\ DOMAIN File(i) = FileFields
      /\ OutFile(File(i), config[job[i].project], changed[job[i].project], boot)
      /\ running \in Kernel
  BY Known, KnownOut DEF Surroundings
<1>2. /\ SameMeaning(File(i), s) /\ DOMAIN s = FileFields /\ s.inputs = File(i).inputs
      /\ s.tool = File(i).tool
      /\ job[i].at = KERNEL_VERIFY => s.kstatus = verdict /\ s.kkernel = running
      /\ job[i].at # KERNEL_VERIFY => s = File(i)
  BY <1>1 DEF Report, SameMeaning, FileFields
<1> HIDE DEF s
<1>3. PlanShape(s.plan) /\ FileTyped(s, boot)
  BY <1>1, <1>2 DEF OutFile, SameMeaning, FileTyped
<1>4. \A a \in Stage : Done(File(i), a) =>
        StageMeans(a, s, File(i).inputs[a], config[job[i].project],
                   changed[job[i].project], boot)
  BY <1>1, <1>2, MeansSame DEF OutFile
<1>5. OutFile(s, config[job[i].project], changed[job[i].project], boot)
  BY <1>2, <1>3, <1>4 DEF OutFile, Done
<1> QED BY <1>2, <1>3, <1>4, <1>5 DEF s

LEMMA VerifyOut ==
  ASSUME Inv, Outcome, NEW i \in Installer, Verify(i)
  PROVE  Outcome'
<1> DEFINE s == Report(i, "pass")
<1>1. /\ pc[i] # "idle" /\ NextStage(i, job[i]) /\ job[i].at \in VerifyStage
      /\ UNCHANGED <<config, host, checkout, changed>>
      /\ Fine(job[i].at)
      /\ Save(i, IF pc[i] = "run" THEN Checkpoint(s, job[i]) ELSE s)
  BY DEF Verify, Verifying, VerifyStage, GuardStage, At, history
<1>2. /\ RunShape(job[i]) /\ Passed(job[i].at - 1, job[i], File(i)) /\ Shaped(job[i])
      /\ job[i].project \in Project /\ DOMAIN state = Project
  BY <1>1, Known, KnownOut DEF OutRun
<1>3. /\ SameMeaning(File(i), s) /\ DOMAIN s = FileFields /\ s.inputs = File(i).inputs
      /\ PlanShape(s.plan) /\ FileTyped(s, boot)
      /\ \A a \in Stage : Done(File(i), a) =>
           StageMeans(a, s, File(i).inputs[a], config[job[i].project],
                      changed[job[i].project], boot)
      /\ OutFile(s, config[job[i].project], changed[job[i].project], boot)
      /\ job[i].at = KERNEL_VERIFY => s.kstatus = "pass" /\ s.kkernel = running
      /\ job[i].at # KERNEL_VERIFY => s = File(i)
  BY <1>1, ReportOut
<1> HIDE DEF s
<1>4. Passed(job[i].at, job[i], s)
  <2>1. CASE job[i].at = KERNEL_VERIFY
    <3>1. Passed(KERNEL_VERIFY - 1, job[i], File(i)) /\ KernelFine
      BY <1>1, <1>2, <2>1 DEF Fine
    <3> QED BY <1>3, <2>1, <3>1 DEF Passed, SameMeaning
  <2>2. CASE job[i].at = HOST_VERIFY
    <3>1. Passed(HOST_VERIFY - 1, job[i], File(i)) /\ s = File(i)
      BY <1>2, <1>3, <2>2
    <3> QED BY <2>2, <3>1 DEF Passed
  <2> QED BY <1>1, <2>1, <2>2 DEF VerifyStage
<1>5. StageMeans(job[i].at, s, job[i].inputs, config[job[i].project],
                 changed[job[i].project], boot)
  BY SMTT(30), <1>1 DEF VerifyStage, ConfirmStage, StageMeans
<1>6. CASE pc[i] = "run"
  <2>1. Pass(i, s, job[i])
    BY <1>1, <1>6 DEF Pass
  <2> QED BY <1>1, <1>2, <1>3, <1>4, <1>5, <1>6, <2>1, OutPasses
<1>7. CASE pc[i] # "run"
  <2>1. /\ state'[job[i].project] = s
        /\ \A p \in Project : p # job[i].project => state'[p] = state[p]
    BY <1>1, <1>2, <1>7 DEF Save
  <2> QED BY <1>1, <1>2, <1>3, <1>4, <2>1, Known, OutAdvances
<1> QED BY <1>6, <1>7

LEMMA BlockedOut ==
  ASSUME Inv, Outcome, NEW i \in Installer, Blocked(i)
  PROVE  Outcome'
<1> DEFINE s == Report(i, "blocked")
<1>1. /\ pc[i] # "idle" /\ Stop(i) /\ Save(i, s)
      /\ UNCHANGED <<config, host, checkout, changed>>
  BY DEF Blocked, Verifying, At, history
<1>2. OutFile(s, config[job[i].project], changed[job[i].project], boot)
  BY <1>1, ReportOut
<1> HIDE DEF s
<1>3. /\ state'[job[i].project] = s
      /\ \A p \in Project : p # job[i].project => state'[p] = state[p]
  BY <1>1, Known DEF Save
<1> QED BY <1>1, <1>2, <1>3, OutEnds

LEMMA SimpleOut ==
  ASSUME Inv, Outcome, NEW i \in Installer, Simple(i)
  PROVE  Outcome'
<1> DEFINE s == IF job[i].at = BOOTSTRAP THEN [File(i) EXCEPT !.tool = job[i].tool] ELSE File(i)
<1>1. /\ pc[i] \in {"run", "apply"} /\ pc[i] # "idle" /\ Pass(i, s, job[i])
      /\ job[i].at \in {BOOTSTRAP, HOST_PREFLIGHT, IMAGE_VERIFY, PROJECT_VERIFY, COMPLETE}
      /\ UNCHANGED <<config, host, checkout, changed>>
  BY DEF Simple, At, history
<1>2. /\ DOMAIN File(i) = FileFields /\ job[i].tool \in Version
      /\ FileTyped(File(i), boot)
  BY <1>1, Known, KnownOut DEF OutRun, RunShape, OutFile
<1>3. /\ DOMAIN s = FileFields /\ s.inputs = File(i).inputs /\ SameMeaning(File(i), s)
      /\ s.kstatus = File(i).kstatus /\ s.kkernel = File(i).kkernel /\ FileTyped(s, boot)
  BY <1>2 DEF FileFields, SameMeaning, FileTyped
<1> HIDE DEF s
<1>4. job[i].at \notin {KERNEL_VERIFY} \union ConfirmStage
  BY <1>1 DEF ConfirmStage
<1>5. StageMeans(job[i].at, s, job[i].inputs, config[job[i].project],
                 changed[job[i].project], boot)
  BY <1>1 DEF StageMeans, ConfirmStage
<1> QED BY <1>1, <1>3, <1>4, <1>5, OutQuiet

\* What the host needs is a plan.
LEMMA PlansFit == Outcome => /\ PlanOf("kernel") \in SUBSET KernelOp
                             /\ PlanOf("host") \in SUBSET (HostOp \ {"group"})
                             /\ PlanOf("kernel") # None /\ PlanOf("host") # None
<1> SUFFICES ASSUME Outcome PROVE /\ PlanOf("kernel") \in SUBSET KernelOp
                                  /\ PlanOf("host") \in SUBSET (HostOp \ {"group"})
                                  /\ PlanOf("kernel") # None /\ PlanOf("host") # None
  OBVIOUS
<1>1. todo \subseteq NeedOp
  BY DEF Outcome, Surroundings
<1>2. PlanOf("kernel") \in SUBSET KernelOp /\ PlanOf("host") \in SUBSET (HostOp \ {"group"})
  BY <1>1 DEF PlanOf, NeedOp, KernelOp, HostOp, Op
<1>3. \A plan \in SUBSET Op : plan # None
  BY InstallerAssumption
<1>4. PlanOf("kernel") \in SUBSET Op /\ PlanOf("host") \in SUBSET Op
  BY SMTT(30), <1>2 DEF Op
<1> QED BY <1>2, <1>3, <1>4

LEMMA MakePlanOut ==
  ASSUME Inv, Outcome, NEW i \in Installer, MakePlan(i)
  PROVE  Outcome'
<1> DEFINE f == PhaseOf(job[i].at)
           s == [File(i) EXCEPT !.plan = [@ EXCEPT ![f] = PlanOf(f)]]
           j == [job[i] EXCEPT !.plan = [@ EXCEPT ![f] = PlanOf(f)]]
<1>1. /\ pc[i] \in {"run", "apply"} /\ pc[i] # "idle" /\ job[i].at \in {KERNEL_PLAN, HOST_PLAN}
      /\ Pass(i, s, j) /\ UNCHANGED <<config, host, checkout, changed>>
  BY DEF MakePlan, At, PlanStage, history
<1>2. /\ DOMAIN File(i) = FileFields /\ Shaped(job[i])
      /\ OutFile(File(i), config[job[i].project], changed[job[i].project], boot)
      /\ RunShape(job[i]) /\ Passed(job[i].at - 1, job[i], File(i))
      /\ PlanShape(File(i).plan) /\ PlanShape(job[i].plan) /\ FileTyped(File(i), boot)
  BY <1>1, Known, KnownOut DEF OutRun, OutFile, RunShape
<1>3. /\ job[i].at = KERNEL_PLAN => f = "kernel"
      /\ job[i].at = HOST_PLAN => f = "host"
  BY DEF PhaseOf
<1>4. \A g \in {"kernel", "host"} : \A plan :
        PlanShape(plan) => /\ PlanShape([plan EXCEPT ![g] = PlanOf(g)])
                           /\ [plan EXCEPT ![g] = PlanOf(g)][g] = PlanOf(g)
                           /\ \A h \in Phase : h # g => [plan EXCEPT ![g] = PlanOf(g)][h] = plan[h]
  BY PlansFit DEF PlanShape, Phase, Digest, Plan, KernelOp, HostOp, Op
<1>5. /\ DOMAIN s = FileFields /\ s.inputs = File(i).inputs /\ s.group = File(i).group
      /\ s.kstatus = File(i).kstatus /\ s.kkernel = File(i).kkernel /\ s.kboot = File(i).kboot
      /\ s.image = File(i).image /\ s.release = File(i).release /\ s.tool = File(i).tool
      /\ s.plan = [File(i).plan EXCEPT ![f] = PlanOf(f)]
  BY <1>2 DEF FileFields
<1>6. /\ DOMAIN j = JobFields /\ j.project = job[i].project /\ j.opts = job[i].opts
      /\ j.at = job[i].at /\ j.tool = job[i].tool /\ j.inputs = job[i].inputs
      /\ j.release = job[i].release /\ j.plan = [job[i].plan EXCEPT ![f] = PlanOf(f)]
  BY <1>2 DEF Shaped, JobFields
<1> HIDE DEF s, j
<1>7. /\ PlanShape(s.plan) /\ PlanShape(j.plan) /\ s.plan[f] = PlanOf(f)
      /\ \A h \in Phase : h # f => s.plan[h] = File(i).plan[h]
  BY <1>1, <1>2, <1>3, <1>4, <1>5, <1>6
<1>8. Shaped(j) /\ RunShape(j) /\ FileTyped(s, boot)
  BY <1>2, <1>5, <1>6, <1>7 DEF Shaped, RunShape, FileTyped, PlanShape
<1>9. Passed(j.at, j, s)
  <2>1. CASE job[i].at = KERNEL_PLAN
    BY <1>6, <2>1 DEF Passed
  <2>2. CASE job[i].at = HOST_PLAN
    <3>1. Passed(HOST_PLAN - 1, job[i], File(i)) /\ s.plan["kernel"] = File(i).plan["kernel"]
      BY <1>2, <1>3, <1>7, <2>2 DEF Phase
    <3> QED BY <1>5, <1>6, <2>2, <3>1 DEF Passed
  <2> QED BY <1>1, <2>1, <2>2
<1>10. ASSUME NEW a \in Stage, Done(File(i), a)
       PROVE  StageMeans(a, s, File(i).inputs[a], config[j.project], changed[j.project], boot)
  <2>1. a < job[i].at /\ StageMeans(a, File(i), File(i).inputs[a], config[j.project],
                                    changed[j.project], boot)
    BY <1>1, <1>2, <1>6, <1>10, DoneBefore DEF OutFile
  <2>2. CASE job[i].at = KERNEL_PLAN
    BY <2>1, <2>2 DEF StageMeans, ConfirmStage
  <2>3. CASE job[i].at = HOST_PLAN
    <3>1. s.plan["kernel"] = File(i).plan["kernel"]
      BY <1>3, <1>7, <2>3 DEF Phase
    <3>2. a \in ConfirmStage => PhaseOf(a) = "kernel"
      BY <2>1, <2>3 DEF ConfirmStage, PhaseOf
    <3> QED BY <1>5, <2>1, <2>3, <3>1, <3>2 DEF StageMeans
  <2> QED BY <1>1, <2>2, <2>3
<1>11. StageMeans(j.at, s, j.inputs, config[j.project], changed[j.project], boot)
  BY SMTT(30), <1>1, <1>3, <1>6, <1>7, PlansFit DEF StageMeans, ConfirmStage
<1> QED BY <1>1, <1>5, <1>6, <1>7, <1>8, <1>9, <1>10, <1>11, OutPasses

\* A confirmation records the plan of the file and how it was answered.
LEMMA ConfirmOut ==
  ASSUME Inv, Outcome, NEW i \in Installer, Confirm(i)
  PROVE  Outcome'
<1> DEFINE f == PhaseOf(job[i].at)
           j == [job[i] EXCEPT !.plan = [@ EXCEPT ![f] = Resolved(job[i])]]
           S(g) == IF job[i].at = HOST_CONFIRM THEN [File(i) EXCEPT !.group = g] ELSE File(i)
<1>1. /\ pc[i] \in {"run", "apply"} /\ pc[i] = "run"
      /\ job[i].at \in {KERNEL_CONFIRM, HOST_CONFIRM}
      /\ Resolved(job[i]) = File(i).plan[f] /\ UNCHANGED <<config, host, checkout, changed>>
      /\ ~job[i].opts.interactive => job[i].opts.accept[f] = File(i).plan[f]
  BY DEF Confirm, At, ConfirmStage, SamePlan, Accepted
<1>2. /\ DOMAIN File(i) = FileFields /\ Shaped(job[i])
      /\ OutFile(File(i), config[job[i].project], changed[job[i].project], boot)
      /\ RunShape(job[i]) /\ Passed(job[i].at - 1, job[i], File(i)) /\ Asking(job[i], File(i))
      /\ PlanShape(File(i).plan) /\ PlanShape(job[i].plan) /\ FileTyped(File(i), boot)
  BY <1>1, Known, KnownOut DEF OutRun, OutFile, RunShape, ConfirmStage
<1>3. PICK g \in BOOLEAN :
        /\ Pass(i, S(g), j)
        /\ job[i].at = HOST_CONFIRM /\ ~job[i].opts.interactive => g = job[i].opts.group
  <2> DEFINE answers == IF job[i].at = KERNEL_CONFIRM THEN {FALSE}
                        ELSE IF job[i].opts.interactive THEN BOOLEAN ELSE {job[i].opts.group}
  <2>1. \E g \in answers : Pass(i, S(g), j)
    BY DEF Confirm
  <2>2. \A g \in answers : g \in BOOLEAN /\ (job[i].at = HOST_CONFIRM /\ ~job[i].opts.interactive
                                               => g = job[i].opts.group)
    <3>1. job[i].opts.group \in BOOLEAN
      BY <1>2 DEF RunShape
    <3>2. CASE job[i].at = KERNEL_CONFIRM
      <4>1. answers = {FALSE} /\ job[i].at # HOST_CONFIRM
        BY <3>2
      <4> QED BY <4>1
    <3>3. CASE job[i].at # KERNEL_CONFIRM /\ job[i].opts.interactive
      BY <3>3
    <3>4. CASE job[i].at # KERNEL_CONFIRM /\ ~job[i].opts.interactive
      BY <3>1, <3>4
    <3> QED BY <3>2, <3>3, <3>4
  <2> HIDE DEF answers, S, j
  <2> QED BY <2>1, <2>2
<1> DEFINE s == S(g)
<1>4. /\ job[i].at = KERNEL_CONFIRM => f = "kernel"
      /\ job[i].at = HOST_CONFIRM => f = "host"
      /\ f \in Phase
  BY <1>1 DEF PhaseOf, Phase
<1>5. /\ DOMAIN s = FileFields /\ s.inputs = File(i).inputs
      /\ s.kstatus = File(i).kstatus /\ s.kkernel = File(i).kkernel /\ s.kboot = File(i).kboot
      /\ s.image = File(i).image /\ s.release = File(i).release /\ s.tool = File(i).tool
      /\ s.plan = File(i).plan
      /\ job[i].at = HOST_CONFIRM => s.group = g
      /\ job[i].at = KERNEL_CONFIRM => s = File(i)
  BY <1>1, <1>2 DEF FileFields
<1>6. /\ DOMAIN j = JobFields /\ j.project = job[i].project /\ j.opts = job[i].opts
      /\ j.at = job[i].at /\ j.tool = job[i].tool /\ j.inputs = job[i].inputs
      /\ j.release = job[i].release /\ j.plan = [job[i].plan EXCEPT ![f] = File(i).plan[f]]
  BY <1>1, <1>2 DEF Shaped, JobFields
<1>7. Pass(i, s, j)
  BY <1>3
<1> HIDE DEF s, j, S
<1>8. PlanShape(j.plan)
  BY <1>1, <1>2, <1>4, <1>6 DEF PlanShape, Phase
<1>9. Shaped(j) /\ RunShape(j) /\ FileTyped(s, boot) /\ PlanShape(s.plan)
  BY <1>1, <1>2, <1>5, <1>6, <1>8 DEF Shaped, RunShape, FileTyped, PlanShape
<1>10. Passed(j.at, j, s)
  <2>1. CASE job[i].at = KERNEL_CONFIRM
    BY <1>1, <1>4, <1>5, <1>6, <2>1 DEF Passed
  <2>2. CASE job[i].at = HOST_CONFIRM
    <3>1. Passed(HOST_CONFIRM - 1, job[i], File(i))
      BY <1>2, <2>2
    <3>2. ~job[i].opts.interactive =>
            job[i].opts.accept["host"] = s.plan["host"] /\ s.group = job[i].opts.group
      BY <1>1, <1>3, <1>4, <1>5, <2>2
    <3> QED BY <1>5, <1>6, <2>2, <3>1, <3>2 DEF Passed
  <2> QED BY <1>1, <2>1, <2>2
<1>11. ASSUME NEW a \in Stage, Done(File(i), a)
       PROVE  StageMeans(a, s, File(i).inputs[a], config[j.project], changed[j.project], boot)
  <2>1. a < job[i].at /\ StageMeans(a, File(i), File(i).inputs[a], config[j.project],
                                    changed[j.project], boot)
    BY <1>1, <1>2, <1>6, <1>11, DoneBefore DEF OutFile
  <2>2. a # HOST_CONFIRM
    BY <1>1, <2>1
  <2> QED BY <1>5, <2>1, <2>2 DEF StageMeans
<1>12. StageMeans(j.at, s, j.inputs, config[j.project], changed[j.project], boot)
  <2>1. /\ j.inputs[1] = s.plan[f] /\ j.inputs[2] = job[i].opts.interactive
        /\ j.inputs[3] = job[i].opts.accept[f]
        /\ job[i].at = HOST_CONFIRM => j.inputs[4] = job[i].opts.group
    BY <1>2, <1>5, <1>6 DEF Asking
  <2>2. Answered(j.inputs, s.plan[f])
    BY <1>1, <1>2, <1>5, <2>1 DEF Answered, RunShape
  <2>3. j.at = HOST_CONFIRM /\ j.inputs[2] = FALSE => j.inputs[4] = s.group
    BY <1>3, <1>5, <1>6, <2>1
  <2> QED BY <1>1, <1>6, <2>2, <2>3 DEF StageMeans
<1> QED BY <1>1, <1>5, <1>6, <1>7, <1>9, <1>10, <1>11, <1>12, OutPasses

LEMMA PlanTaken ==
  ASSUME NEW plan, NEW other, PlanShape(plan), PlanShape(other), NEW f \in Phase
  PROVE  /\ PlanShape([plan EXCEPT ![f] = other[f]])
         /\ [plan EXCEPT ![f] = other[f]][f] = other[f]
BY DEF PlanShape, Phase

\* A run sets out to execute the whole plan of the file.
LEMMA ApplyOut ==
  ASSUME Inv, Outcome, NEW i \in Installer, Apply(i)
  PROVE  Outcome'
<1> DEFINE f == PhaseOf(job[i].at)
           j == [[job[i] EXCEPT !.left = ToExecute(i)]
                   EXCEPT !.plan = [@ EXCEPT ![f] = Resolved(job[i])]]
<1>1. /\ pc[i] # "idle" /\ job[i].at \in ApplyStage
      /\ Resolved(job[i]) = File(i).plan[f]
      /\ AsRoot \/ PlanOf(f) = File(i).plan[f]
      /\ job' = [job EXCEPT ![i] = j] /\ pc' = [pc EXCEPT ![i] = "apply"]
      /\ UNCHANGED <<state, config, host, checkout, changed>>
  BY DEF Apply, At, SamePlan, Authorized, disk, history
<1>2. /\ OutFile(File(i), config[job[i].project], changed[job[i].project], boot)
      /\ RunShape(job[i]) /\ Passed(job[i].at - 1, job[i], File(i))
      /\ Shaped(job[i]) /\ job[i].at \in Stage /\ File(i) = state[job[i].project]
      /\ DOMAIN pc = Installer /\ DOMAIN job = Installer
      /\ PlanShape(File(i).plan) /\ PlanShape(job[i].plan)
  BY <1>1, Known, KnownOut DEF OutRun, OutFile, RunShape
<1>3. /\ j.project = job[i].project /\ j.opts = job[i].opts /\ j.left = ToExecute(i)
      /\ j.tool = job[i].tool /\ j.at = job[i].at /\ j.release = job[i].release
      /\ j.plan = [job[i].plan EXCEPT ![f] = File(i).plan[f]]
  BY <1>1, <1>2 DEF Shaped, JobFields
<1> HIDE DEF j
<1>4. PlanShape(j.plan) /\ (job[i].at = KERNEL_APPLY => j.plan["kernel"] = File(i).plan["kernel"])
  <2>1. f \in Phase /\ (job[i].at = KERNEL_APPLY => f = "kernel")
    BY DEF Phase, PhaseOf
  <2> DEFINE n == [job[i].plan EXCEPT ![f] = File(i).plan[f]]
  <2> HIDE DEF f
  <2>2. PlanShape(n) /\ n[f] = File(i).plan[f]
    BY <1>2, <2>1, PlanTaken
  <2> HIDE DEF n
  <2>3. j.plan = n
    BY <1>3 DEF n
  <2> QED BY <2>1, <2>2, <2>3
<1>5. job[i].at = KERNEL_APPLY => j.left = File(i).plan["kernel"]
  BY <1>1, <1>3 DEF ToExecute, PhaseOf
<1>6. OutRun("apply", j, File(i), changed[job[i].project], boot)
  <2>1. RunShape(j) /\ Passed(j.at - 1, j, File(i))
    BY <1>2, <1>3, <1>4 DEF RunShape, Passed
  <2>2. j.at = KERNEL_APPLY => Changing(j, File(i), changed[job[i].project], boot)
    BY <1>3, <1>4, <1>5 DEF Changing, RebootRequired
  <2> QED BY SMTT(30), <2>1, <2>2 DEF OutRun
<1>7. Surroundings' /\ UNCHANGED <<running, healthy, boot>>
  BY <1>1 DEF Outcome, Surroundings, host, checkout
<1>8. /\ pc'[i] = "apply" /\ job'[i] = j
      /\ \A k \in Installer : k # i => pc'[k] = pc[k] /\ job'[k] = job[k]
  BY <1>1, <1>2
<1> QED BY <1>1, <1>2, <1>3, <1>6, <1>7, <1>8, OutcomeOfRun

\* What is being executed is of the phase, and the group is not in a plan.
LEMMA Executing ==
  ASSUME Inv, Outcome, NEW i \in Installer, pc[i] = "apply"
  PROVE  /\ job[i].at \in {KERNEL_APPLY, HOST_APPLY}
         /\ job[i].at = KERNEL_APPLY => job[i].left \subseteq File(i).plan["kernel"]
         /\ job[i].at = HOST_APPLY => job[i].left \subseteq HostOp
         /\ "group" \in job[i].left => job[i].at = HOST_APPLY /\ File(i).group
         /\ File(i).plan["kernel"] \subseteq KernelOp
<1>1. /\ job[i].at \in ApplyStage /\ \A a \in Stage : a < job[i].at => Done(File(i), a)
      /\ job[i].left \subseteq File(i).plan[PhaseOf(job[i].at)] \union
                                 GroupOp(job[i].at = HOST_APPLY /\ File(i).group)
  BY Known DEF GoodRun
<1>2. /\ OutFile(File(i), config[job[i].project], changed[job[i].project], boot)
  BY KnownOut
<1>3. /\ Done(File(i), KERNEL_PLAN)
      /\ job[i].at = HOST_APPLY => Done(File(i), HOST_PLAN)
  BY <1>1 DEF ApplyStage
<1>4. /\ File(i).plan["kernel"] \in SUBSET KernelOp
      /\ job[i].at = HOST_APPLY => File(i).plan["host"] \in SUBSET (HostOp \ {"group"})
  <2>1. StageMeans(KERNEL_PLAN, File(i), File(i).inputs[KERNEL_PLAN], config[job[i].project],
                   changed[job[i].project], boot)
    BY <1>2, <1>3 DEF OutFile
  <2>2. job[i].at = HOST_APPLY =>
          StageMeans(HOST_PLAN, File(i), File(i).inputs[HOST_PLAN], config[job[i].project],
                     changed[job[i].project], boot)
    BY <1>2, <1>3 DEF OutFile
  <2> QED BY <1>2, <2>1, <2>2 DEF OutFile, PlanShape, StageMeans
<1>5. CASE job[i].at = KERNEL_APPLY
  <2>1. job[i].left \subseteq File(i).plan["kernel"]
    BY <1>1, <1>5 DEF PhaseOf, GroupOp
  <2> QED BY <1>4, <1>5, <2>1 DEF KernelOp
<1>6. CASE job[i].at = HOST_APPLY
  <2>1. job[i].left \subseteq File(i).plan["host"] \union GroupOp(File(i).group)
    <3>1. PhaseOf(job[i].at) = "host"
      BY <1>6 DEF PhaseOf
    <3> QED BY <1>1, <1>6, <3>1 DEF GroupOp
  <2> QED BY <1>4, <1>6, <2>1 DEF GroupOp, HostOp
<1> QED BY <1>1, <1>5, <1>6 DEF ApplyStage

\* Removing modules and installing kernels is done with a kernel plan only.
LEMMA ExecuteOut ==
  ASSUME Inv, Outcome, NEW i \in Installer, ExecuteNext(i)
  PROVE  Outcome'
<1>1. PICK o \in job[i].left : Execute(i, o)
  BY DEF ExecuteNext
<1> DEFINE j == [job[i] EXCEPT !.left = @ \ {o}]
           p == job[i].project
<1>2. /\ pc[i] # "idle" /\ pc[i] = "apply" /\ job' = [job EXCEPT ![i] = j]
      /\ changed' = IF RebootRequired({o}) THEN [changed EXCEPT ![p] = boot] ELSE changed
      /\ todo' = todo \ {o}
      /\ installed' = IF o = "oem" THEN installed \union {"oem"} ELSE installed
      /\ UNCHANGED <<state, config, running, healthy, boot, tool, manifest, pc>>
  BY <1>1 DEF Execute, disk, checkout
<1>3. /\ OutFile(File(i), config[p], changed[p], boot) /\ OutRun("apply", job[i], File(i), changed[p], boot)
      /\ Surroundings /\ Shaped(job[i]) /\ File(i) = state[p] /\ p \in Project
      /\ DOMAIN job = Installer /\ Done(File(i), KERNEL_PLAN)
  BY <1>2, Known, KnownOut DEF GoodRun, ApplyStage
<1>4. /\ job[i].at \in {KERNEL_APPLY, HOST_APPLY}
      /\ job[i].at = HOST_APPLY => o \in HostOp
      /\ job[i].at = KERNEL_APPLY => o \in File(i).plan["kernel"]
  BY <1>2, Executing
<1>5. /\ DOMAIN j = JobFields /\ j.plan = job[i].plan /\ j.project = p
      /\ j.tool = job[i].tool /\ j.at = job[i].at /\ j.opts = job[i].opts
      /\ j.release = job[i].release /\ j.left = job[i].left \ {o}
  BY <1>3 DEF Shaped, JobFields
<1> HIDE DEF j
<1>6. job[i].at = HOST_APPLY => changed' = changed
  BY <1>2, <1>4 DEF RebootRequired, HostOp
<1>7. /\ changed'[p] = IF RebootRequired({o}) THEN boot ELSE changed[p]
      /\ \A q \in Project : q # p => changed'[q] = changed[q]
      /\ changed' \in [Project -> {None} \union 1..boot]
  BY <1>2, <1>3 DEF Surroundings
<1>8. OutFile(File(i), config[p], changed'[p], boot)
  <2>1. CASE job[i].at = HOST_APPLY
    BY <1>3, <1>6, <2>1
  <2>2. CASE job[i].at = KERNEL_APPLY
    <3>1. \A a \in Stage : Done(File(i), a) => a < KERNEL_APPLY
      BY <1>2, <2>2, DoneBefore
    <3>2. ASSUME NEW a \in Stage, Done(File(i), a)
          PROVE  StageMeans(a, File(i), File(i).inputs[a], config[p], changed'[p], boot)
      <4>1. StageMeans(a, File(i), File(i).inputs[a], config[p], changed[p], boot) /\ a < KERNEL_APPLY
        BY <1>3, <3>1, <3>2 DEF OutFile
      <4> QED BY SMTT(30), <4>1 DEF StageMeans
    <3> QED BY <1>3, <3>2 DEF OutFile
  <2> QED BY <1>4, <2>1, <2>2
<1>9. OutRun("apply", j, File(i), changed'[p], boot)
  <2>1. RunShape(j) /\ Passed(j.at - 1, j, File(i))
    BY <1>3, <1>5 DEF OutRun, RunShape, Passed
  <2>2. ASSUME j.at = KERNEL_APPLY PROVE Changing(j, File(i), changed'[p], boot)
    <3>1. Changing(job[i], File(i), changed[p], boot)
      BY <1>3, <1>5, <2>2 DEF OutRun
    <3>2. File(i).plan["kernel"] \ j.left = (File(i).plan["kernel"] \ job[i].left) \union {o}
      BY <1>1, <1>4, <1>5, <2>2
    <3>3. RebootRequired(File(i).plan["kernel"] \ j.left) =>
            RebootRequired(File(i).plan["kernel"] \ job[i].left) \/ RebootRequired({o})
      BY <3>2 DEF RebootRequired
    <3> QED BY <1>5, <1>7, <3>1, <3>3 DEF Changing
  <2> QED BY <2>1, <2>2 DEF OutRun
<1>10. Surroundings'
  BY <1>2, <1>3, <1>7 DEF Surroundings, Kernel
<1>11. job'[i] = j /\ \A k \in Installer : k # i => job'[k] = job[k]
  BY <1>2, <1>3
<1>12. /\ \A q \in Project : q # job[i].project =>
            state'[q] = state[q] /\ config'[q] = config[q] /\ changed'[q] = changed[q]
       /\ OutFile(state'[job[i].project], config'[job[i].project], changed'[job[i].project], boot)
  BY <1>2, <1>3, <1>7, <1>8
<1>13. /\ job'[i].project = job[i].project
       /\ OutRun(pc'[i], job'[i], state'[job[i].project], changed'[job[i].project], boot)
  BY <1>2, <1>3, <1>5, <1>9, <1>11
<1> HIDE DEF p
<1> QED BY <1>2, <1>10, <1>11, <1>12, <1>13, OutcomeOfRun

\* When all of a kernel plan is done that needs a reboot, the file records the
\* boot in which it was done.
LEMMA AppliedOut ==
  ASSUME Inv, Outcome, NEW i \in Installer, Applied(i)
  PROVE  Outcome'
<1> DEFINE s == IF job[i].at = KERNEL_APPLY
                THEN [File(i) EXCEPT !.kboot = RebootBootId(job[i])] ELSE File(i)
           p == job[i].project
<1>1. /\ pc[i] \in {"run", "apply"} /\ pc[i] # "idle" /\ pc[i] = "apply" /\ job[i].left = {}
      /\ Pass(i, s, job[i]) /\ UNCHANGED <<config, host, checkout, changed>>
  BY DEF Applied, history
<1>2. /\ DOMAIN File(i) = FileFields /\ Shaped(job[i]) /\ boot \in Nat \ {0}
      /\ OutFile(File(i), config[p], changed[p], boot) /\ PlanShape(File(i).plan)
      /\ OutRun("apply", job[i], File(i), changed[p], boot)
      /\ FileTyped(File(i), boot)
  BY <1>1, Known, KnownOut DEF OutFile, Surroundings
<1>3. job[i].at \in {KERNEL_APPLY, HOST_APPLY}
  BY <1>1, Executing
<1>4. CASE job[i].at = HOST_APPLY
  <2>1. s = File(i)
    BY <1>4
  <2>2. StageMeans(job[i].at, s, job[i].inputs, config[p], changed[p], boot)
    BY <1>4 DEF StageMeans, ConfirmStage
  <2>3. job[i].at \notin {KERNEL_VERIFY} \union ConfirmStage
    BY SMTT(30), <1>4 DEF ConfirmStage
  <2> HIDE DEF s
  <2> QED BY <1>1, <1>2, <2>1, <2>2, <2>3, OutQuiet DEF SameMeaning
<1>5. CASE job[i].at = KERNEL_APPLY
  <2>1. /\ DOMAIN s = FileFields /\ s.inputs = File(i).inputs /\ s.group = File(i).group
        /\ s.kstatus = File(i).kstatus /\ s.kkernel = File(i).kkernel
        /\ s.image = File(i).image /\ s.release = File(i).release /\ s.tool = File(i).tool
        /\ s.plan = File(i).plan /\ s.kboot = RebootBootId(job[i])
    BY <1>2, <1>5 DEF FileFields
  <2> HIDE DEF s
  <2>2. Changing(job[i], File(i), changed[p], boot) /\ RunShape(job[i])
        /\ Passed(job[i].at - 1, job[i], File(i))
    BY <1>2, <1>5 DEF OutRun
  <2>3. RebootRequired(s.plan["kernel"]) => s.kboot = boot /\ changed[p] = boot
    <3>1. RebootRequired(s.plan["kernel"]) => RebootRequired(File(i).plan["kernel"] \ job[i].left)
      BY <1>1, <2>1 DEF RebootRequired
    <3> QED BY <2>1, <2>2, <3>1 DEF Changing, RebootBootId
  <2>4. FileTyped(s, boot) /\ PlanShape(s.plan)
    BY <1>2, <2>1 DEF FileTyped, RebootBootId
  <2>5. StageMeans(job[i].at, s, job[i].inputs, config[p], changed[p], boot)
    BY <1>2, <1>5, <2>3 DEF StageMeans, ConfirmStage
  <2>6. Passed(job[i].at, job[i], s)
    <3>1. Passed(KERNEL_APPLY - 1, job[i], File(i))
      BY <1>5, <2>2
    <3> QED BY <1>5, <2>1, <3>1 DEF Passed
  <2>7. ASSUME NEW a \in Stage, Done(File(i), a)
        PROVE  StageMeans(a, s, File(i).inputs[a], config[p], changed[p], boot)
    <3>1. a < KERNEL_APPLY /\ StageMeans(a, File(i), File(i).inputs[a], config[p], changed[p], boot)
      BY <1>1, <1>2, <1>5, <2>7, DoneBefore DEF OutFile
    <3> QED BY <2>1, <3>1 DEF StageMeans
  <2> QED BY <1>1, <1>2, <2>1, <2>2, <2>4, <2>5, <2>6, <2>7, OutPasses
<1> QED BY <1>3, <1>4, <1>5

\* The boot id differs from the recorded one only after a boot.
LEMMA RebootPendingOut ==
  ASSUME Inv, Outcome, NEW i \in Installer, RebootPending(i)
  PROVE  Outcome'
<1>1. /\ pc[i] \in {"run", "apply"} /\ pc[i] # "idle" /\ pc[i] = "run"
      /\ job[i].at = KERNEL_REBOOT_PENDING /\ UNCHANGED <<config, host, checkout, changed>>
  BY DEF RebootPending, At, history
<1>2. /\ DOMAIN File(i) = FileFields /\ boot \in Nat
      /\ OutFile(File(i), config[job[i].project], changed[job[i].project], boot)
      /\ FileTyped(File(i), boot) /\ File(i) = state[job[i].project]
  BY <1>1, Known, KnownOut DEF OutFile, Surroundings
<1>3. CASE Rebooted(i)
  <2>1. Pass(i, File(i), job[i])
    BY <1>3 DEF RebootPending
  <2>2. Done(File(i), KERNEL_APPLY)
    BY <1>1, Known DEF GoodRun
  <2>3. StageMeans(KERNEL_APPLY, File(i), File(i).inputs[KERNEL_APPLY],
                   config[job[i].project], changed[job[i].project], boot)
    BY <1>2, <2>2, FileMeans
  <2>4. RebootRequired(File(i).plan["kernel"]) => File(i).kboot < boot
    BY <1>2, <1>3, <2>3 DEF StageMeans, Rebooted
  <2>5. StageMeans(job[i].at, File(i), job[i].inputs, config[job[i].project],
                   changed[job[i].project], boot)
    BY <1>1, <2>4 DEF StageMeans, ConfirmStage
  <2>6. job[i].at \notin {KERNEL_VERIFY} \union ConfirmStage
    BY <1>1 DEF ConfirmStage
  <2> QED BY <1>1, <1>2, <2>1, <2>5, <2>6, OutQuiet DEF SameMeaning
<1>4. CASE ~Rebooted(i)
  BY <1>1, <1>2, <1>4, OutEnds DEF RebootPending
<1> QED BY <1>3, <1>4

\* The file t is s with other images.
OtherImages(s, t, image) ==
  /\ DOMAIN t = FileFields /\ t.inputs = s.inputs /\ t.group = s.group
  /\ t.kstatus = s.kstatus /\ t.kkernel = s.kkernel /\ t.kboot = s.kboot
  /\ t.image = image /\ t.release = image /\ t.tool = s.tool /\ t.plan = s.plan

\* What is resolved and acquired is recorded before any stage relies on it.
LEMMA ImagesOut ==
  ASSUME Inv, Outcome, NEW i \in Installer, pc[i] \in {"run", "apply"},
         job[i].at \in {RELEASE_RESOLVE, IMAGE_PULL_OR_BUILD},
         NEW s, NEW j, NEW image \in Image, Pass(i, s, j),
         OtherImages(File(i), s, image),
         j = job[i] \/ \E v \in Version : j = [job[i] EXCEPT !.release = v],
         UNCHANGED <<config, host, checkout, changed>>
  PROVE  Outcome'
<1>1. /\ pc[i] # "idle" /\ DOMAIN File(i) = FileFields /\ Shaped(job[i])
      /\ OutFile(File(i), config[job[i].project], changed[job[i].project], boot)
      /\ RunShape(job[i]) /\ Passed(job[i].at - 1, job[i], File(i))
      /\ PlanShape(File(i).plan) /\ FileTyped(File(i), boot)
  BY Known, KnownOut DEF OutRun, OutFile
<1>2. /\ DOMAIN s = FileFields /\ s.inputs = File(i).inputs /\ s.group = File(i).group
      /\ s.kstatus = File(i).kstatus /\ s.kkernel = File(i).kkernel /\ s.kboot = File(i).kboot
      /\ s.image = image /\ s.release = image /\ s.tool = File(i).tool /\ s.plan = File(i).plan
  BY DEF OtherImages
<1>3. /\ DOMAIN j = JobFields /\ j.project = job[i].project /\ j.opts = job[i].opts
      /\ j.at = job[i].at /\ j.tool = job[i].tool /\ j.inputs = job[i].inputs
      /\ j.plan = job[i].plan /\ j.release \in {None} \union Version
  BY <1>1 DEF Shaped, JobFields, RunShape
<1>4. Shaped(j) /\ RunShape(j) /\ FileTyped(s, boot) /\ PlanShape(s.plan)
  BY <1>1, <1>2, <1>3 DEF Shaped, RunShape, FileTyped
<1>5. Passed(j.at, j, s)
  <2>1. /\ job[i].at - 1 >= HOST_CONFIRM /\ job[i].at - 1 >= KERNEL_VERIFY
        /\ job[i].at - 1 >= KERNEL_CONFIRM
    OBVIOUS
  <2> QED BY <1>1, <1>2, <1>3, <2>1 DEF Passed
<1>6. ASSUME NEW a \in Stage, Done(File(i), a)
      PROVE  StageMeans(a, s, File(i).inputs[a], config[j.project], changed[j.project], boot)
  <2>1. a < job[i].at /\ StageMeans(a, File(i), File(i).inputs[a], config[j.project],
                                    changed[j.project], boot)
    BY <1>1, <1>3, <1>6, DoneBefore DEF OutFile
  <2>2. a # PROJECT_INIT
    BY <2>1
  <2> QED BY <1>2, <2>1, <2>2 DEF StageMeans
<1>7. StageMeans(j.at, s, j.inputs, config[j.project], changed[j.project], boot)
  BY <1>2, <1>3 DEF StageMeans, ConfirmStage
<1> QED BY <1>2, <1>3, <1>4, <1>5, <1>6, <1>7, OutPasses

LEMMA ResolveReleaseOut ==
  ASSUME Inv, Outcome, NEW i \in Installer, ResolveRelease(i)
  PROVE  Outcome'
<1> DEFINE s == [[File(i) EXCEPT !.release = manifest] EXCEPT !.image = manifest]
           j == [job[i] EXCEPT !.release = manifest]
<1>1. /\ pc[i] \in {"run", "apply"} /\ job[i].at = RELEASE_RESOLVE /\ Pass(i, s, j)
      /\ UNCHANGED <<config, host, checkout, changed>>
  BY DEF ResolveRelease, At, history
<1>2. manifest \in Image /\ manifest \in Version
  BY DEF Outcome, Surroundings, Image
<1>3. \E v \in Version : j = [job[i] EXCEPT !.release = v]
  BY <1>2
<1>4. OtherImages(File(i), s, manifest)
  BY <1>1, Known DEF OtherImages, FileFields
<1> HIDE DEF s, j
<1> QED BY <1>1, <1>2, <1>3, <1>4, ImagesOut

\* The images of the release the file records, or local ones recorded as such.
LEMMA AcquireImagesOut ==
  ASSUME Inv, Outcome, NEW i \in Installer, AcquireImages(i)
  PROVE  Outcome'
<1> DEFINE r == ResolvedRelease(job[i])
           s == [File(i) EXCEPT !.image = r]
           t == [[File(i) EXCEPT !.image = "local"] EXCEPT !.release = "local"]
<1>1. /\ pc[i] \in {"run", "apply"} /\ pc[i] # "idle" /\ job[i].at = IMAGE_PULL_OR_BUILD
      /\ Pass(i, s, job[i]) \/ Pass(i, t, job[i])
      /\ r = File(i).release /\ UNCHANGED <<config, host, checkout, changed>>
  BY DEF AcquireImages, SameRelease, At, history
<1>2. DOMAIN File(i) = FileFields /\ manifest \in Version /\ RunShape(job[i])
      /\ File(i).release \in {None} \union Image
  BY <1>1, Known, KnownOut DEF OutRun, OutFile, FileTyped, Surroundings
<1>3. r \in Image /\ "local" \in Image
  BY <1>2 DEF ResolvedRelease, RunShape, Image
<1>4. OtherImages(File(i), s, r)
  BY <1>1, <1>2 DEF OtherImages, FileFields
<1>5. OtherImages(File(i), t, "local")
  BY <1>2 DEF OtherImages, FileFields
<1> HIDE DEF r, s, t
<1>6. CASE Pass(i, s, job[i])
  BY <1>1, <1>3, <1>4, <1>6, ImagesOut
<1>7. CASE Pass(i, t, job[i])
  BY SMTT(30), <1>1, <1>3, <1>5, <1>7, ImagesOut
<1> QED BY <1>1, <1>6, <1>7

\* The configuration is written before the stage is complete.
LEMMA CreateConfigOut ==
  ASSUME Inv, Outcome, NEW i \in Installer, CreateConfig(i)
  PROVE  Outcome'
<1> DEFINE p == job[i].project
           c == [image |-> File(i).image, edited |-> FALSE]
<1>1. /\ pc[i] \in {"run", "apply"} /\ pc[i] # "idle" /\ pc[i] = "run" /\ job[i].at = PROJECT_INIT
      /\ config' = [config EXCEPT ![p] = c]
      /\ UNCHANGED <<state, host, checkout, pc, job, changed>>
  BY DEF CreateConfig, At, history
<1>2. /\ p \in Project /\ Surroundings /\ File(i) = state[p]
      /\ OutFile(File(i), config[p], changed[p], boot)
      /\ OutRun("run", job[i], File(i), changed[p], boot)
      /\ Done(File(i), RELEASE_RESOLVE)
  BY <1>1, Known, KnownOut DEF GoodRun
<1>3. File(i).image \in Image
  <2>1. StageMeans(RELEASE_RESOLVE, File(i), File(i).inputs[RELEASE_RESOLVE], config[p],
                   changed[p], boot)
    BY <1>2, FileMeans
  <2> QED BY <2>1 DEF StageMeans
<1>4. /\ config' \in [Project -> {None} \union [image : Image, edited : BOOLEAN]]
      /\ \A q \in Project : q # p => config'[q] = config[q]
  BY <1>1, <1>2, <1>3 DEF Surroundings
<1>5. Surroundings' /\ UNCHANGED <<running, healthy, boot>>
  BY <1>1, <1>2, <1>4 DEF Surroundings, host, checkout
<1>6. OutFile(File(i), config'[p], changed[p], boot)
  <2>1. ASSUME NEW a \in Stage, Done(File(i), a)
        PROVE  StageMeans(a, File(i), File(i).inputs[a], config'[p], changed[p], boot)
    <3>1. a < PROJECT_INIT /\ StageMeans(a, File(i), File(i).inputs[a], config[p], changed[p], boot)
      BY <1>1, <1>2, <2>1, DoneBefore DEF OutFile
    <3> QED BY SMTT(30), <3>1 DEF StageMeans
  <2> QED BY <1>2, <2>1 DEF OutFile
<1>7. /\ \A q \in Project : q # job[i].project =>
           state'[q] = state[q] /\ config'[q] = config[q] /\ changed'[q] = changed[q]
      /\ OutFile(state'[job[i].project], config'[job[i].project], changed'[job[i].project], boot)
  BY <1>1, <1>2, <1>4, <1>6
<1>8. /\ \A k \in Installer : k # i => pc'[k] = pc[k] /\ job'[k] = job[k]
      /\ job'[i].project = job[i].project
  BY <1>1
<1>9. OutRun(pc'[i], job'[i], state'[job[i].project], changed'[job[i].project], boot)
  BY <1>1, <1>2
<1> HIDE DEF p
<1> QED BY <1>1, <1>5, <1>7, <1>8, <1>9, OutcomeOfRun

LEMMA InitProjectOut ==
  ASSUME Inv, Outcome, NEW i \in Installer, InitProject(i)
  PROVE  Outcome'
<1>1. /\ pc[i] \in {"run", "apply"} /\ pc[i] # "idle" /\ job[i].at = PROJECT_INIT
      /\ config[job[i].project].image = File(i).image
      /\ Pass(i, File(i), job[i]) /\ UNCHANGED <<config, host, checkout, changed>>
  BY DEF InitProject, ConfigFits, At, history
<1>2. DOMAIN File(i) = FileFields /\ FileTyped(File(i), boot)
  BY <1>1, Known, KnownOut DEF OutFile
<1>3. /\ StageMeans(job[i].at, File(i), job[i].inputs, config[job[i].project],
                    changed[job[i].project], boot)
      /\ job[i].at \notin {KERNEL_VERIFY} \union ConfirmStage
  BY <1>1 DEF StageMeans, ConfirmStage
<1> QED BY <1>1, <1>2, <1>3, OutQuiet DEF SameMeaning

LEMMA StopsOut ==
  ASSUME Inv, Outcome, NEW i \in Installer,
         \/ Refuse(i) \/ PlanChanged(i) \/ Unconfirmed(i) \/ HelperRefuses(i)
         \/ ReleaseChanged(i) \/ ConfigRefused(i) \/ Leave(i)
  PROVE  Outcome'
<1>1. pc[i] # "idle" /\ Stop(i) /\ UNCHANGED <<state, config, host, checkout, changed>>
  BY DEF Refuse, PlanChanged, Unconfirmed, HelperRefuses, ReleaseChanged, ConfigRefused,
         Leave, At, disk, history
<1>2. /\ OutFile(File(i), config[job[i].project], changed[job[i].project], boot)
      /\ File(i) = state[job[i].project]
  BY <1>1, Known, KnownOut
<1> QED BY <1>1, <1>2, OutEnds

\* A run starts with nothing behind it; an update that is adopted means nothing
\* to the other stages.
LEMMA StartOut ==
  ASSUME Inv, Outcome, NEW i \in Installer, NEW p \in Project, Start(i, p)
  PROVE  Outcome'
<1> DEFINE t == Adopted(state[p])
<1>1. \A k \in Installer : pc[k] = "idle"
  <2>1. lock = None /\ None \notin Installer
    BY InstallerAssumption DEF Start, InstallLock
  <2> QED BY <2>1 DEF Inv, Running
<1>2. PICK o \in Options(p) :
        job' = [job EXCEPT ![i] = [NoJob EXCEPT !.project = p, !.tool = tool, !.opts = o]]
  BY DEF Start
<1> DEFINE j == [[[NoJob EXCEPT !.project = p] EXCEPT !.tool = tool] EXCEPT !.opts = o]
<1>3. /\ state' = [state EXCEPT ![p] = t] /\ pc' = [pc EXCEPT ![i] = "stage"]
      /\ UNCHANGED <<config, host, checkout, changed>>
  BY DEF Start, history
<1>4. /\ DOMAIN state[p] = FileFields /\ DOMAIN state = Project /\ DOMAIN pc = Installer
      /\ DOMAIN job = Installer /\ OutFile(state[p], config[p], changed[p], boot) /\ Surroundings
  BY DEF Inv, Domains, GoodFile, Outcome
<1>5. /\ SameMeaning(state[p], t) /\ t.kstatus = state[p].kstatus /\ t.kkernel = state[p].kkernel
      /\ t.tool \in {state[p].tool, tool}
      /\ \A a \in Stage : Done(t, a) <=> Done(state[p], a)
      /\ \A a \in Stage : Done(t, a) /\ a # BOOTSTRAP => t.inputs[a] = state[p].inputs[a]
  BY <1>4 DEF Adopted, SameMeaning, Done, FileFields
<1>6. /\ j.project = p /\ j.at = BOOTSTRAP /\ j.tool = tool /\ j.opts = o
      /\ j.plan = NoPlans /\ j.release = None
  BY DEF NoJob, NoPlans
<1>7. o.interactive \in BOOLEAN /\ o.group \in BOOLEAN
  BY InstallerAssumption DEF Options
<1> HIDE DEF t, j
<1>8. OutFile(t, config[p], changed[p], boot)
  <2>1. PlanShape(t.plan) /\ FileTyped(t, boot)
    BY <1>4, <1>5 DEF OutFile, SameMeaning, FileTyped, Surroundings
  <2>2. ASSUME NEW a \in Stage, Done(t, a)
        PROVE  StageMeans(a, t, t.inputs[a], config[p], changed[p], boot)
    <3>1. CASE a = BOOTSTRAP
      BY <3>1 DEF StageMeans, ConfirmStage
    <3>2. CASE a # BOOTSTRAP
      <4>1. StageMeans(a, state[p], t.inputs[a], config[p], changed[p], boot)
        BY <1>4, <1>5, <2>2, <3>2 DEF OutFile
      <4> QED BY <1>5, <4>1, MeansSame
    <3> QED BY <3>1, <3>2
  <2> QED BY <2>1, <2>2 DEF OutFile
<1>9. Surroundings' /\ UNCHANGED <<running, healthy, boot>>
  BY <1>3, <1>4 DEF Surroundings, host, checkout
<1>10. \A q \in Project : OutFile(state'[q], config'[q], changed'[q], boot')
  <2> TAKE q \in Project
  <2>1. CASE q = p
    BY <1>3, <1>4, <1>8, <1>9, <2>1
  <2>2. CASE q # p
    BY <1>3, <1>4, <1>9, <2>2 DEF Outcome
  <2> QED BY <2>1, <2>2
<1>11. OutRun("stage", j, t, changed[p], boot)
  <2>1. PlanShape(NoPlans)
    BY DEF NoPlans, PlanShape, Phase, Digest
  <2>2. RunShape(j)
    BY <1>4, <1>6, <1>7, <2>1 DEF RunShape, Surroundings
  <2>3. Passed(j.at - 1, j, t)
    BY <1>6 DEF Passed
  <2> QED BY <2>2, <2>3 DEF OutRun
<1>12. /\ job' = [job EXCEPT ![i] = j]
       /\ pc'[i] = "stage" /\ job'[i] = j /\ \A k \in Installer : k # i => pc'[k] = "idle"
       /\ state'[p] = t
  BY <1>1, <1>2, <1>3, <1>4 DEF j
<1>13. \A k \in Installer : pc'[k] # "idle" => RunKnows(k)'
  <2> SUFFICES ASSUME NEW k \in Installer, pc'[k] # "idle" PROVE RunKnows(k)'
    OBVIOUS
  <2>1. k = i /\ job'[k].project = p
    BY <1>6, <1>12
  <2>2. OutRun(pc'[k], job'[k], state'[job'[k].project], changed'[job'[k].project], boot')
    BY <1>3, <1>9, <1>11, <1>12, <2>1
  <2> QED BY <1>9, <2>2 DEF RunKnows, OutRun, Passed, KernelFine
<1> QED BY <1>9, <1>10, <1>13 DEF Outcome

\* A complete kernel plan that needs a reboot is dated.
LEMMA KernelChangeDated ==
  ASSUME NEW s, NEW c, NEW ch, NEW now \in Nat, OutFile(s, c, ch, now), Admitted(s),
         NEW a \in Stage, Done(s, a), a > KERNEL_APPLY, RebootRequired(s.plan["kernel"])
  PROVE  s.kboot \in 1..now /\ ch \in 1..s.kboot
<1>1. Done(s, KERNEL_APPLY)
  BY DEF Admitted
<1>2. StageMeans(KERNEL_APPLY, s, s.inputs[KERNEL_APPLY], c, ch, now)
  BY <1>1 DEF OutFile
<1> QED BY <1>2 DEF StageMeans

\* A boot is later than what was done before it.
LEMMA RebootOut ==
  ASSUME Inv, Outcome, NEW k, NEW ok \in BOOLEAN, Reboot(k, ok)
  PROVE  Outcome'
<1>1. /\ k \in installed /\ running' = k /\ healthy' = ok /\ boot' = boot + 1
      /\ pc' = [i \in Installer |-> "idle"]
      /\ UNCHANGED <<state, config, todo, installed, tool, manifest, changed>>
  BY DEF Reboot, disk, checkout, history
<1>2. Surroundings
  BY DEF Outcome
<1>3. 1..boot \subseteq 1..boot' /\ boot' \in Nat \ {0}
  BY <1>1, <1>2 DEF Surroundings
<1>4. Surroundings'
  <2>1. changed' \in [Project -> {None} \union 1..boot']
    BY <1>1, <1>2, <1>3 DEF Surroundings
  <2> QED BY <1>1, <1>2, <1>3, <2>1 DEF Surroundings
<1>5. ASSUME NEW p \in Project PROVE OutFile(state'[p], config'[p], changed'[p], boot')
  <2>1. OutFile(state[p], config[p], changed[p], boot)
    BY DEF Outcome
  <2>2. FileTyped(state[p], boot')
    BY <1>3, <2>1 DEF OutFile, FileTyped
  <2>3. ASSUME NEW a \in Stage, Done(state[p], a)
        PROVE  StageMeans(a, state[p], state[p].inputs[a], config[p], changed[p], boot')
    <3>1. StageMeans(a, state[p], state[p].inputs[a], config[p], changed[p], boot)
      BY <2>1, <2>3 DEF OutFile
    <3>2. /\ a = KERNEL_APPLY /\ RebootRequired(state[p].plan["kernel"]) =>
               state[p].kboot \in 1..boot' /\ changed[p] \in 1..state[p].kboot
          /\ a = KERNEL_REBOOT_PENDING /\ RebootRequired(state[p].plan["kernel"]) =>
               state[p].kboot < boot'
      <4>1. a = KERNEL_REBOOT_PENDING /\ RebootRequired(state[p].plan["kernel"]) =>
              state[p].kboot \in Nat
        <5> SUFFICES ASSUME a = KERNEL_REBOOT_PENDING, RebootRequired(state[p].plan["kernel"])
                     PROVE  state[p].kboot \in Nat
          OBVIOUS
        <5>1. Admitted(state[p]) /\ boot \in Nat
          BY <1>2 DEF Inv, GoodFile, Surroundings
        <5>2. state[p].kboot \in 1..boot
          BY <2>1, <2>3, <5>1, KernelChangeDated
        <5> QED BY <5>1, <5>2
      <4> QED BY <1>1, <1>2, <1>3, <3>1, <4>1 DEF StageMeans, Surroundings
    <3> QED BY <3>1, <3>2 DEF StageMeans
  <2> QED BY <1>1, <2>1, <2>2, <2>3 DEF OutFile
<1> QED BY <1>1, <1>4, <1>5 DEF Outcome

\* An edit keeps the image of a configuration.
LEMMA EditConfigOut ==
  ASSUME Inv, Outcome, NEW p \in Project, EditConfig(p)
  PROVE  Outcome'
<1> DEFINE c == [config[p] EXCEPT !.edited = TRUE]
<1>1. /\ config[p] # None /\ config' = [config EXCEPT ![p] = c]
      /\ UNCHANGED <<state, host, checkout, pc, job, changed>>
  BY DEF EditConfig, history
<1>2. Surroundings
  BY DEF Outcome
<1>3. config[p] \in [image : Image, edited : BOOLEAN]
  BY <1>1, <1>2 DEF Surroundings
<1>4. c.image = config[p].image /\ c \in [image : Image, edited : BOOLEAN]
  BY <1>3
<1> HIDE DEF c
<1>5. /\ config' \in [Project -> {None} \union [image : Image, edited : BOOLEAN]]
      /\ \A q \in Project : q # p => config'[q] = config[q]
      /\ config'[p] = c
  BY <1>1, <1>2, <1>4 DEF Surroundings
<1>6. Surroundings' /\ UNCHANGED <<running, healthy, boot>>
  BY <1>1, <1>2, <1>5 DEF Surroundings, host, checkout
<1>7. ASSUME NEW q \in Project PROVE OutFile(state'[q], config'[q], changed'[q], boot')
  <2>1. OutFile(state[q], config[q], changed[q], boot)
    BY DEF Outcome
  <2>2. config'[q].image = config[q].image
    BY <1>4, <1>5
  <2>3. OutFile(state[q], config'[q], changed[q], boot)
    BY <2>1, <2>2 DEF OutFile, StageMeans
  <2> QED BY <1>1, <1>6, <2>3
<1>8. \A i \in Installer : pc'[i] # "idle" => RunKnows(i)'
  BY <1>1, <1>6 DEF Outcome, RunKnows, OutRun, Passed, KernelFine
<1> QED BY <1>6, <1>7, <1>8 DEF Outcome

\* What changes in the host or the checkout concerns no completed stage.
LEMMA FrameOut ==
  ASSUME Inv, Outcome, Surroundings',
         UNCHANGED <<state, config, running, healthy, boot, pc, job, changed>>
  PROVE  Outcome'
<1>1. \A p \in Project : OutFile(state'[p], config'[p], changed'[p], boot')
  BY DEF Outcome
<1>2. \A i \in Installer : pc'[i] # "idle" => RunKnows(i)'
  BY DEF Outcome, RunKnows, OutRun, Passed, KernelFine
<1> QED BY <1>1, <1>2 DEF Outcome

LEMMA DriftOut ==
  ASSUME Inv, Outcome, DriftHost \/ KernelPatch \/ Update \/ UNCHANGED vars
  PROVE  Outcome'
<1>1. Surroundings
  BY DEF Outcome
<1>2. CASE DriftHost
  <2>1. todo' \subseteq NeedOp
    BY <1>1, <1>2, InstallerAssumption DEF DriftHost, Surroundings, NeedOp
  <2>2. UNCHANGED <<state, config, installed, running, healthy, boot, tool, manifest, pc, job,
                    changed>>
    BY <1>2 DEF DriftHost, disk, checkout, history
  <2>3. Surroundings'
    BY <1>1, <2>1, <2>2 DEF Surroundings
  <2> QED BY <2>2, <2>3, FrameOut
<1>3. CASE KernelPatch
  <2>1. /\ installed' = installed \union {"oem-next"}
        /\ UNCHANGED <<state, config, todo, running, healthy, boot, tool, manifest, pc, job,
                       changed>>
    BY <1>3 DEF KernelPatch, disk, checkout, history
  <2>2. Surroundings'
    BY <1>1, <2>1 DEF Surroundings, Kernel
  <2> QED BY <2>1, <2>2, FrameOut
<1>4. CASE Update
  <2>1. /\ tool' \in Version /\ manifest' \in Version
        /\ UNCHANGED <<state, config, todo, installed, running, healthy, boot, pc, job, changed>>
    BY <1>4 DEF Update, disk, host, history
  <2>2. Surroundings'
    BY <1>1, <2>1 DEF Surroundings
  <2> QED BY <2>1, <2>2, FrameOut
<1>5. CASE UNCHANGED vars
  <2>1. UNCHANGED <<state, config, todo, installed, running, healthy, boot, tool, manifest, pc,
                    job, changed>>
    BY <1>5 DEF vars, disk, host, checkout, history
  <2>2. Surroundings'
    BY <1>1, <2>1 DEF Surroundings
  <2> QED BY <2>1, <2>2, FrameOut
<1> QED BY <1>2, <1>3, <1>4, <1>5

LEMMA InitOut == Init => Outcome
<1> SUFFICES ASSUME Init PROVE Outcome
  OBVIOUS
<1>1. Surroundings
  <2>1. config \in [Project -> {None} \union [image : Image, edited : BOOLEAN]]
    <3>1. \A c \in Existing : (IF c = None THEN None ELSE [image |-> c, edited |-> FALSE])
                                \in {None} \union [image : Image, edited : BOOLEAN]
      BY InstallerAssumption
    <3> DEFINE C == {IF c = None THEN None ELSE [image |-> c, edited |-> FALSE] : c \in Existing}
    <3>2. C \subseteq {None} \union [image : Image, edited : BOOLEAN]
      BY <3>1
    <3>3. config \in [Project -> C]
      BY DEF Init
    <3> HIDE DEF C
    <3> QED BY <3>2, <3>3
  <2>2. changed \in [Project -> {None} \union 1..boot]
    BY DEF Init
  <2>3. todo \subseteq NeedOp
    BY InstallerAssumption DEF Init, NeedOp
  <2> QED BY <2>1, <2>2, <2>3 DEF Init, Surroundings, Kernel, Version
<1>2. OutFile(NewState, None, None, boot)
  <2>1. NewState.inputs = <<>> /\ NewState.plan = NoPlans
    BY DEF NewState
  <2>2. \A a \in Stage : ~Done(NewState, a)
    BY <2>1 DEF Done
  <2>3. PlanShape(NewState.plan)
    BY <2>1 DEF NoPlans, PlanShape, Phase, Digest
  <2>4. FileTyped(NewState, boot)
    BY DEF NewState, FileTyped, Version
  <2> QED BY <2>2, <2>3, <2>4 DEF OutFile
<1>3. \A p \in Project : OutFile(state[p], config[p], changed[p], boot)
  <2> TAKE p \in Project
  <2>1. state[p] = NewState
    BY DEF Init
  <2>2. \A a \in Stage : ~Done(NewState, a)
    BY DEF Done, NewState
  <2> QED BY <1>2, <2>1, <2>2 DEF OutFile
<1>4. \A i \in Installer : pc[i] = "idle"
  BY DEF Init
<1> QED BY <1>1, <1>3, <1>4 DEF Outcome

LEMMA NextOut == Inv /\ Outcome /\ [Next]_vars => Outcome'
<1> SUFFICES ASSUME Inv, Outcome, [Next]_vars PROVE Outcome'
  OBVIOUS
<1>1. CASE \E i \in Installer, p \in Project : Start(i, p)
  BY <1>1, StartOut
<1>2. ASSUME NEW i \in Installer, Step(i) PROVE Outcome'
  <2>1. CASE Skip(i) \/ Begin(i) \/ Verify(i) \/ Blocked(i) \/ Simple(i)
    BY <2>1, SkipOut, BeginOut, VerifyOut, BlockedOut, SimpleOut
  <2>2. CASE MakePlan(i) \/ Confirm(i) \/ Apply(i) \/ ExecuteNext(i) \/ Applied(i)
    BY <2>2, MakePlanOut, ConfirmOut, ApplyOut, ExecuteOut, AppliedOut
  <2>3. CASE RebootPending(i) \/ ResolveRelease(i) \/ AcquireImages(i) \/ InitProject(i)
    BY <2>3, RebootPendingOut, ResolveReleaseOut, AcquireImagesOut, InitProjectOut
  <2>4. CASE \/ Refuse(i) \/ PlanChanged(i) \/ Unconfirmed(i) \/ HelperRefuses(i)
             \/ ReleaseChanged(i) \/ ConfigRefused(i)
    BY <2>4, StopsOut
  <2>5. CASE CreateConfig(i)
    BY <2>5, CreateConfigOut
  <2> QED BY <1>2, <2>1, <2>2, <2>3, <2>4, <2>5 DEF Step
<1>3. CASE \E i \in Installer : Leave(i)
  BY <1>3, StopsOut
<1>4. CASE Outside
  BY <1>4, RebootOut, DriftOut, EditConfigOut DEF Outside
<1>5. CASE UNCHANGED vars
  BY <1>5, DriftOut
<1> QED BY <1>1, <1>2, <1>3, <1>4, <1>5 DEF Next

\* What a completed stage stands for holds in every state of every behaviour.
THEOREM OutcomeInvariance == Spec => []Outcome
<1> QED BY Invariance, InitOut, NextOut, InitInv, NextInv, PTL DEF Spec

-----------------------------------------------------------------------------
(* The types of the rest: the lock, the processes, the history, the bounds. *)

Rest ==
  /\ lock \in {None} \union Installer
  /\ pc \in [Installer -> {"idle", "stage", "run", "apply"}]
  /\ \A i \in Installer : pc[i] = "idle" => job[i] = NoJob
  /\ \A i \in Installer : job[i].left \in SUBSET Op
  /\ consent \in [Project -> [ops : [Phase -> SUBSET Op], tool : {None} \union Version]]
  /\ exits \in 0..MaxExits /\ drifts \in 0..MaxDrifts

\* A run takes a step and the others take none.
LEMMA RestOfRun ==
  ASSUME Inv, Rest, NEW i \in Installer,
         NEW step \in {"idle", "stage", "run", "apply"}, NEW j,
         pc' = [pc EXCEPT ![i] = step], job' = [job EXCEPT ![i] = j],
         step = "idle" => j = NoJob, j.left \in SUBSET Op,
         lock' \in {None, lock, i},
         consent' \in [Project -> [ops : [Phase -> SUBSET Op], tool : {None} \union Version]],
         exits' \in 0..MaxExits, drifts' \in 0..MaxDrifts
  PROVE  Rest'
<1>1. DOMAIN job = Installer
  BY DEF Inv, Domains
<1>2. pc' \in [Installer -> {"idle", "stage", "run", "apply"}]
  BY DEF Rest
<1>3. \A k \in Installer : /\ k # i => pc'[k] = pc[k] /\ job'[k] = job[k]
                           /\ k = i => pc'[k] = step /\ job'[k] = j
  BY <1>1 DEF Rest
<1> QED BY <1>2, <1>3 DEF Rest

LEMMA RestStops ==
  ASSUME Inv, Rest, NEW i \in Installer, Stop(i), UNCHANGED <<consent, drifts>>,
         exits' \in 0..MaxExits
  PROVE  Rest'
<1>1. /\ NoJob.left \in SUBSET Op /\ drifts' \in 0..MaxDrifts
      /\ consent' \in [Project -> [ops : [Phase -> SUBSET Op], tool : {None} \union Version]]
  BY DEF NoJob, Rest
<1> QED BY <1>1, RestOfRun DEF Stop

LEMMA RestAdvances ==
  ASSUME Inv, Rest, NEW i \in Installer, NEW j, NextStage(i, j), Shaped(j),
         j.left = job[i].left, UNCHANGED <<exits, drifts>>,
         consent' \in [Project -> [ops : [Phase -> SUBSET Op], tool : {None} \union Version]]
  PROVE  Rest'
<1> DEFINE n == [[j EXCEPT !.at = j.at + 1] EXCEPT !.inputs = None]
<1>1. exits' \in 0..MaxExits /\ drifts' \in 0..MaxDrifts
  BY DEF Rest
<1>2. CASE j.at = COMPLETE
  <2>1. Stop(i) /\ NoJob.left \in SUBSET Op
    BY <1>2 DEF NextStage, NoJob
  <2> QED BY <1>1, <2>1, RestOfRun DEF Stop
<1>3. CASE j.at # COMPLETE
  <2>1. pc' = [pc EXCEPT ![i] = "stage"] /\ job' = [job EXCEPT ![i] = n] /\ lock' = lock
    BY <1>3 DEF NextStage
  <2>2. n.left \in SUBSET Op
    BY DEF Shaped, JobFields, Rest
  <2> HIDE DEF n
  <2> QED BY <1>1, <2>1, <2>2, RestOfRun
<1> QED BY <1>2, <1>3

\* The plan a run works with is a set of operations.
LEMMA ResolvedIsPlan ==
  ASSUME Inv, Outcome, NEW i \in Installer, pc[i] # "idle"
  PROVE  Resolved(job[i]) \in SUBSET Op /\ PlanOf(PhaseOf(job[i].at)) \in SUBSET Op
<1>1. PlanShape(job[i].plan) /\ PhaseOf(job[i].at) \in Phase
  BY KnownOut DEF OutRun, RunShape, PhaseOf, Phase
<1>2. \A f \in Phase : PlanOf(f) \in SUBSET Op
  BY PlansFit DEF Phase, KernelOp, HostOp, Op
<1> QED BY <1>1, <1>2 DEF Resolved, PlanShape, Digest, Plan

LEMMA StepRest ==
  ASSUME Inv, Outcome, Rest, NEW i \in Installer, Step(i)
  PROVE  Rest'
<1>1. UNCHANGED <<consent, exits, drifts>> =>
        /\ consent' \in [Project -> [ops : [Phase -> SUBSET Op], tool : {None} \union Version]]
        /\ exits' \in 0..MaxExits /\ drifts' \in 0..MaxDrifts
  BY DEF Rest
<1>2. pc[i] # "idle" => Shaped(job[i]) /\ job[i].left \in SUBSET Op
  BY Known DEF Rest
<1>3. CASE Skip(i) \/ Verify(i)
  <2>1. /\ pc[i] # "idle" /\ NextStage(i, job[i]) /\ UNCHANGED <<consent, exits, drifts>>
    BY <1>3 DEF Skip, Verify, Verifying, At, history, budget
  <2> QED BY <1>1, <1>2, <2>1, RestAdvances
<1>4. CASE \/ Refuse(i) \/ Blocked(i) \/ PlanChanged(i) \/ Unconfirmed(i) \/ HelperRefuses(i)
           \/ ReleaseChanged(i) \/ ConfigRefused(i)
  <2>1. Stop(i) /\ UNCHANGED <<consent, exits, drifts>>
    BY <1>4 DEF Refuse, Blocked, PlanChanged, Unconfirmed, HelperRefuses, ReleaseChanged,
                ConfigRefused, history, budget
  <2> QED BY <1>1, <2>1, RestStops
<1>5. CASE Begin(i)
  <2> DEFINE j == [[job[i] EXCEPT !.inputs = Inputs(job[i], File(i))]
                     EXCEPT !.release = Cached(job[i])]
  <2>1. /\ pc[i] # "idle" /\ job' = [job EXCEPT ![i] = j] /\ pc' = [pc EXCEPT ![i] = "run"]
        /\ UNCHANGED <<lock, consent, exits, drifts>>
    BY <1>5 DEF Begin, At, history, budget
  <2>2. j.left \in SUBSET Op
    BY <1>2, <2>1 DEF Shaped, JobFields
  <2> HIDE DEF j
  <2> QED BY <1>1, <2>1, <2>2, RestOfRun
<1>6. CASE Simple(i) \/ Applied(i) \/ AcquireImages(i) \/ InitProject(i)
  <2>1. /\ pc[i] # "idle" /\ \E s : Pass(i, s, job[i])
        /\ UNCHANGED <<consent, exits, drifts>>
    BY <1>6 DEF Simple, Applied, AcquireImages, InitProject, At, history, budget
  <2>2. NextStage(i, job[i])
    BY <2>1 DEF Pass
  <2> QED BY <1>1, <1>2, <2>1, <2>2, RestAdvances
<1>7. CASE RebootPending(i)
  <2>1. pc[i] # "idle" /\ UNCHANGED <<consent, exits, drifts>>
        /\ (NextStage(i, job[i]) \/ Stop(i))
    BY <1>7 DEF RebootPending, Pass, At, history, budget
  <2> QED BY <1>1, <1>2, <2>1, RestAdvances, RestStops
<1>8. CASE MakePlan(i)
  <2> DEFINE f == PhaseOf(job[i].at)
             j == [job[i] EXCEPT !.plan = [@ EXCEPT ![f] = PlanOf(f)]]
  <2>1. pc[i] # "idle" /\ NextStage(i, j) /\ UNCHANGED <<consent, exits, drifts>>
    BY <1>8 DEF MakePlan, Pass, At, history, budget
  <2>2. Shaped(j) /\ j.left = job[i].left
    BY <1>2, <2>1 DEF Shaped, JobFields
  <2> HIDE DEF j
  <2> QED BY <1>1, <2>1, <2>2, RestAdvances
<1>9. CASE ResolveRelease(i)
  <2> DEFINE j == [job[i] EXCEPT !.release = manifest]
  <2>1. pc[i] # "idle" /\ NextStage(i, j) /\ UNCHANGED <<consent, exits, drifts>>
    BY <1>9 DEF ResolveRelease, Pass, At, history, budget
  <2>2. Shaped(j) /\ j.left = job[i].left
    BY <1>2, <2>1 DEF Shaped, JobFields
  <2> HIDE DEF j
  <2> QED BY <1>1, <2>1, <2>2, RestAdvances
<1>10. CASE Confirm(i)
  <2> DEFINE f == PhaseOf(job[i].at)
             q == job[i].project
             j == [job[i] EXCEPT !.plan = [@ EXCEPT ![f] = Resolved(job[i])]]
             D(g) == [ops |-> [consent[q].ops EXCEPT ![f] = Resolved(job[i]) \union
                                                            (IF g THEN {"group"} ELSE {})],
                      tool |-> job[i].tool]
  <2>1. /\ pc[i] # "idle" /\ UNCHANGED <<exits, drifts>> /\ NextStage(i, j)
        /\ \E g : consent' = [consent EXCEPT ![q] = D(g)]
    BY <1>10 DEF Confirm, Pass, At, budget
  <2>2. PICK g : consent' = [consent EXCEPT ![q] = D(g)]
    BY <2>1
  <2>3. Shaped(j) /\ j.left = job[i].left
    BY <1>2, <2>1 DEF Shaped, JobFields
  <2>4. D(g) \in [ops : [Phase -> SUBSET Op], tool : {None} \union Version]
    <3>1. q \in Project /\ job[i].tool \in Version
      BY <2>1, Known, KnownOut DEF OutRun, RunShape
    <3>2. Resolved(job[i]) \union (IF g THEN {"group"} ELSE {}) \in SUBSET Op
      BY <2>1, ResolvedIsPlan DEF Op, HostOp
    <3> QED BY <3>1, <3>2 DEF Rest
  <2> HIDE DEF j, D
  <2>5. consent' \in [Project -> [ops : [Phase -> SUBSET Op], tool : {None} \union Version]]
    BY <2>2, <2>4 DEF Rest
  <2> QED BY <2>1, <2>3, <2>5, RestAdvances
<1>11. CASE Apply(i)
  <2> DEFINE j == [[job[i] EXCEPT !.left = ToExecute(i)]
                     EXCEPT !.plan = [@ EXCEPT ![PhaseOf(job[i].at)] = Resolved(job[i])]]
  <2>1. /\ pc[i] # "idle" /\ job' = [job EXCEPT ![i] = j] /\ pc' = [pc EXCEPT ![i] = "apply"]
        /\ UNCHANGED <<lock, consent, exits, drifts>>
    BY <1>11 DEF Apply, At, history, budget
  <2>2. ToExecute(i) \in SUBSET Op
    BY <2>1, ResolvedIsPlan DEF ToExecute, Op, HostOp
  <2>3. j.left \in SUBSET Op
    BY <1>2, <2>1, <2>2 DEF Shaped, JobFields
  <2> HIDE DEF j
  <2> QED BY <1>1, <2>1, <2>3, RestOfRun
<1>12. CASE ExecuteNext(i)
  <2>1. PICK o : Execute(i, o)
    BY <1>12 DEF ExecuteNext
  <2> DEFINE j == [job[i] EXCEPT !.left = @ \ {o}]
  <2>2. /\ pc[i] = "apply" /\ job' = [job EXCEPT ![i] = j]
        /\ UNCHANGED <<pc, lock, consent, exits, drifts>>
    BY <2>1 DEF Execute, budget
  <2>3. j.left \in SUBSET Op
    BY <1>2, <2>2 DEF Shaped, JobFields
  <2>4. pc' = [pc EXCEPT ![i] = "apply"]
    BY <2>2 DEF Rest
  <2> HIDE DEF j
  <2> QED BY <1>1, <2>2, <2>3, <2>4, RestOfRun
<1>13. CASE CreateConfig(i)
  <2>1. UNCHANGED <<pc, job, lock, consent, exits, drifts>>
    BY <1>13 DEF CreateConfig, history, budget
  <2> QED BY <2>1 DEF Rest
<1> QED BY <1>3, <1>4, <1>5, <1>6, <1>7, <1>8, <1>9, <1>10, <1>11, <1>12, <1>13 DEF Step

LEMMA NextRest == Inv /\ Outcome /\ Rest /\ [Next]_vars => Rest'
<1> SUFFICES ASSUME Inv, Outcome, Rest, [Next]_vars PROVE Rest'
  OBVIOUS
<1>0. MaxExits \in Nat /\ MaxDrifts \in Nat
  BY InstallerAssumption
<1>1. ASSUME NEW i \in Installer, NEW p \in Project, Start(i, p) PROVE Rest'
  <2>1. PICK o : job' = [job EXCEPT ![i] = [NoJob EXCEPT !.project = p, !.tool = tool, !.opts = o]]
    BY <1>1 DEF Start
  <2> DEFINE j == [[[NoJob EXCEPT !.project = p] EXCEPT !.tool = tool] EXCEPT !.opts = o]
  <2>2. /\ job' = [job EXCEPT ![i] = j] /\ pc' = [pc EXCEPT ![i] = "stage"] /\ lock' = i
        /\ UNCHANGED <<consent, exits, drifts>>
    BY <1>1, <2>1 DEF Start, history, budget
  <2>3. j.left \in SUBSET Op
    BY DEF NoJob
  <2> HIDE DEF j
  <2> QED BY <2>2, <2>3, RestOfRun DEF Rest
<1>2. ASSUME NEW i \in Installer, Leave(i) PROVE Rest'
  <2>1. Stop(i) /\ UNCHANGED <<consent, drifts>> /\ exits' \in 0..MaxExits
    BY <1>0, <1>2 DEF Leave, history, Rest
  <2> QED BY <2>1, RestStops
<1>3. CASE Outside
  <2>1. CASE \E k \in Kernel, ok \in BOOLEAN : Reboot(k, ok)
    <3>1. /\ exits' \in 0..MaxExits /\ lock' = None /\ UNCHANGED <<consent, drifts>>
          /\ pc' = [i \in Installer |-> "idle"] /\ job' = [i \in Installer |-> NoJob]
      BY <1>0, <2>1 DEF Reboot, history, Rest
    <3>2. NoJob.left \in SUBSET Op
      BY DEF NoJob
    <3> QED BY <3>1, <3>2 DEF Rest
  <2>2. CASE DriftHost \/ KernelPatch \/ Update \/ \E p \in Project : EditConfig(p)
    <3>1. drifts' \in 0..MaxDrifts /\ UNCHANGED <<lock, pc, job, consent, exits>>
      BY <1>0, <2>2 DEF DriftHost, KernelPatch, Update, EditConfig, Drifting, history, Rest
    <3> QED BY <3>1 DEF Rest
  <2> QED BY <1>3, <2>1, <2>2 DEF Outside
<1>4. CASE UNCHANGED vars
  BY <1>4 DEF vars, history, budget, Rest
<1>5. CASE \E i \in Installer : Step(i)
  BY <1>5, StepRest
<1> QED BY <1>1, <1>2, <1>3, <1>4, <1>5 DEF Next

LEMMA InitRest == Init => Rest
<1> SUFFICES ASSUME Init PROVE Rest
  OBVIOUS
<1>1. NoJob.left \in SUBSET Op
  BY DEF NoJob
<1>2. consent \in [Project -> [ops : [Phase -> SUBSET Op], tool : {None} \union Version]]
  BY DEF Init
<1>3. exits \in 0..MaxExits /\ drifts \in 0..MaxDrifts
  BY InstallerAssumption DEF Init
<1> QED BY <1>1, <1>2, <1>3 DEF Init, Rest

-----------------------------------------------------------------------------
(* The properties.                                                         *)

LEMMA OutTypes == Inv /\ Outcome /\ Rest => TypeOK
<1> SUFFICES ASSUME Inv, Outcome, Rest PROVE TypeOK
  OBVIOUS
<1>1. ASSUME NEW p \in Project
      PROVE  LET s == state[p]
             IN /\ s.tool \in Version /\ s.current \in Stage /\ s.plan \in [Phase -> Digest]
                /\ DOMAIN s.inputs \subseteq Stage
                /\ s.kboot \in {None} \union 1..boot
                /\ s.kstatus \in {None, "pass", "blocked"} /\ s.kkernel \in {None} \union Kernel
                /\ s.group \in BOOLEAN
                /\ s.release \in {None} \union Image /\ s.image \in {None} \union Image
  <2>1. OutFile(state[p], config[p], changed[p], boot) /\ GoodFile(state[p], consent[p])
    BY DEF Inv, Outcome
  <2> QED BY <2>1 DEF OutFile, FileTyped, PlanShape, GoodFile
<1>2. ASSUME NEW i \in Installer
      PROVE  /\ job[i].project \in {None} \union Project /\ job[i].at \in Stage
             /\ job[i].plan \in [Phase -> Digest] /\ job[i].left \in Plan
             /\ job[i].release \in {None} \union Version /\ job[i].tool \in {None} \union Version
  <2>1. CASE pc[i] = "idle"
    <3>1. job[i] = NoJob
      BY <2>1 DEF Rest
    <3> QED BY <3>1 DEF NoJob, NoPlans, Digest, Plan, Phase
  <2>2. CASE pc[i] # "idle"
    BY <2>2, Known, KnownOut DEF OutRun, RunShape, PlanShape, Rest, Plan
  <2> QED BY <2>1, <2>2
<1>3. todo \subseteq Op
  BY DEF Outcome, Surroundings, NeedOp
<1>4. consent \in [Project -> [ops : [Phase -> Plan], tool : {None} \union Version]]
  BY DEF Rest, Plan
<1> QED BY <1>1, <1>2, <1>3, <1>4 DEF TypeOK, Outcome, Surroundings, Rest

\* What the stages before the current one stand for.
LEMMA Behind ==
  ASSUME Inv, Outcome, NEW p \in Project, NEW a \in Stage, a < state[p].current
  PROVE  StageMeans(a, state[p], state[p].inputs[a], config[p], changed[p], boot)
BY DEF Inv, GoodFile, Admitted, Outcome, OutFile

LEMMA OutRebooted == Inv /\ Outcome => RebootedIntoPlan
<1> SUFFICES ASSUME Inv, Outcome, NEW p \in Project,
                    state[p].current > KERNEL_REBOOT_PENDING,
                    RebootRequired(state[p].plan["kernel"])
             PROVE  changed[p] \in 1..(boot - 1)
  BY DEF RebootedIntoPlan
<1>1. state[p].current \in Stage /\ boot \in Nat \ {0}
  BY DEF Inv, GoodFile, Outcome, Surroundings
<1>2. state[p].kboot \in 1..boot /\ changed[p] \in 1..state[p].kboot
  <2>1. StageMeans(KERNEL_APPLY, state[p], state[p].inputs[KERNEL_APPLY], config[p], changed[p], boot)
    BY <1>1, Behind
  <2> QED BY <2>1 DEF StageMeans
<1>3. state[p].kboot < boot
  <2>1. StageMeans(KERNEL_REBOOT_PENDING, state[p], state[p].inputs[KERNEL_REBOOT_PENDING],
                   config[p], changed[p], boot)
    BY <1>1, Behind
  <2> QED BY <2>1 DEF StageMeans
<1> QED BY <1>1, <1>2, <1>3

LEMMA OutImages == Inv /\ Outcome => ImagesMatchRelease /\ ProjectUsesRecordedImage
<1> SUFFICES ASSUME Inv, Outcome, NEW p \in Project
             PROVE  /\ state[p].current > RELEASE_RESOLVE => state[p].image = state[p].release
                    /\ state[p].current > PROJECT_INIT => config[p].image = state[p].image
  BY DEF ImagesMatchRelease, ProjectUsesRecordedImage
<1>1. state[p].current \in Stage
  BY DEF Inv, GoodFile
<1>2. ASSUME state[p].current > RELEASE_RESOLVE PROVE state[p].image = state[p].release
  <2>1. StageMeans(RELEASE_RESOLVE, state[p], state[p].inputs[RELEASE_RESOLVE], config[p],
                   changed[p], boot)
    BY <1>1, <1>2, Behind
  <2> QED BY <2>1 DEF StageMeans
<1>3. ASSUME state[p].current > PROJECT_INIT PROVE config[p].image = state[p].image
  <2>1. StageMeans(PROJECT_INIT, state[p], state[p].inputs[PROJECT_INIT], config[p],
                   changed[p], boot)
    BY <1>1, <1>3, Behind
  <2> QED BY <2>1 DEF StageMeans
<1> QED BY <1>2, <1>3

LEMMA OutVerified == Inv /\ Outcome => TuningOnVerifiedKernel
<1> SUFFICES ASSUME Inv, Outcome, NEW i \in Installer, pc[i] = "apply", job[i].at = HOST_APPLY
             PROVE  KernelFine /\ File(i).kstatus = "pass" /\ File(i).kkernel = running
  BY DEF TuningOnVerifiedKernel
<1>1. Passed(HOST_APPLY - 1, job[i], File(i))
  BY KnownOut DEF OutRun
<1> QED BY <1>1 DEF Passed

LEMMA OutNamed == Inv /\ Outcome => NamedPlanApplied
<1> SUFFICES ASSUME Inv, Outcome, NEW i \in Installer, pc[i] = "apply", ~job[i].opts.interactive
             PROVE  /\ job[i].opts.accept[PhaseOf(job[i].at)] = File(i).plan[PhaseOf(job[i].at)]
                    /\ "group" \in job[i].left => job[i].opts.group
  BY DEF NamedPlanApplied
<1>1. /\ job[i].at \in {KERNEL_APPLY, HOST_APPLY}
      /\ "group" \in job[i].left => job[i].at = HOST_APPLY /\ File(i).group
  BY Executing
<1>2. Passed(job[i].at - 1, job[i], File(i))
  BY KnownOut DEF OutRun
<1>3. CASE job[i].at = KERNEL_APPLY
  <2>1. Passed(KERNEL_APPLY - 1, job[i], File(i)) /\ PhaseOf(job[i].at) = "kernel"
    BY <1>2, <1>3 DEF PhaseOf
  <2> QED BY <1>1, <1>3, <2>1 DEF Passed
<1>4. CASE job[i].at = HOST_APPLY
  <2>1. Passed(HOST_APPLY - 1, job[i], File(i)) /\ PhaseOf(job[i].at) = "host"
    BY <1>2, <1>4 DEF PhaseOf
  <2> QED BY <1>1, <1>4, <2>1 DEF Passed
<1> QED BY <1>1, <1>3, <1>4

\* Every variable of the installer keeps its type, for any processes, projects,
\* needs and bounds.
THEOREM TypeCorrect == Spec => []TypeOK
<1> QED BY Invariance, OutcomeInvariance, InitRest, NextRest, OutTypes, PTL DEF Spec

\* When the kernel stages are behind a project, the host was booted after the
\* last change of its kernel or modules, wherever runs ended in between.
THEOREM BootedSinceKernelChange == Spec => []RebootedIntoPlan
<1> QED BY Invariance, OutcomeInvariance, OutRebooted, PTL

\* Docker and the groups are changed only while a kernel without faults is
\* running that the state file records as verified.
THEOREM TunedOnVerifiedKernel == Spec => []TuningOnVerifiedKernel
<1> QED BY Invariance, OutcomeInvariance, OutVerified, PTL

\* Without a terminal a run applies what its own command line names, and adds
\* the group only when it says so, also when an earlier run was asked.
THEOREM AppliesWhatIsNamed == Spec => []NamedPlanApplied
<1> QED BY Invariance, OutcomeInvariance, OutNamed, PTL

\* The recorded images are those of the recorded release.
THEOREM ImagesOfRelease == Spec => []ImagesMatchRelease
<1> QED BY Invariance, OutcomeInvariance, OutImages, PTL

\* A project that is set up uses the recorded images.
THEOREM ProjectOnRecordedImage == Spec => []ProjectUsesRecordedImage
<1> QED BY Invariance, OutcomeInvariance, OutImages, PTL
=============================================================================
