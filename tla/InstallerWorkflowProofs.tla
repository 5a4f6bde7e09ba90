------------------------ MODULE InstallerWorkflowProofs ------------------------
(***************************************************************************)
(* What a run of the installer may execute, for any number of processes    *)
(* and projects and any bounds: only confirmed operations, under the       *)
(* version that explained them, and no plan twice; and what runs leave in  *)
(* the state files, wherever they end.                                     *)
(*                                                                         *)
(* The invariant has one part for a state file and one for a run:          *)
(* completed stages are a prefix, a completed confirmation still agrees    *)
(* with the recorded plan, and a run has all stages before its own behind  *)
(* it.  The lock makes the run that is under way the only one.             *)
(***************************************************************************)
EXTENDS InstallerWorkflow, TLAPS

USE DEF BOOTSTRAP, HOST_PREFLIGHT, KERNEL_PLAN, KERNEL_CONFIRM, KERNEL_APPLY,
        KERNEL_REBOOT_PENDING, KERNEL_VERIFY, HOST_PLAN, HOST_CONFIRM, HOST_APPLY,
        HOST_VERIFY, RELEASE_RESOLVE, IMAGE_PULL_OR_BUILD, IMAGE_VERIFY, PROJECT_INIT,
        PROJECT_VERIFY, COMPLETE, Stage

FileFields == {"tool", "inputs", "current", "plan", "kboot", "kstatus", "kkernel", "group",
               "release", "image"}
JobFields == {"project", "tool", "opts", "at", "inputs", "plan", "release", "left"}

GroupOp(wanted) == IF wanted THEN {"group"} ELSE {}

\* A state file and what has been confirmed for its project.
GoodFile(s, c) ==
  /\ DOMAIN s = FileFields /\ DOMAIN s.plan = Phase /\ DOMAIN s.inputs \subseteq Stage
  /\ s.current \in Stage
  /\ DOMAIN c = {"ops", "tool"} /\ DOMAIN c.ops = Phase
  /\ Admitted(s)
  /\ Done(s, KERNEL_CONFIRM) => c.ops["kernel"] = s.plan["kernel"]
  /\ Done(s, HOST_CONFIRM) => c.ops["host"] = s.plan["host"] \union GroupOp(s.group)
  /\ Done(s, KERNEL_CONFIRM) /\ ~Done(s, HOST_APPLY) => s.inputs[BOOTSTRAP] = <<c.tool>>

Shaped(j) == DOMAIN j = JobFields /\ DOMAIN j.plan = Phase

\* A run and the state file of its project.
GoodRun(step, j, s) ==
  /\ j.at \in Stage
  /\ \A a \in Stage : a < j.at => Done(s, a)
  /\ step \in {"run", "apply"} => ~Done(s, j.at)
  /\ j.at > BOOTSTRAP => s.inputs[BOOTSTRAP] = <<j.tool>>
  /\ step = "run" /\ j.at = BOOTSTRAP => j.inputs = <<j.tool>>
  /\ step = "apply" =>
       /\ j.at \in ApplyStage
       /\ j.left \subseteq s.plan[PhaseOf(j.at)] \union GroupOp(j.at = HOST_APPLY /\ s.group)

Domains ==
  /\ DOMAIN state = Project /\ DOMAIN consent = Project
  /\ DOMAIN pc = Installer /\ DOMAIN job = Installer
  /\ \A i \in Installer : Shaped(job[i])

Running(i) ==
  /\ lock = i /\ job[i].project \in Project
  /\ GoodRun(pc[i], job[i], state[job[i].project])

Inv ==
  /\ Domains
  /\ \A p \in Project : GoodFile(state[p], consent[p])
  /\ \A i \in Installer : pc[i] # "idle" => Running(i)

-----------------------------------------------------------------------------
(* Steps seen from one run: the others are idle.                           *)

\* All that a run under way does to the other projects and the other processes
\* is nothing; so its own project and itself are all there is to look at.
LEMMA OnlyOne ==
  ASSUME Inv, NEW i \in Installer, pc[i] # "idle",
         DOMAIN state' = Project, DOMAIN consent' = Project,
         DOMAIN pc' = Installer, DOMAIN job' = Installer,
         \A p \in Project : p # job[i].project => state'[p] = state[p] /\ consent'[p] = consent[p],
         \A k \in Installer : k # i => pc'[k] = pc[k] /\ job'[k] = job[k],
         GoodFile(state'[job[i].project], consent'[job[i].project]),
         Shaped(job'[i]),
         pc'[i] # "idle" => /\ lock' = i /\ job'[i].project = job[i].project
                            /\ GoodRun(pc'[i], job'[i], state'[job[i].project])
  PROVE  Inv'
<1>1. Domains'
  BY DEF Inv, Domains, Shaped
<1>2. \A p \in Project : GoodFile(state'[p], consent'[p])
  <2> TAKE p \in Project
  <2>1. CASE p = job[i].project
    BY <2>1
  <2>2. CASE p # job[i].project
    BY <2>2 DEF Inv
  <2> QED BY <2>1, <2>2
<1>3. \A k \in Installer : pc'[k] # "idle" => Running(k)'
  <2> SUFFICES ASSUME NEW k \in Installer, pc'[k] # "idle" PROVE Running(k)'
    OBVIOUS
  <2>1. CASE k = i
    BY <2>1 DEF Running, Inv
  <2>2. CASE k # i
    BY <2>2 DEF Running, Inv
  <2> QED BY <2>1, <2>2
<1> QED BY <1>1, <1>2, <1>3 DEF Inv

\* A run that ends without writing.
LEMMA Ends ==
  ASSUME Inv, NEW i \in Installer, pc[i] # "idle", Stop(i), UNCHANGED <<state, consent>>
  PROVE  Inv'
<1>1. /\ DOMAIN state' = Project /\ DOMAIN consent' = Project
      /\ DOMAIN pc' = Installer /\ DOMAIN job' = Installer
      /\ pc'[i] = "idle" /\ Shaped(job'[i])
  BY DEF Inv, Domains, Stop, NoJob, NoPlans, Shaped, JobFields
<1>2. GoodFile(state'[job[i].project], consent'[job[i].project])
  BY DEF Inv, Running
<1>3. \A k \in Installer : k # i => pc'[k] = pc[k] /\ job'[k] = job[k]
  BY DEF Inv, Domains, Stop
<1> QED BY <1>1, <1>2, <1>3, OnlyOne

\* The file s with the confirmations c becomes t with d when j has done its stage.
Work(s, c, t, d, j) ==
  /\ DOMAIN t = FileFields /\ DOMAIN t.plan = Phase /\ t.inputs = s.inputs
  /\ DOMAIN d = {"ops", "tool"} /\ DOMAIN d.ops = Phase
  /\ Done(s, KERNEL_CONFIRM) \/ j.at = KERNEL_CONFIRM => d.ops["kernel"] = t.plan["kernel"]
  /\ Done(s, HOST_CONFIRM) \/ j.at = HOST_CONFIRM =>
       d.ops["host"] = t.plan["host"] \union GroupOp(t.group)
  /\ j.at \in ConfirmStage => d.tool = j.tool
  /\ j.at \notin ConfirmStage => d.tool = c.tool

\* A stage that is done, whatever else it adds to the file, keeps the file good
\* when the confirmations do.
LEMMA Completed ==
  ASSUME NEW s, NEW t, NEW c, NEW d, NEW j,
         GoodFile(s, c), GoodRun("run", j, s), Work(s, c, t, d, j)
  PROVE  /\ GoodFile(Checkpoint(t, j), d)
         /\ \A a \in Stage : a <= j.at => Done(Checkpoint(t, j), a)
         /\ Checkpoint(t, j).inputs[BOOTSTRAP] = <<j.tool>>
<1> DEFINE n == Checkpoint(t, j)
<1>1. /\ DOMAIN n = FileFields /\ n.plan = t.plan /\ n.group = t.group
      /\ n.inputs = Recorded(t.inputs, j)
      /\ n.current = IF j.at = COMPLETE THEN COMPLETE ELSE j.at + 1
  BY DEF Checkpoint, FileFields, Work
<1>2. /\ DOMAIN n.inputs = DOMAIN s.inputs \union {j.at}
      /\ n.inputs[j.at] = j.inputs
      /\ \A a \in DOMAIN s.inputs : a # j.at => n.inputs[a] = s.inputs[a]
  BY <1>1 DEF Recorded, Work
<1>3. \A a \in Stage : Done(n, a) <=> Done(s, a) \/ a = j.at
  BY <1>2 DEF Done
<1>4. j.at \in Stage /\ \A a \in Stage : a < j.at => Done(s, a)
  BY DEF GoodRun
<1>5. \A a \in Stage : a <= j.at => Done(n, a)
  BY <1>3, <1>4
<1>6. n.inputs[BOOTSTRAP] = <<j.tool>>
  <2>1. CASE j.at = BOOTSTRAP
    BY <1>2, <2>1 DEF GoodRun
  <2>2. CASE j.at # BOOTSTRAP
    <3>1. j.at > BOOTSTRAP /\ Done(s, BOOTSTRAP)
      BY <1>4, <2>2
    <3> QED BY <1>2, <2>2, <3>1 DEF GoodRun, Done
  <2> QED BY <2>1, <2>2
<1>7. Admitted(n)
  <2>1. \A a, b \in Stage : a < b /\ Done(n, b) => Done(n, a)
    BY <1>3, <1>4 DEF GoodFile, Admitted
  <2>2. \A a \in Stage : a < n.current => Done(n, a)
    BY <1>1, <1>3, <1>4
  <2>3. n.current = COMPLETE \/ ~Done(n, n.current)
    <3> SUFFICES ASSUME n.current # COMPLETE PROVE ~Done(n, n.current)
      OBVIOUS
    <3>1. n.current = j.at + 1 /\ n.current \in Stage /\ ~Done(s, j.at)
      BY <1>1, <1>4 DEF GoodRun
    <3> QED BY <1>3, <1>4, <3>1 DEF GoodFile, Admitted
  <2> QED BY <2>1, <2>2, <2>3 DEF Admitted
<1>8. Done(n, KERNEL_CONFIRM) => d.ops["kernel"] = n.plan["kernel"]
  BY <1>1, <1>3 DEF Work
<1>9. Done(n, HOST_CONFIRM) => d.ops["host"] = n.plan["host"] \union GroupOp(n.group)
  BY <1>1, <1>3 DEF Work
<1>10. Done(n, KERNEL_CONFIRM) /\ ~Done(n, HOST_APPLY) => n.inputs[BOOTSTRAP] = <<d.tool>>
  <2> SUFFICES ASSUME Done(n, KERNEL_CONFIRM), ~Done(n, HOST_APPLY) PROVE j.tool = d.tool
    BY <1>6
  <2>1. CASE j.at \in ConfirmStage
    BY <2>1 DEF Work
  <2>2. CASE j.at \notin ConfirmStage
    <3>1. Done(s, KERNEL_CONFIRM) /\ ~Done(s, HOST_APPLY) /\ j.at # BOOTSTRAP
      BY <1>3, <1>4, <2>2 DEF ConfirmStage, GoodRun, GoodFile, Admitted
    <3>2. s.inputs[BOOTSTRAP] = <<c.tool>> /\ s.inputs[BOOTSTRAP] = <<j.tool>>
      BY <1>4, <3>1 DEF GoodFile, GoodRun
    <3> QED BY <2>2, <3>2 DEF Work
  <2> QED BY <2>1, <2>2
<1>11. DOMAIN n.inputs \subseteq Stage /\ n.current \in Stage
  BY <1>1, <1>2, <1>4 DEF GoodFile
<1> QED BY <1>1, <1>5, <1>6, <1>7, <1>8, <1>9, <1>10, <1>11 DEF GoodFile, Work

\* A run that has the stages up to its own behind it goes on to the next.
LEMMA Advances ==
  ASSUME Inv, NEW i \in Installer, pc[i] # "idle", NEW j, NextStage(i, j),
         Shaped(j), j.project = job[i].project, j.at \in Stage,
         DOMAIN state' = Project, DOMAIN consent' = Project,
         \A p \in Project : p # job[i].project => state'[p] = state[p] /\ consent'[p] = consent[p],
         GoodFile(state'[job[i].project], consent'[job[i].project]),
         \A a \in Stage : a <= j.at => Done(state'[job[i].project], a),
         state'[job[i].project].inputs[BOOTSTRAP] = <<j.tool>>
  PROVE  Inv'
<1>1. CASE j.at = COMPLETE
  <2>1. /\ DOMAIN pc' = Installer /\ DOMAIN job' = Installer
        /\ pc'[i] = "idle" /\ job'[i] = NoJob
        /\ \A k \in Installer : k # i => pc'[k] = pc[k] /\ job'[k] = job[k]
    BY <1>1 DEF Inv, Domains, NextStage, Stop
  <2>2. Shaped(NoJob)
    BY DEF NoJob, NoPlans, Shaped, JobFields
  <2> QED BY <2>1, <2>2, OnlyOne
<1>2. CASE j.at # COMPLETE
  <2> DEFINE n == [j EXCEPT !.at = j.at + 1, !.inputs = None]
  <2>1. /\ DOMAIN pc' = Installer /\ DOMAIN job' = Installer /\ lock' = lock
        /\ pc'[i] = "stage" /\ job'[i] = n
        /\ \A k \in Installer : k # i => pc'[k] = pc[k] /\ job'[k] = job[k]
    BY <1>2 DEF Inv, Domains, NextStage
  <2>2. /\ DOMAIN n = JobFields /\ n.plan = j.plan /\ n.project = j.project
        /\ n.tool = j.tool /\ n.at = j.at + 1
    BY DEF Shaped, JobFields
  <2>3. Shaped(n)
    BY <2>2 DEF Shaped
  <2>4. GoodRun("stage", n, state'[job[i].project])
    <3>1. n.at \in Stage /\ \A a \in Stage : a < n.at => a <= j.at
      BY <1>2, <2>2
    <3> QED BY <2>2, <3>1 DEF GoodRun
  <2>5. lock = i
    BY DEF Inv, Running
  <2> HIDE DEF n
  <2> QED BY <2>1, <2>2, <2>3, <2>4, <2>5, OnlyOne
<1> QED BY <1>1, <1>2

\* A stage that has done its work: s is what it adds to the file, j to the run.
LEMMA Passes ==
  ASSUME Inv, NEW i \in Installer, pc[i] \in {"run", "apply"}, NEW s, NEW j, Pass(i, s, j),
         Shaped(j), j.project = job[i].project, j.at = job[i].at, j.tool = job[i].tool,
         j.inputs = job[i].inputs, DOMAIN consent' = Project,
         \A p \in Project : p # job[i].project => consent'[p] = consent[p],
         Work(File(i), consent[job[i].project], s, consent'[job[i].project], j)
  PROVE  Inv'
<1> DEFINE p == job[i].project
<1>1. /\ p \in Project /\ GoodFile(state[p], consent[p]) /\ GoodRun(pc[i], job[i], state[p])
      /\ Work(state[p], consent[p], s, consent'[p], j)
  BY DEF Inv, Running, File
<1>2. j.at \in Stage /\ GoodRun("run", j, state[p])
  <2>1. pc[i] \in {"run", "apply"} /\ j.at = job[i].at /\ j.tool = job[i].tool
        /\ j.inputs = job[i].inputs
    OBVIOUS
  <2> HIDE DEF p
  <2>2. GoodRun(pc[i], job[i], state[p])
    BY <1>1
  <2> QED BY <2>1, <2>2 DEF GoodRun, ApplyStage
<1>3. /\ state'[p] = Checkpoint(s, j) /\ DOMAIN state' = Project
      /\ \A q \in Project : q # p => state'[q] = state[q]
  BY <1>1 DEF Pass, Save, Inv, Domains
<1>4. /\ GoodFile(state'[p], consent'[p])
      /\ \A a \in Stage : a <= j.at => Done(state'[p], a)
      /\ state'[p].inputs[BOOTSTRAP] = <<j.tool>>
  BY <1>1, <1>2, <1>3, Completed
<1>5. pc[i] # "idle" /\ NextStage(i, j)
  BY DEF Pass
<1> QED BY <1>2, <1>3, <1>4, <1>5, Advances

\* The same when nothing is confirmed, and the file keeps its plans.
LEMMA PassesQuietly ==
  ASSUME Inv, NEW i \in Installer, pc[i] \in {"run", "apply"}, NEW s, NEW j, Pass(i, s, j),
         Shaped(j), j.project = job[i].project, j.at = job[i].at, j.tool = job[i].tool,
         j.inputs = job[i].inputs, j.at \notin ConfirmStage,
         DOMAIN s = FileFields, s.inputs = File(i).inputs, s.plan = File(i).plan,
         s.group = File(i).group, UNCHANGED consent
  PROVE  Inv'
<1>1. Work(File(i), consent[job[i].project], s, consent'[job[i].project], j)
  BY DEF Inv, Running, GoodFile, File, Work, ConfirmStage
<1>2. DOMAIN consent' = Project
  BY DEF Inv, Domains
<1> QED BY <1>1, <1>2, Passes

-----------------------------------------------------------------------------
(* The actions, one by one.                                                *)

LEMMA InitInv == Init => Inv
<1> SUFFICES ASSUME Init PROVE Inv
  OBVIOUS
<1>1. \A p \in Project : GoodFile(state[p], consent[p])
  BY DEF Init, NewState, NoPlans, GoodFile, Admitted, FileFields, Done
<1>2. \A i \in Installer : Shaped(job[i]) /\ pc[i] = "idle"
  BY DEF Init, NoJob, NoPlans, Shaped, JobFields
<1> QED BY <1>1, <1>2 DEF Inv, Domains, Init

\* What is known of a run under way.
LEMMA Known ==
  ASSUME Inv, NEW i \in Installer, pc[i] # "idle"
  PROVE  /\ lock = i /\ job[i].project \in Project /\ File(i) = state[job[i].project]
         /\ GoodFile(File(i), consent[job[i].project])
         /\ GoodRun(pc[i], job[i], File(i)) /\ job[i].at \in Stage
         /\ DOMAIN File(i) = FileFields /\ DOMAIN File(i).plan = Phase
         /\ Shaped(job[i])
         /\ DOMAIN state = Project /\ DOMAIN consent = Project
         /\ DOMAIN pc = Installer /\ DOMAIN job = Installer
  BY DEF Inv, Domains, Running, GoodFile, GoodRun, File

LEMMA StartInv ==
  ASSUME Inv, NEW i \in Installer, NEW p \in Project, Start(i, p)
  PROVE  Inv'
<1>1. \A k \in Installer : pc[k] = "idle"
  <2>1. lock = None /\ None \notin Installer
    BY InstallerAssumption DEF Start, InstallLock
  <2> QED BY <2>1 DEF Inv, Running
<1> DEFINE t == Adopted(state[p])
<1>2. DOMAIN t = FileFields /\ t.plan = state[p].plan /\ t.group = state[p].group
      /\ t.current = state[p].current
      /\ DOMAIN t.inputs = DOMAIN state[p].inputs
  BY DEF Inv, GoodFile, FileFields, Adopted
<1>3. \A a \in Stage : Done(t, a) <=> Done(state[p], a)
  BY <1>2 DEF Done
<1>4. Done(t, KERNEL_CONFIRM) /\ ~Done(t, HOST_APPLY) => t = state[p]
  <2>1. state[p].current \in Stage /\ \A a \in Stage : a < t.current => Done(t, a)
    BY DEF Start, Admitted, Inv, GoodFile
  <2>2. CASE CanAdopt(state[p])
    BY <1>2, <2>1, <2>2 DEF CanAdopt
  <2>3. CASE ~CanAdopt(state[p])
    BY <2>3 DEF Adopted
  <2> QED BY <2>2, <2>3
<1>5. GoodFile(t, consent[p])
  <2>1. GoodFile(state[p], consent[p])
    BY DEF Inv
  <2>2. Done(t, KERNEL_CONFIRM) /\ ~Done(t, HOST_APPLY) =>
          t.inputs[BOOTSTRAP] = <<consent[p].tool>>
    BY <1>3, <1>4, <2>1 DEF GoodFile
  <2> HIDE DEF t
  <2> QED BY <1>2, <1>3, <2>1, <2>2 DEF GoodFile, Admitted
<1>6. PICK o \in Options(p) :
        job' = [job EXCEPT ![i] = [NoJob EXCEPT !.project = p, !.tool = tool, !.opts = o]]
  BY DEF Start
<1> DEFINE j == [[[NoJob EXCEPT !.project = p] EXCEPT !.tool = tool] EXCEPT !.opts = o]
<1>7. Shaped(j) /\ j.project = p /\ j.at = BOOTSTRAP
  BY DEF NoJob, NoPlans, Shaped, JobFields
<1>8. /\ DOMAIN job' = Installer /\ job'[i] = j
      /\ \A k \in Installer : k # i => job'[k] = job[k]
  BY <1>6 DEF Inv, Domains
<1>9. GoodRun("stage", j, t)
  <2> HIDE DEF t, j
  <2> QED BY <1>7 DEF GoodRun
<1>10. /\ DOMAIN state' = Project /\ state'[p] = t
       /\ \A q \in Project : q # p => state'[q] = state[q]
       /\ DOMAIN pc' = Installer /\ pc'[i] = "stage"
       /\ \A k \in Installer : k # i => pc'[k] = pc[k]
       /\ lock' = i /\ consent' = consent
  <2>1. /\ state' = [state EXCEPT ![p] = t] /\ pc' = [pc EXCEPT ![i] = "stage"]
        /\ lock' = i /\ consent' = consent
    BY DEF Start, history
  <2>2. DOMAIN state = Project /\ DOMAIN pc = Installer
    BY DEF Inv, Domains
  <2> HIDE DEF t
  <2> QED BY <2>1, <2>2
<1> HIDE DEF t, j
<1>11. Domains'
  BY <1>7, <1>8, <1>10 DEF Inv, Domains, Shaped
<1>12. \A q \in Project : GoodFile(state'[q], consent'[q])
  BY <1>5, <1>10 DEF Inv
<1>13. \A k \in Installer : pc'[k] # "idle" => Running(k)'
  BY <1>1, <1>7, <1>8, <1>9, <1>10 DEF Running
<1> QED BY <1>11, <1>12, <1>13 DEF Inv

\* The inputs of BOOTSTRAP are the version of the run.
LEMMA BootstrapInputs ==
  ASSUME NEW j, NEW s, j.at = BOOTSTRAP
  PROVE  Inputs(j, s) = <<j.tool>>
  BY DEF Inputs, ConfirmStage

LEMMA SkipInv ==
  ASSUME Inv, NEW i \in Installer, Skip(i)
  PROVE  Inv'
<1>1. pc[i] # "idle" /\ NextStage(i, job[i]) /\ Done(File(i), job[i].at) /\ Unchanged(i)
      /\ UNCHANGED <<state, consent>>
  BY DEF Skip, At, disk, history
<1>2. \A a \in Stage : a <= job[i].at => Done(File(i), a)
  BY <1>1, Known DEF GoodRun
<1>3. File(i).inputs[BOOTSTRAP] = <<job[i].tool>>
  <2>1. CASE job[i].at = BOOTSTRAP
    BY <1>1, <2>1, BootstrapInputs DEF Unchanged
  <2>2. CASE job[i].at # BOOTSTRAP
    BY <1>1, <2>2, Known DEF GoodRun
  <2> QED BY <2>1, <2>2
<1> QED BY <1>1, <1>2, <1>3, Known, Advances

LEMMA BeginInv ==
  ASSUME Inv, NEW i \in Installer, Begin(i)
  PROVE  Inv'
<1>1. pc[i] # "idle" /\ pc'[i] = "run" /\ UNCHANGED <<state, consent, lock>>
      /\ ~Done(File(i), job[i].at)
  BY Known DEF Begin, At, disk, history
<1> DEFINE j == [[job[i] EXCEPT !.inputs = Inputs(job[i], File(i))] EXCEPT !.release = Cached(job[i])]
<1>2. DOMAIN job' = Installer /\ job'[i] = j
      /\ \A k \in Installer : k # i => pc'[k] = pc[k] /\ job'[k] = job[k]
  BY <1>1, Known DEF Begin
<1>3. /\ DOMAIN j = JobFields /\ j.plan = job[i].plan /\ j.project = job[i].project
      /\ j.tool = job[i].tool /\ j.at = job[i].at /\ j.inputs = Inputs(job[i], File(i))
  BY <1>1, Known DEF Shaped, JobFields
<1> HIDE DEF j
<1>4. Shaped(j)
  BY <1>1, <1>3, Known DEF Shaped
<1>5. GoodRun("run", j, File(i))
  BY <1>1, <1>3, Known, BootstrapInputs DEF GoodRun
<1>6. DOMAIN pc' = Installer
  BY <1>1, Known DEF Begin
<1> QED BY <1>1, <1>2, <1>3, <1>4, <1>5, <1>6, Known, OnlyOne

\* What a verification writes keeps the file good for the run and by itself.
LEMMA ReportKeeps ==
  ASSUME Inv, NEW i \in Installer, pc[i] # "idle", NEW verdict
  PROVE  LET s == Report(i, verdict)
         IN /\ DOMAIN s = FileFields /\ s.plan = File(i).plan /\ s.group = File(i).group
            /\ s.inputs = File(i).inputs
            /\ GoodFile(s, consent[job[i].project])
<1> DEFINE s == Report(i, verdict)
<1>1. /\ DOMAIN s = FileFields /\ s.plan = File(i).plan /\ s.group = File(i).group
      /\ s.inputs = File(i).inputs /\ s.current = File(i).current
  BY Known DEF Report, FileFields
<1> HIDE DEF s
<1>2. GoodFile(s, consent[job[i].project])
  BY <1>1, Known DEF GoodFile, Admitted, Done
<1> QED BY <1>1, <1>2 DEF s

LEMMA VerifyInv ==
  ASSUME Inv, NEW i \in Installer, Verify(i)
  PROVE  Inv'
<1>1. pc[i] # "idle" /\ Verifying(i) /\ NextStage(i, job[i]) /\ UNCHANGED consent
  BY DEF Verify, Verifying, At, history
<1> DEFINE s == Report(i, "pass")
<1>2. /\ DOMAIN s = FileFields /\ s.plan = File(i).plan /\ s.group = File(i).group
      /\ s.inputs = File(i).inputs /\ GoodFile(s, consent[job[i].project])
  BY <1>1, ReportKeeps
<1>3. CASE pc[i] = "run"
  <2>1. Pass(i, s, job[i]) /\ job[i].at \in VerifyStage
    BY <1>1, <1>3 DEF Verify, Pass, Verifying, At
  <2>2. job[i].at \notin ConfirmStage
    BY <2>1 DEF VerifyStage, ConfirmStage
  <2> HIDE DEF s
  <2>3. Shaped(job[i])
    BY <1>1, Known
  <2> QED BY <1>1, <1>2, <1>3, <2>1, <2>2, <2>3, PassesQuietly
<1>4. CASE pc[i] # "run"
  <2>1. Save(i, s) /\ Done(File(i), job[i].at) /\ job[i].at \in GuardStage
    BY <1>1, <1>4 DEF Verify, Verifying, At
  <2> HIDE DEF s
  <2>2. /\ DOMAIN state' = Project /\ state'[job[i].project] = s
        /\ \A p \in Project : p # job[i].project => state'[p] = state[p]
    BY <1>1, <2>1, Known DEF Save
  <2>3. \A a \in Stage : a <= job[i].at => Done(s, a)
    BY <1>1, <1>2, <2>1, Known DEF GoodRun, Done
  <2>4. s.inputs[BOOTSTRAP] = <<job[i].tool>>
    BY <1>1, <1>2, <2>1, Known DEF GoodRun, GuardStage
  <2> QED BY <1>1, <1>2, <2>2, <2>3, <2>4, Known, Advances
<1> QED BY <1>3, <1>4

LEMMA BlockedInv ==
  ASSUME Inv, NEW i \in Installer, Blocked(i)
  PROVE  Inv'
<1>1. pc[i] # "idle" /\ Stop(i) /\ UNCHANGED consent /\ Save(i, Report(i, "blocked"))
  BY DEF Blocked, Verifying, At, history
<1>2. GoodFile(Report(i, "blocked"), consent[job[i].project])
  BY <1>1, ReportKeeps
<1>3. /\ DOMAIN state' = Project /\ state'[job[i].project] = Report(i, "blocked")
      /\ \A p \in Project : p # job[i].project => state'[p] = state[p]
  BY <1>1, Known DEF Save
<1>4. /\ DOMAIN pc' = Installer /\ DOMAIN job' = Installer
      /\ pc'[i] = "idle" /\ Shaped(job'[i])
      /\ \A k \in Installer : k # i => pc'[k] = pc[k] /\ job'[k] = job[k]
  BY <1>1, Known DEF Stop, NoJob, NoPlans, Shaped, JobFields
<1> QED BY <1>1, <1>2, <1>3, <1>4, Known, OnlyOne

\* A stage that adds to the file something else than a plan or an answer.
LEMMA QuietStage ==
  ASSUME Inv, NEW i \in Installer, pc[i] \in {"run", "apply"}, job[i].at \notin ConfirmStage,
         NEW s, NEW j, Pass(i, s, j), UNCHANGED consent,
         \/ s = File(i)
         \/ \E v : s = [File(i) EXCEPT !.tool = v]
         \/ \E v : s = [File(i) EXCEPT !.kboot = v]
         \/ \E v : s = [File(i) EXCEPT !.image = v]
         \/ \E v, w : s = [[File(i) EXCEPT !.image = v] EXCEPT !.release = w]
         \/ \E v, w : s = [[File(i) EXCEPT !.release = v] EXCEPT !.image = w],
         j = job[i] \/ \E v : j = [job[i] EXCEPT !.release = v]
  PROVE  Inv'
<1>1. pc[i] # "idle"
  OBVIOUS
<1>2. /\ DOMAIN s = FileFields /\ s.inputs = File(i).inputs /\ s.plan = File(i).plan
      /\ s.group = File(i).group
  BY <1>1, Known DEF FileFields
<1>3. /\ Shaped(j) /\ j.project = job[i].project /\ j.at = job[i].at /\ j.tool = job[i].tool
      /\ j.inputs = job[i].inputs
  BY <1>1, Known DEF Shaped, JobFields
<1> QED BY <1>2, <1>3, PassesQuietly

LEMMA SimpleInv ==
  ASSUME Inv, NEW i \in Installer, Simple(i)
  PROVE  Inv'
<1> DEFINE s == IF job[i].at = BOOTSTRAP THEN [File(i) EXCEPT !.tool = job[i].tool] ELSE File(i)
<1>1. /\ pc[i] \in {"run", "apply"} /\ job[i].at \notin ConfirmStage
      /\ Pass(i, s, job[i]) /\ UNCHANGED consent
  BY DEF Simple, At, ConfirmStage, history
<1>2. s = File(i) \/ \E v : s = [File(i) EXCEPT !.tool = v]
  OBVIOUS
<1> QED BY <1>1, <1>2, QuietStage

LEMMA AppliedInv ==
  ASSUME Inv, NEW i \in Installer, Applied(i)
  PROVE  Inv'
<1> DEFINE s == IF job[i].at = KERNEL_APPLY
                THEN [File(i) EXCEPT !.kboot = RebootBootId(job[i])] ELSE File(i)
<1>1. /\ pc[i] \in {"run", "apply"} /\ pc[i] # "idle"
      /\ Pass(i, s, job[i]) /\ UNCHANGED consent
  BY DEF Applied, history
<1>2. job[i].at \notin ConfirmStage
  BY <1>1, Known DEF Applied, GoodRun, ApplyStage, ConfirmStage
<1>3. s = File(i) \/ \E v : s = [File(i) EXCEPT !.kboot = v]
  OBVIOUS
<1> QED BY <1>1, <1>2, <1>3, QuietStage

LEMMA RebootPendingInv ==
  ASSUME Inv, NEW i \in Installer, RebootPending(i)
  PROVE  Inv'
<1>1. pc[i] \in {"run", "apply"} /\ job[i].at \notin ConfirmStage /\ UNCHANGED consent
  BY DEF RebootPending, At, ConfirmStage, history
<1>2. CASE Rebooted(i)
  BY <1>1, <1>2, QuietStage DEF RebootPending
<1>3. CASE ~Rebooted(i)
  BY <1>1, <1>3, Ends DEF RebootPending
<1> QED BY <1>2, <1>3

LEMMA ResolveReleaseInv ==
  ASSUME Inv, NEW i \in Installer, ResolveRelease(i)
  PROVE  Inv'
<1> DEFINE s == [[File(i) EXCEPT !.release = manifest] EXCEPT !.image = manifest]
           j == [job[i] EXCEPT !.release = manifest]
<1>1. /\ pc[i] \in {"run", "apply"} /\ job[i].at \notin ConfirmStage
      /\ Pass(i, s, j) /\ UNCHANGED consent
  BY DEF ResolveRelease, At, ConfirmStage, history
<1>2. /\ \E v, w : s = [[File(i) EXCEPT !.release = v] EXCEPT !.image = w]
      /\ \E v : j = [job[i] EXCEPT !.release = v]
  OBVIOUS
<1> QED BY <1>1, <1>2, QuietStage

LEMMA AcquireImagesInv ==
  ASSUME Inv, NEW i \in Installer, AcquireImages(i)
  PROVE  Inv'
<1> DEFINE s == [File(i) EXCEPT !.image = ResolvedRelease(job[i])]
           t == [[File(i) EXCEPT !.image = "local"] EXCEPT !.release = "local"]
<1>1. /\ pc[i] \in {"run", "apply"} /\ job[i].at \notin ConfirmStage
      /\ Pass(i, s, job[i]) \/ Pass(i, t, job[i])
      /\ UNCHANGED consent
  BY DEF AcquireImages, At, ConfirmStage, history
<1>2. /\ \E v : s = [File(i) EXCEPT !.image = v]
      /\ \E v, w : t = [[File(i) EXCEPT !.image = v] EXCEPT !.release = w]
  OBVIOUS
<1> HIDE DEF s, t
<1>3. CASE Pass(i, s, job[i])
  BY <1>1, <1>2, <1>3, QuietStage
<1>4. CASE Pass(i, t, job[i])
  BY <1>1, <1>2, <1>4, QuietStage
<1> QED BY <1>1, <1>3, <1>4

LEMMA InitProjectInv ==
  ASSUME Inv, NEW i \in Installer, InitProject(i)
  PROVE  Inv'
<1>1. /\ pc[i] \in {"run", "apply"} /\ job[i].at \notin ConfirmStage
      /\ Pass(i, File(i), job[i]) /\ UNCHANGED consent
  BY DEF InitProject, At, ConfirmStage, history
<1> QED BY <1>1, QuietStage

\* A plan is made before it is confirmed, and the other phase keeps its own.
LEMMA MakePlanInv ==
  ASSUME Inv, NEW i \in Installer, MakePlan(i)
  PROVE  Inv'
<1> DEFINE f == PhaseOf(job[i].at)
           s == [File(i) EXCEPT !.plan = [@ EXCEPT ![f] = PlanOf(f)]]
           j == [job[i] EXCEPT !.plan = [@ EXCEPT ![f] = PlanOf(f)]]
           c == consent[job[i].project]
<1>1. /\ pc[i] = "run" /\ job[i].at \in {KERNEL_PLAN, HOST_PLAN}
      /\ Pass(i, s, j) /\ UNCHANGED consent
  BY DEF MakePlan, At, PlanStage, history
<1>2. /\ DOMAIN s = FileFields /\ DOMAIN s.plan = Phase /\ s.inputs = File(i).inputs
      /\ s.group = File(i).group
      /\ job[i].at = KERNEL_PLAN => s.plan["host"] = File(i).plan["host"]
      /\ job[i].at = HOST_PLAN => s.plan["kernel"] = File(i).plan["kernel"]
  BY <1>1, Known DEF FileFields, Phase, PhaseOf
<1>3. /\ DOMAIN j = JobFields /\ DOMAIN j.plan = Phase /\ j.project = job[i].project
      /\ j.at = job[i].at /\ j.tool = job[i].tool /\ j.inputs = job[i].inputs
  BY <1>1, Known DEF Shaped, JobFields
<1> HIDE DEF s, j
<1>4. /\ job[i].at = KERNEL_PLAN => ~Done(File(i), KERNEL_CONFIRM) /\ ~Done(File(i), HOST_CONFIRM)
      /\ job[i].at = HOST_PLAN => ~Done(File(i), HOST_CONFIRM)
  BY <1>1, Known DEF GoodRun, GoodFile, Admitted
<1>5. Work(File(i), c, s, c, j)
  BY <1>1, <1>2, <1>3, <1>4, Known DEF Work, GoodFile, ConfirmStage
<1>6. Shaped(j) /\ DOMAIN consent' = Project /\ consent'[job[i].project] = c
  BY <1>1, <1>3, Known DEF Shaped
<1> QED BY <1>1, <1>3, <1>5, <1>6, Passes

\* What is confirmed is the plan of the file, and the group if it is wanted.
LEMMA ConfirmInv ==
  ASSUME Inv, NEW i \in Installer, Confirm(i)
  PROVE  Inv'
<1> DEFINE f == PhaseOf(job[i].at)
           q == job[i].project
           j == [job[i] EXCEPT !.plan = [@ EXCEPT ![f] = Resolved(job[i])]]
           S(g) == IF job[i].at = HOST_CONFIRM THEN [File(i) EXCEPT !.group = g] ELSE File(i)
           D(g) == [ops |-> [consent[q].ops EXCEPT ![f] = Resolved(job[i]) \union GroupOp(g)],
                    tool |-> job[i].tool]
<1>1. /\ pc[i] = "run" /\ job[i].at \in {KERNEL_CONFIRM, HOST_CONFIRM}
      /\ Resolved(job[i]) = File(i).plan[f]
  BY DEF Confirm, At, ConfirmStage, SamePlan
<1>2. PICK g : /\ job[i].at = KERNEL_CONFIRM => g = FALSE
               /\ Pass(i, S(g), j) /\ consent' = [consent EXCEPT ![q] = D(g)]
  <2> DEFINE answers == IF job[i].at = KERNEL_CONFIRM THEN {FALSE}
                        ELSE IF job[i].opts.interactive THEN BOOLEAN ELSE {job[i].opts.group}
  <2>1. \E g \in answers : Pass(i, S(g), j) /\ consent' = [consent EXCEPT ![q] = D(g)]
    BY DEF Confirm, GroupOp
  <2>2. \A g \in answers : job[i].at = KERNEL_CONFIRM => g = FALSE
    OBVIOUS
  <2> HIDE DEF answers, S, D, j, q
  <2> QED BY <2>1, <2>2
<1>3. /\ DOMAIN S(g) = FileFields /\ S(g).plan = File(i).plan /\ S(g).inputs = File(i).inputs
      /\ job[i].at = HOST_CONFIRM => S(g).group = g
      /\ job[i].at = KERNEL_CONFIRM => S(g).group = File(i).group
  BY <1>1, Known DEF FileFields
<1>4. /\ DOMAIN j = JobFields /\ DOMAIN j.plan = Phase /\ j.project = q
      /\ j.at = job[i].at /\ j.tool = job[i].tool /\ j.inputs = job[i].inputs
  BY <1>1, Known DEF Shaped, JobFields
<1>5. /\ q \in Project /\ DOMAIN consent = Project
      /\ DOMAIN consent[q] = {"ops", "tool"} /\ DOMAIN consent[q].ops = Phase
  BY <1>1, Known DEF GoodFile
<1>6. /\ DOMAIN D(g) = {"ops", "tool"} /\ DOMAIN D(g).ops = Phase /\ D(g).tool = job[i].tool
      /\ job[i].at = KERNEL_CONFIRM =>
           /\ D(g).ops["kernel"] = File(i).plan["kernel"]
           /\ D(g).ops["host"] = consent[q].ops["host"]
      /\ job[i].at = HOST_CONFIRM =>
           /\ D(g).ops["host"] = File(i).plan["host"] \union GroupOp(g)
           /\ D(g).ops["kernel"] = consent[q].ops["kernel"]
  <2>1. job[i].at = KERNEL_CONFIRM => f = "kernel" /\ GroupOp(g) = {}
    BY <1>2 DEF PhaseOf, GroupOp
  <2>2. job[i].at = HOST_CONFIRM => f = "host"
    BY DEF PhaseOf
  <2> QED BY <1>1, <1>5, <2>1, <2>2 DEF Phase
<1>7. DOMAIN consent' = Project /\ consent'[q] = D(g)
      /\ \A p \in Project : p # q => consent'[p] = consent[p]
  <2> HIDE DEF D, q
  <2> QED BY <1>2, <1>5
<1> HIDE DEF S, D, j
<1>8. Work(File(i), consent[q], S(g), D(g), j)
  <2>1. job[i].at = KERNEL_CONFIRM => ~Done(File(i), HOST_CONFIRM)
    BY <1>1, Known DEF GoodRun, GoodFile, Admitted
  <2> QED BY <1>1, <1>3, <1>4, <1>6, <2>1, Known DEF Work, GoodFile, ConfirmStage
<1>9. Shaped(j) /\ File(i) = state[q]
  BY <1>1, <1>4, Known DEF Shaped
<1> QED BY <1>1, <1>2, <1>4, <1>7, <1>8, <1>9, Passes

\* What is going to be executed is the recorded plan: the digests agree.
LEMMA ApplyInv ==
  ASSUME Inv, NEW i \in Installer, Apply(i)
  PROVE  Inv'
<1> DEFINE f == PhaseOf(job[i].at)
           j == [[job[i] EXCEPT !.left = ToExecute(i)]
                   EXCEPT !.plan = [@ EXCEPT ![f] = Resolved(job[i])]]
<1>1. /\ pc[i] = "run" /\ job[i].at \in ApplyStage
      /\ Resolved(job[i]) = File(i).plan[f]
      /\ AsRoot \/ PlanOf(f) = File(i).plan[f]
      /\ job' = [job EXCEPT ![i] = j] /\ pc' = [pc EXCEPT ![i] = "apply"]
      /\ UNCHANGED <<state, consent, lock>>
  BY DEF Apply, At, SamePlan, Authorized, disk, history
<1>2. ToExecute(i) \subseteq File(i).plan[f] \union GroupOp(job[i].at = HOST_APPLY /\ File(i).group)
  BY <1>1 DEF ToExecute, GroupOp
<1>3. /\ DOMAIN j = JobFields /\ DOMAIN j.plan = Phase /\ j.project = job[i].project
      /\ j.at = job[i].at /\ j.tool = job[i].tool /\ j.left = ToExecute(i)
  BY <1>1, Known DEF Shaped, JobFields
<1> HIDE DEF j
<1>4. Shaped(j)
  BY <1>3 DEF Shaped
<1>5. GoodRun("apply", j, File(i))
  BY <1>1, <1>2, <1>3, Known DEF GoodRun
<1>6. /\ DOMAIN pc' = Installer /\ DOMAIN job' = Installer
      /\ job'[i] = j /\ pc'[i] = "apply" /\ lock' = i
      /\ \A k \in Installer : k # i => pc'[k] = pc[k] /\ job'[k] = job[k]
  BY <1>1, Known
<1> QED BY <1>1, <1>3, <1>4, <1>5, <1>6, Known, OnlyOne

\* Every operation leaves fewer to execute.
LEMMA ExecuteInv ==
  ASSUME Inv, NEW i \in Installer, ExecuteNext(i)
  PROVE  Inv'
<1>1. PICK o \in job[i].left : Execute(i, o)
  BY DEF ExecuteNext
<1> DEFINE j == [job[i] EXCEPT !.left = @ \ {o}]
<1>2. /\ pc[i] = "apply" /\ job' = [job EXCEPT ![i] = j]
      /\ UNCHANGED <<state, consent, lock, pc>>
  BY <1>1 DEF Execute, disk
<1>3. /\ DOMAIN j = JobFields /\ j.plan = job[i].plan /\ j.project = job[i].project
      /\ j.at = job[i].at /\ j.tool = job[i].tool /\ j.left \subseteq job[i].left
  BY <1>2, Known DEF Shaped, JobFields
<1> HIDE DEF j
<1>4. Shaped(j)
  BY <1>2, <1>3, Known DEF Shaped
<1>5. GoodRun("apply", j, File(i))
  BY <1>2, <1>3, Known DEF GoodRun
<1>6. /\ DOMAIN job' = Installer /\ job'[i] = j
      /\ \A k \in Installer : k # i => job'[k] = job[k]
  BY <1>2, Known
<1> QED BY <1>2, <1>3, <1>4, <1>5, <1>6, Known, OnlyOne

\* A run that ends has written nothing more; a reboot ends all of them.
LEMMA StopsInv ==
  ASSUME Inv, NEW i \in Installer,
         \/ Refuse(i) \/ PlanChanged(i) \/ Unconfirmed(i) \/ HelperRefuses(i)
         \/ ReleaseChanged(i) \/ ConfigRefused(i) \/ Leave(i)
  PROVE  Inv'
<1>1. pc[i] # "idle" /\ Stop(i) /\ UNCHANGED <<state, consent>>
  BY DEF Refuse, PlanChanged, Unconfirmed, HelperRefuses, ReleaseChanged, ConfigRefused,
         Leave, At, disk, history
<1> QED BY <1>1, Ends

LEMMA RebootInv ==
  ASSUME Inv, NEW k, NEW ok, Reboot(k, ok)
  PROVE  Inv'
<1>1. /\ pc' = [i \in Installer |-> "idle"] /\ job' = [i \in Installer |-> NoJob]
      /\ UNCHANGED <<state, consent>>
  BY DEF Reboot, disk, history
<1>2. Domains'
  BY <1>1 DEF Inv, Domains, NoJob, NoPlans, Shaped, JobFields
<1>3. \A p \in Project : GoodFile(state[p], consent[p])'
  BY <1>1 DEF Inv
<1> QED BY <1>1, <1>2, <1>3 DEF Inv

LEMMA FrameInv ==
  ASSUME Inv, UNCHANGED <<state, consent, lock, pc, job>>
  PROVE  Inv'
<1>1. \A i \in Installer : pc'[i] # "idle" => Running(i)'
  BY DEF Inv, Running
<1> QED BY <1>1 DEF Inv, Domains

LEMMA StepInv ==
  ASSUME Inv, NEW i \in Installer, Step(i)
  PROVE  Inv'
<1>1. CASE Skip(i) \/ Begin(i) \/ Verify(i) \/ Blocked(i) \/ Simple(i)
  BY <1>1, SkipInv, BeginInv, VerifyInv, BlockedInv, SimpleInv
<1>2. CASE MakePlan(i) \/ Confirm(i) \/ Apply(i) \/ ExecuteNext(i) \/ Applied(i)
  BY <1>2, MakePlanInv, ConfirmInv, ApplyInv, ExecuteInv, AppliedInv
<1>3. CASE RebootPending(i) \/ ResolveRelease(i) \/ AcquireImages(i) \/ InitProject(i)
  BY <1>3, RebootPendingInv, ResolveReleaseInv, AcquireImagesInv, InitProjectInv
<1>4. CASE \/ Refuse(i) \/ PlanChanged(i) \/ Unconfirmed(i) \/ HelperRefuses(i)
           \/ ReleaseChanged(i) \/ ConfigRefused(i)
  BY <1>4, StopsInv
<1>5. CASE CreateConfig(i)
  BY <1>5, FrameInv DEF CreateConfig, history
<1> QED BY <1>1, <1>2, <1>3, <1>4, <1>5 DEF Step

LEMMA NextInv == Inv /\ [Next]_vars => Inv'
<1> SUFFICES ASSUME Inv, [Next]_vars PROVE Inv'
  OBVIOUS
<1>1. CASE \E i \in Installer, p \in Project : Start(i, p)
  BY <1>1, StartInv
<1>2. CASE \E i \in Installer : Step(i)
  BY <1>2, StepInv
<1>3. CASE \E i \in Installer : Leave(i)
  BY <1>3, StopsInv
<1>4. CASE Outside
  <2>1. CASE \E k \in Kernel, ok \in BOOLEAN : Reboot(k, ok)
    BY <2>1, RebootInv
  <2>2. CASE DriftHost \/ KernelPatch \/ Update \/ \E p \in Project : EditConfig(p)
    BY <2>2, FrameInv DEF DriftHost, KernelPatch, Update, EditConfig, disk, history
  <2> QED BY <1>4, <2>1, <2>2 DEF Outside
<1>5. CASE UNCHANGED vars
  BY <1>5, FrameInv DEF vars, disk, history
<1> QED BY <1>1, <1>2, <1>3, <1>4, <1>5 DEF Next

\* The invariant above holds in every state of every behaviour.
THEOREM Invariance == Spec => []Inv
<1> QED BY InitInv, NextInv, PTL DEF Spec

-----------------------------------------------------------------------------
(* The properties.                                                         *)

LEMMA InvOneRun == Inv => OneRun
  BY DEF Inv, Running, OneRun

LEMMA InvOnlyConfirmed == Inv => OnlyConfirmedChanges
<1> SUFFICES ASSUME Inv, NEW i \in Installer, pc[i] = "apply"
             PROVE  job[i].left \subseteq consent[job[i].project].ops[PhaseOf(job[i].at)]
  BY DEF OnlyConfirmedChanges
<1>1. /\ job[i].at \in {KERNEL_APPLY, HOST_APPLY}
      /\ \A a \in Stage : a < job[i].at => Done(File(i), a)
      /\ job[i].left \subseteq File(i).plan[PhaseOf(job[i].at)] \union
                                 GroupOp(job[i].at = HOST_APPLY /\ File(i).group)
  BY Known DEF GoodRun, ApplyStage
<1>2. CASE job[i].at = KERNEL_APPLY
  <2>1. PhaseOf(job[i].at) = "kernel" /\ Done(File(i), KERNEL_CONFIRM)
    BY <1>1, <1>2 DEF PhaseOf
  <2> QED BY <1>1, <1>2, <2>1, Known DEF GoodFile, GroupOp
<1>3. CASE job[i].at = HOST_APPLY
  <2>1. PhaseOf(job[i].at) = "host" /\ Done(File(i), HOST_CONFIRM)
    BY <1>1, <1>3 DEF PhaseOf
  <2> QED BY <1>1, <1>3, <2>1, Known DEF GoodFile, GroupOp
<1> QED BY <1>1, <1>2, <1>3

LEMMA InvSameVersion == Inv => AppliedByConfirmingVersion
<1> SUFFICES ASSUME Inv, NEW i \in Installer, pc[i] = "apply"
             PROVE  consent[job[i].project].tool = job[i].tool
  BY DEF AppliedByConfirmingVersion
<1>1. job[i].at \in {KERNEL_APPLY, HOST_APPLY} /\ ~Done(File(i), job[i].at)
      /\ \A a \in Stage : a < job[i].at => Done(File(i), a)
  BY Known DEF GoodRun, ApplyStage
<1>2. Done(File(i), KERNEL_CONFIRM) /\ ~Done(File(i), HOST_APPLY)
  BY <1>1, Known DEF GoodFile, Admitted
<1>3. /\ File(i).inputs[BOOTSTRAP] = <<consent[job[i].project].tool>>
      /\ File(i).inputs[BOOTSTRAP] = <<job[i].tool>>
  BY <1>1, <1>2, Known DEF GoodFile, GoodRun
<1> QED BY <1>3

\* A step after which a run is changing the host has not written the file.
LEMMA ApplyingWritesNothing ==
  ASSUME NEW i \in Installer, DOMAIN pc = Installer, Step(i), pc'[i] = "apply"
  PROVE  UNCHANGED state
<1>1. Stop(i) => pc'[i] = "idle"
  BY DEF Stop
<1>2. \A j : NextStage(i, j) => pc'[i] # "apply"
  BY DEF NextStage, Stop
<1>3. \A s, j : Pass(i, s, j) => pc'[i] # "apply"
  BY <1>2 DEF Pass
<1>4. CASE Skip(i) \/ Begin(i) \/ Apply(i) \/ ExecuteNext(i) \/ CreateConfig(i)
  BY <1>4 DEF Skip, Begin, Apply, ExecuteNext, Execute, CreateConfig, disk
<1>5. CASE \/ Refuse(i) \/ Blocked(i) \/ PlanChanged(i) \/ Unconfirmed(i) \/ HelperRefuses(i)
           \/ ReleaseChanged(i) \/ ConfigRefused(i)
  BY <1>1, <1>5 DEF Refuse, Blocked, PlanChanged, Unconfirmed, HelperRefuses, ReleaseChanged,
                    ConfigRefused
<1>6. CASE Verify(i)
  BY <1>2, <1>6 DEF Verify
<1>7. CASE Simple(i) \/ MakePlan(i) \/ ResolveRelease(i) \/ InitProject(i) \/ Applied(i)
  BY <1>3, <1>7 DEF Simple, MakePlan, ResolveRelease, InitProject, Applied
<1>8. CASE Confirm(i)
  BY <1>3, <1>8 DEF Confirm
<1>9. CASE RebootPending(i) \/ AcquireImages(i)
  BY <1>1, <1>3, <1>9 DEF RebootPending, AcquireImages
<1> QED BY <1>4, <1>5, <1>6, <1>7, <1>8, <1>9 DEF Step

LEMMA StepNotReplayed ==
  Inv /\ Inv' /\ [Next]_vars =>
    \A i \in Installer : pc'[i] = "apply" => ~Done(state[job'[i].project], job'[i].at)
<1> SUFFICES ASSUME Inv, Inv', [Next]_vars, NEW i \in Installer, pc'[i] = "apply"
             PROVE  ~Done(state[job'[i].project], job'[i].at)
  OBVIOUS
<1>1. ~Done(state'[job'[i].project], job'[i].at)
  BY DEF Inv, Running, GoodRun
<1>2. UNCHANGED state
  <2>1. CASE \E k \in Installer, p \in Project : Start(k, p)
    <3>1. PICK k \in Installer, p \in Project : Start(k, p)
      BY <2>1
    <3>2. lock = None /\ pc' = [pc EXCEPT ![k] = "stage"] /\ pc[i] = "apply"
      BY <3>1 DEF Start, InstallLock, Inv, Domains
    <3> QED BY <3>2, InstallerAssumption DEF Inv, Running
  <2>2. CASE \E k \in Installer : Step(k)
    <3>1. PICK k \in Installer : Step(k)
      BY <2>2
    <3>2. pc[k] # "idle" /\ (k # i => pc'[i] = pc[i])
      BY <3>1, Known DEF Step, Skip, Refuse, Begin, Verify, Verifying, Blocked, Simple, MakePlan, PlanChanged,
         Confirm, Unconfirmed, HelperRefuses, Apply, ExecuteNext, Execute, Applied,
         RebootPending, ResolveRelease, ReleaseChanged, AcquireImages, CreateConfig,
         InitProject, ConfigRefused, At, Pass, NextStage, Stop
    <3>3. k = i
      BY <3>2 DEF Inv, Running
    <3> QED BY <3>1, <3>3, ApplyingWritesNothing DEF Inv, Domains
  <2>3. CASE (\E k \in Installer : Leave(k)) \/ Outside \/ UNCHANGED vars
    BY <2>3 DEF Leave, Outside, Reboot, DriftHost, KernelPatch, Update, EditConfig, vars, disk
  <2> QED BY <2>1, <2>2, <2>3 DEF Next
<1> QED BY <1>1, <1>2

LEMMA InvAdmitted == Inv => StateAdmitted
  BY DEF Inv, GoodFile, StateAdmitted

\* What is recorded in the file s is recorded in t.
Kept(s, t) ==
  \A at \in Stage :
    Done(s, at) /\ (at = BOOTSTRAP => t.tool = s.tool) =>
      Done(t, at) /\ t.inputs[at] = s.inputs[at]

\* A stage that is done was not done before: its record is a new one.
LEMMA PassKeeps ==
  ASSUME Inv, NEW i \in Installer, pc[i] \in {"run", "apply"}, NEW s, NEW j, Pass(i, s, j),
         DOMAIN s = FileFields, s.inputs = File(i).inputs, j.at = job[i].at
  PROVE  \A p \in Project : Kept(state[p], state'[p])
<1>1. /\ job[i].project \in Project /\ File(i) = state[job[i].project]
      /\ ~Done(File(i), j.at) /\ DOMAIN state = Project
  BY Known DEF GoodRun
<1> DEFINE n == Checkpoint(s, j)
<1>2. n.inputs = Recorded(s.inputs, j)
  BY DEF Checkpoint, FileFields
<1>3. Kept(File(i), n)
  BY <1>1, <1>2 DEF Kept, Done, Recorded
<1>4. /\ state'[job[i].project] = n
      /\ \A p \in Project : p # job[i].project => state'[p] = state[p]
  BY <1>1 DEF Pass, Save
<1> HIDE DEF n
<1>5. \A p \in Project : Kept(state[p], state[p])
  BY DEF Kept
<1> QED BY <1>1, <1>3, <1>4, <1>5

LEMMA StartKeeps ==
  ASSUME Inv, NEW i \in Installer, NEW q \in Project, Start(i, q)
  PROVE  \A p \in Project : Kept(state[p], state'[p])
<1> DEFINE t == Adopted(state[q])
<1>1. DOMAIN state = Project /\ DOMAIN state[q] = FileFields
  BY DEF Inv, Domains, GoodFile
<1>2. /\ state'[q] = t /\ \A p \in Project : p # q => state'[p] = state[p]
  <2>1. state' = [state EXCEPT ![q] = t]
    BY DEF Start
  <2> HIDE DEF t
  <2> QED BY <1>1, <2>1
<1>3. Kept(state[q], t)
  BY <1>1 DEF Kept, Adopted, Done, FileFields
<1> HIDE DEF t
<1>4. \A p \in Project : Kept(state[p], state[p])
  BY DEF Kept
<1> QED BY <1>2, <1>3, <1>4

LEMMA VerifyKeeps ==
  ASSUME Inv, NEW i \in Installer, Verify(i) \/ Blocked(i)
  PROVE  \A p \in Project : Kept(state[p], state'[p])
<1>1. PICK verdict \in {"pass", "blocked"} :
        \/ Pass(i, Report(i, verdict), job[i]) /\ pc[i] = "run"
        \/ Save(i, Report(i, verdict))
  BY DEF Verify, Blocked, Pass
<1>2. pc[i] # "idle"
  BY DEF Verify, Blocked, Verifying, At
<1> DEFINE s == Report(i, verdict)
<1>3. DOMAIN s = FileFields /\ s.inputs = File(i).inputs
  BY <1>2, ReportKeeps
<1>4. CASE Pass(i, s, job[i]) /\ pc[i] = "run"
  <2> HIDE DEF s
  <2> QED BY <1>3, <1>4, PassKeeps
<1>5. CASE Save(i, s)
  <2>1. /\ job[i].project \in Project /\ File(i) = state[job[i].project]
        /\ DOMAIN state = Project
    BY <1>2, Known
  <2> HIDE DEF s
  <2>2. /\ state'[job[i].project] = s
        /\ \A p \in Project : p # job[i].project => state'[p] = state[p]
    BY <1>5, <2>1 DEF Save
  <2> QED BY <1>3, <2>1, <2>2 DEF Kept, Done
<1> QED BY <1>1, <1>4, <1>5

LEMMA StepKeeps ==
  ASSUME Inv, NEW i \in Installer, Step(i)
  PROVE  \A p \in Project : Kept(state[p], state'[p])
<1>1. UNCHANGED state => \A p \in Project : Kept(state[p], state'[p])
  BY DEF Kept
<1>2. CASE \/ Skip(i) \/ Refuse(i) \/ Begin(i) \/ PlanChanged(i) \/ Unconfirmed(i)
           \/ HelperRefuses(i) \/ Apply(i) \/ ExecuteNext(i) \/ ReleaseChanged(i)
           \/ CreateConfig(i) \/ ConfigRefused(i)
  BY <1>1, <1>2 DEF Skip, Refuse, Begin, PlanChanged, Unconfirmed, HelperRefuses, Apply,
                    ExecuteNext, Execute, ReleaseChanged, CreateConfig, ConfigRefused, disk
<1>3. CASE Verify(i) \/ Blocked(i)
  BY <1>3, VerifyKeeps
<1>4. ASSUME NEW s, NEW j, Pass(i, s, j), pc[i] \in {"run", "apply"}, j.at = job[i].at,
             DOMAIN s = FileFields, s.inputs = File(i).inputs
      PROVE  \A p \in Project : Kept(state[p], state'[p])
  BY <1>4, PassKeeps
<1>5. CASE Simple(i)
  <2>1. PICK s : /\ Pass(i, s, job[i]) /\ pc[i] = "run"
                 /\ s = File(i) \/ s = [File(i) EXCEPT !.tool = job[i].tool]
    BY <1>5 DEF Simple, At
  <2>2. DOMAIN s = FileFields /\ s.inputs = File(i).inputs
    BY <2>1, Known DEF FileFields
  <2> QED BY <1>4, <2>1, <2>2
<1>6. CASE MakePlan(i)
  <2> DEFINE f == PhaseOf(job[i].at)
             s == [File(i) EXCEPT !.plan = [@ EXCEPT ![f] = PlanOf(f)]]
             j == [job[i] EXCEPT !.plan = [@ EXCEPT ![f] = PlanOf(f)]]
  <2>1. Pass(i, s, j) /\ pc[i] = "run"
    BY <1>6 DEF MakePlan, At
  <2>2. /\ DOMAIN s = FileFields /\ s.inputs = File(i).inputs /\ j.at = job[i].at
    BY <2>1, Known DEF FileFields, Shaped, JobFields
  <2> HIDE DEF s, j
  <2> QED BY <1>4, <2>1, <2>2
<1>7. CASE Confirm(i)
  <2> DEFINE f == PhaseOf(job[i].at)
             S(g) == IF job[i].at = HOST_CONFIRM THEN [File(i) EXCEPT !.group = g] ELSE File(i)
             j == [job[i] EXCEPT !.plan = [@ EXCEPT ![f] = Resolved(job[i])]]
  <2>1. pc[i] = "run" /\ \E g : Pass(i, S(g), j)
    BY <1>7 DEF Confirm, At
  <2>2. PICK g : Pass(i, S(g), j)
    BY <2>1
  <2>3. /\ DOMAIN S(g) = FileFields /\ S(g).inputs = File(i).inputs /\ j.at = job[i].at
    BY <2>1, Known DEF FileFields, Shaped, JobFields
  <2> HIDE DEF S, j
  <2> QED BY <1>4, <2>1, <2>2, <2>3
<1>8. CASE Applied(i)
  <2>1. PICK s : /\ Pass(i, s, job[i]) /\ pc[i] = "apply"
                 /\ s = File(i) \/ s = [File(i) EXCEPT !.kboot = RebootBootId(job[i])]
    BY <1>8 DEF Applied
  <2>2. DOMAIN s = FileFields /\ s.inputs = File(i).inputs
    BY <2>1, Known DEF FileFields
  <2> QED BY <1>4, <2>1, <2>2
<1>9. CASE RebootPending(i) \/ InitProject(i)
  <2>1. pc[i] = "run" /\ (UNCHANGED state \/ Pass(i, File(i), job[i]))
    BY <1>9 DEF RebootPending, InitProject, At
  <2>2. DOMAIN File(i) = FileFields
    BY <2>1, Known
  <2> QED BY <1>1, <1>4, <2>1, <2>2
<1>10. CASE ResolveRelease(i)
  <2> DEFINE s == [[File(i) EXCEPT !.release = manifest] EXCEPT !.image = manifest]
             j == [job[i] EXCEPT !.release = manifest]
  <2>1. Pass(i, s, j) /\ pc[i] = "run"
    BY <1>10 DEF ResolveRelease, At
  <2>2. DOMAIN s = FileFields /\ s.inputs = File(i).inputs /\ j.at = job[i].at
    BY <2>1, Known DEF FileFields, Shaped, JobFields
  <2> HIDE DEF s, j
  <2> QED BY <1>4, <2>1, <2>2
<1>11. CASE AcquireImages(i)
  <2>1. PICK s : /\ Pass(i, s, job[i]) /\ pc[i] = "run"
                 /\ \/ s = [File(i) EXCEPT !.image = ResolvedRelease(job[i])]
                    \/ s = [[File(i) EXCEPT !.image = "local"] EXCEPT !.release = "local"]
    BY <1>11 DEF AcquireImages, At
  <2>2. DOMAIN s = FileFields /\ s.inputs = File(i).inputs
    BY <2>1, Known DEF FileFields
  <2> QED BY <1>4, <2>1, <2>2
<1> QED BY <1>2, <1>3, <1>5, <1>6, <1>7, <1>8, <1>9, <1>10, <1>11 DEF Step

LEMMA NextKeeps ==
  Inv /\ [Next]_vars => \A p \in Project : Kept(state[p], state'[p])
<1> SUFFICES ASSUME Inv, [Next]_vars PROVE \A p \in Project : Kept(state[p], state'[p])
  OBVIOUS
<1>1. CASE \E i \in Installer, p \in Project : Start(i, p)
  BY <1>1, StartKeeps
<1>2. CASE \E i \in Installer : Step(i)
  BY <1>2, StepKeeps
<1>3. CASE (\E i \in Installer : Leave(i)) \/ Outside \/ UNCHANGED vars
  <2>1. UNCHANGED state
    BY <1>3 DEF Leave, Outside, Reboot, DriftHost, KernelPatch, Update, EditConfig, vars, disk
  <2> QED BY <2>1 DEF Kept
<1> QED BY <1>1, <1>2, <1>3 DEF Next

\* At most one run of a user is under way, for any number of processes and
\* projects: the coordination lock is held from the start to the end of a run.
THEOREM OneRunAtATime == Spec => []OneRun
<1> QED BY Invariance, InvOneRun, PTL

\* No operation is executed that the operator has not confirmed for this
\* project, whatever drifts, ends or restarts in between.
THEOREM NothingUnconfirmed == Spec => []OnlyConfirmedChanges
<1> QED BY Invariance, InvOnlyConfirmed, PTL

\* A plan is executed by the toolkit version that had it confirmed.
THEOREM SameVersion == Spec => []AppliedByConfirmingVersion
<1> QED BY Invariance, InvSameVersion, PTL

\* Wherever a run ends, the next one accepts the state file.
THEOREM FilesAdmitted == Spec => []StateAdmitted
<1> QED BY Invariance, InvAdmitted, PTL

\* A completed stage stays completed, with the inputs it had.
THEOREM CompletedForGood == Spec => CheckpointsKept
<1>1. Inv /\ [Next]_vars =>
        [\A p \in Project, at \in Stage :
           Done(state[p], at) /\ (at = BOOTSTRAP => state'[p].tool = state[p].tool)
             => Done(state'[p], at) /\ state'[p].inputs[at] = state[p].inputs[at]]_vars
  BY NextKeeps DEF Kept
<1> QED BY <1>1, Invariance, PTL DEF Spec, CheckpointsKept

\* A plan whose stage is complete is never executed again for its project.
THEOREM NoReplay == Spec => NotReplayed
<1>1. Inv /\ Inv' /\ [Next]_vars =>
        [\A i \in Installer :
           pc'[i] = "apply" => ~Done(state[job'[i].project], job'[i].at)]_vars
  BY StepNotReplayed
<1> QED BY <1>1, Invariance, PTL DEF Spec, NotReplayed

=============================================================================
