-------------------------- MODULE InstallerWorkflow --------------------------
(***************************************************************************)
(* The full installation of strix-halo-rocm: seventeen stages, a state     *)
(* file per project that records the digest of the inputs of each          *)
(* completed stage, and a host that changes between runs.                  *)
(*                                                                         *)
(* A run (installer/workflow.py) holds the coordination lock, walks the    *)
(* stages in order, accepts a completed one only when its recomputed       *)
(* inputs have the recorded digest, and saves after each stage it          *)
(* completes.  Host changes are planned, shown, confirmed, and applied by  *)
(* a privileged helper that plans again and compares.  A run may end at    *)
(* any step: an error, Ctrl-C, a kill, a refused confirmation, a reboot.   *)
(* The operator runs the command again.                                    *)
(***************************************************************************)
EXTENDS Naturals, FiniteSets

CONSTANTS
  Installer,    \* processes that run the install command
  AsRoot,       \* whether root runs it, and applies without the helper
  Project,      \* project directories, each with its state file
  None,         \* nothing recorded, no process
  Terminal,     \* whether a run may be interactive, a set of Booleans
  Source,       \* --image-source: a subset of {"pull", "build"}
  InitialTodo,  \* what the host needs before the first run
  Existing,     \* images of project configs there may already be, or None
  MaxExits,     \* bound: early ends, refusals, unasked reboots
  MaxDrifts     \* bound: changes made from outside

\* FULL_STAGE_ORDER: a stage is its position.
BOOTSTRAP == 1
HOST_PREFLIGHT == 2
KERNEL_PLAN == 3
KERNEL_CONFIRM == 4
KERNEL_APPLY == 5
KERNEL_REBOOT_PENDING == 6
KERNEL_VERIFY == 7
HOST_PLAN == 8
HOST_CONFIRM == 9
HOST_APPLY == 10
HOST_VERIFY == 11
RELEASE_RESOLVE == 12
IMAGE_PULL_OR_BUILD == 13
IMAGE_VERIFY == 14
PROJECT_INIT == 15
PROJECT_VERIFY == 16
COMPLETE == 17
Stage == BOOTSTRAP..COMPLETE

PlanStage == {KERNEL_PLAN, HOST_PLAN}
ConfirmStage == {KERNEL_CONFIRM, HOST_CONFIRM}
ApplyStage == {KERNEL_APPLY, HOST_APPLY}
VerifyStage == {KERNEL_VERIFY, HOST_VERIFY}
MutGuardStage == {HOST_VERIFY}   \* mutant
GuardStage == {KERNEL_VERIFY, HOST_VERIFY}   \* run again when complete

\* What a host may need, in the order in which a plan does it: disable the old
\* ROCm sources, remove the old packages with amdgpu-dkms, install the OEM
\* kernel; install Docker, add the user to its group, to the device groups.
KernelOp == {"sources", "dkms", "oem"}
HostOp == {"docker", "group", "devices"}
Op == KernelOp \union HostOp
Rank == [o \in Op |->
  CASE o = "sources" -> 1 [] o = "dkms" -> 2 [] o = "oem" -> 3
    [] o = "docker" -> 4 [] o = "group" -> 5 [] OTHER -> 6]

\* Too old or not an OEM kernel; a tested OEM kernel; a later patch of it.
Kernel == {"stock", "oem", "oem-next"}

Phase == {"kernel", "host"}
PhaseOf(at) == IF at <= KERNEL_VERIFY THEN "kernel" ELSE "host"

Version == {"old", "new"}   \* of the toolkit, of the release in its manifest
Image == Version \union {"local"}

ASSUME InstallerAssumption ==
  /\ None \notin Installer \union Project \union Image \union Kernel
  /\ \A plan \in SUBSET Op : plan # None
  /\ AsRoot \in BOOLEAN /\ Terminal \subseteq BOOLEAN
  /\ Source \subseteq {"pull", "build"}
  /\ InitialTodo \subseteq Op \ {"oem", "group"}
  /\ Existing \subseteq {None} \union Image
  /\ MaxExits \in Nat /\ MaxDrifts \in Nat

VARIABLES
  state,      \* the state file of each project
  config,     \* amd-ai-project.toml of each project
  todo,       \* what the host needs, apart from a kernel and a group
  installed,  \* kernels on disk
  running, healthy, boot,  \* the kernel, its log and display, the boot id
  tool, manifest,          \* the checkout: toolkit version, stable.json
  lock,       \* holder of the coordination lock
  pc, job,    \* each process: its next step and what it carries
  consent,    \* history: operations confirmed, and by which version
  changed,    \* history: boot of the last kernel operation of each project
  exits, drifts

host == <<todo, installed, running, healthy, boot>>
checkout == <<tool, manifest>>
history == <<consent, changed>>
disk == <<state, config>>
budget == <<exits, drifts>>
vars == <<disk, host, checkout, lock, pc, job, history, budget>>

-----------------------------------------------------------------------------
(* What the steps compute from the host, the state file and the options.  *)

NoPlans == [f \in Phase |-> None]

\* A state file that does not exist yet is a new one: nothing reads its tool
\* before BOOTSTRAP writes it.
NewState ==
  [tool |-> "old", inputs |-> <<>>, current |-> BOOTSTRAP,
   plan |-> NoPlans, kboot |-> None, kstatus |-> None, kkernel |-> None,
   group |-> FALSE, release |-> None, image |-> None]

NoJob ==
  [project |-> None, tool |-> None, opts |-> None, at |-> BOOTSTRAP, inputs |-> None,
   plan |-> NoPlans, release |-> None, left |-> {}]

\* A run without a terminal names the plans it accepts and answers the group
\* question in advance; the digests are those an earlier run has printed.
Options(p) ==
  {o \in [interactive : Terminal, accept : {NoPlans, state[p].plan}, group : BOOLEAN,
          source : Source] :
     o.interactive => o.accept = NoPlans /\ ~o.group}

\* completed_stage_input_digests has an entry for each completed stage.
Done(s, at) == at \in DOMAIN s.inputs

\* Mutant: a stage depends on what it writes itself.
MutKernelInputs(at, s) == <<s.plan["kernel"], s.kboot>>

\* The boot id is what KERNEL_APPLY adds to the state: not one of its inputs.
KernelInputs(at, s) ==
  IF at = KERNEL_APPLY THEN <<s.plan["kernel"]>> ELSE <<s.plan["kernel"], s.kboot>>

\* What a stage depends on; the digest of these values is what is recorded.
\* The constant ones (users, paths, names, adapter, recovery kernel) are left out.
Inputs(j, s) ==
  LET at == j.at  o == j.opts
  IN CASE at = BOOTSTRAP -> <<j.tool>>
       [] at \in ConfirmStage ->
            <<s.plan[PhaseOf(at)], o.interactive, o.accept[PhaseOf(at)],
              at = HOST_CONFIRM /\ o.group>>
       [] at \in {KERNEL_APPLY, KERNEL_REBOOT_PENDING, KERNEL_VERIFY} -> KernelInputs(at, s)
       [] at = HOST_PLAN -> <<s.kstatus, s.kkernel>>
       [] at = HOST_APPLY -> <<s.plan["host"], s.group>>
       [] at = HOST_VERIFY -> <<s.plan["host"]>>
       [] at = RELEASE_RESOLVE -> <<manifest, s.plan["host"]>>
       [] at = IMAGE_PULL_OR_BUILD -> <<manifest, o.source>>
       [] at \in {IMAGE_VERIFY, PROJECT_INIT} -> <<s.image>>
       [] at \in {PROJECT_VERIFY, COMPLETE} -> <<config[j.project], s.image>>
       [] OTHER -> <<>>

\* create_kernel_prepare_plan, create_tuning_prepare_plan
PlanOf(f) ==
  IF f = "kernel"
  THEN (todo \intersect KernelOp) \union (IF running = "stock" THEN {"oem"} ELSE {})
  ELSE todo \intersect HostOp

RebootRequired(plan) == plan \intersect {"dkms", "oem"} # {}

\* The plan a run works with: the one it made, or a new one.
Resolved(j) ==
  LET f == PhaseOf(j.at) IN IF j.plan[f] = None THEN PlanOf(f) ELSE j.plan[f]

\* The release a run works with: the one it resolved, or the manifest's.
ResolvedRelease(j) == IF j.release = None THEN manifest ELSE j.release

KernelFine == running # "stock" /\ healthy
HostFine == KernelFine /\ "devices" \notin todo

Admitted(s) ==
  /\ \A a, b \in Stage : a < b /\ Done(s, b) => Done(s, a)
  /\ s.current = COMPLETE \/ ~Done(s, s.current)
  /\ \A at \in Stage : at < s.current => Done(s, at)

\* Mutant: an update is adopted at any stage.
MutCanAdopt(s) == TRUE

CanAdopt(s) == s.current >= HOST_VERIFY

\* After git pull: a run that only has to verify and to fetch goes on with the
\* new version, any other one stops at BOOTSTRAP.
Adopted(s) ==
  IF CanAdopt(s) /\ Done(s, BOOTSTRAP) /\ s.inputs[BOOTSTRAP] = <<s.tool>>
  THEN [s EXCEPT !.tool = tool, !.inputs[BOOTSTRAP] = <<tool>>]
  ELSE s

Init ==
  /\ state = [p \in Project |-> NewState]
  /\ config \in [Project -> {IF c = None THEN None ELSE [image |-> c, edited |-> FALSE] :
                              c \in Existing}]
  /\ todo = InitialTodo
  /\ running \in {"stock", "oem"} /\ installed = {running} /\ healthy = TRUE /\ boot = 1
  /\ tool = "old" /\ manifest = "old"
  /\ lock = None
  /\ pc = [i \in Installer |-> "idle"] /\ job = [i \in Installer |-> NoJob]
  /\ consent = [p \in Project |-> [ops |-> [f \in Phase |-> {}], tool |-> None]]
  /\ changed = [p \in Project |-> None]
  /\ exits = 0 /\ drifts = 0

-----------------------------------------------------------------------------
(* A run from its start to its end.  "stage": the next stage is to be looked *)
(* at.  "run": its inputs have been read, its action is under way.  "apply":  *)
(* the host is being changed.                                                *)

At(i, step, S) == pc[i] = step /\ job[i].at \in S
File(i) == state[job[i].project]

Stop(i) ==
  /\ pc' = [pc EXCEPT ![i] = "idle"] /\ job' = [job EXCEPT ![i] = NoJob]
  /\ lock' = None

\* Mutant: COMPLETE is not the last stage.
MutNextStage(i, j) ==
  /\ job' = [job EXCEPT ![i] = [j EXCEPT !.at = j.at + 1, !.inputs = None]]
  /\ pc' = [pc EXCEPT ![i] = "stage"]
  /\ UNCHANGED lock

NextStage(i, j) ==
  IF j.at = COMPLETE
  THEN Stop(i)
  ELSE /\ job' = [job EXCEPT ![i] = [j EXCEPT !.at = j.at + 1, !.inputs = None]]
       /\ pc' = [pc EXCEPT ![i] = "stage"]
       /\ UNCHANGED lock

Save(i, s) == state' = [state EXCEPT ![job[i].project] = s]

Recorded(inputs, j) ==
  [at \in DOMAIN inputs \union {j.at} |-> IF at = j.at THEN j.inputs ELSE inputs[at]]

\* Mutant: the current stage does not move.
MutCheckpoint(s, j) == [s EXCEPT !.inputs = Recorded(@, j)]

Checkpoint(s, j) ==
  [s EXCEPT !.inputs = Recorded(@, j),
            !.current = IF j.at = COMPLETE THEN COMPLETE ELSE j.at + 1]

\* The stage has done its work, s is what it adds to the state, j to the run.
Pass(i, s, j) == Save(i, Checkpoint(s, j)) /\ NextStage(i, j)

\* Mutant: the lock is opened and not taken.
MutInstallLock(i) == TRUE

\* The lock is asked for without waiting: a second run ends at once.
InstallLock(i) == lock = None

Start(i, p) ==
  /\ pc[i] = "idle" /\ InstallLock(i)
  /\ Admitted(Adopted(state[p]))
  /\ lock' = i
  /\ pc' = [pc EXCEPT ![i] = "stage"]
  /\ \E o \in Options(p) :
       job' = [job EXCEPT ![i] = [NoJob EXCEPT !.project = p, !.tool = tool, !.opts = o]]
  /\ state' = [state EXCEPT ![p] = Adopted(@)]
  /\ UNCHANGED <<config, host, checkout, history, budget>>

Unchanged(i) == Inputs(job[i], File(i)) = File(i).inputs[job[i].at]

Skip(i) ==
  /\ At(i, "stage", Stage \ GuardStage)
  /\ Done(File(i), job[i].at) /\ Unchanged(i)
  /\ NextStage(i, job[i])
  /\ UNCHANGED <<disk, host, checkout, history, budget>>

\* ResumeInputChanged
Refuse(i) ==
  /\ At(i, "stage", Stage)
  /\ Done(File(i), job[i].at) /\ ~Unchanged(i)
  /\ Stop(i)
  /\ UNCHANGED <<disk, host, checkout, history, budget>>

\* The space for the images is computed, and with it the release, before they
\* are acquired.
Cached(j) == IF j.at = IMAGE_PULL_OR_BUILD THEN ResolvedRelease(j) ELSE j.release

\* Mutant: a completed stage is begun again.
MutBegin(i) ==
  /\ At(i, "stage", Stage)
  /\ job' = [job EXCEPT ![i].inputs = Inputs(job[i], File(i)), ![i].release = Cached(job[i])]
  /\ pc' = [pc EXCEPT ![i] = "run"]
  /\ UNCHANGED <<disk, host, checkout, lock, history, budget>>

Begin(i) ==
  /\ At(i, "stage", Stage)
  /\ ~Done(File(i), job[i].at)
  /\ job' = [job EXCEPT ![i].inputs = Inputs(job[i], File(i)), ![i].release = Cached(job[i])]
  /\ pc' = [pc EXCEPT ![i] = "run"]
  /\ UNCHANGED <<disk, host, checkout, lock, history, budget>>

\* A completed verification is made again by every run.
Verifying(i) ==
  \/ At(i, "run", VerifyStage)
  \/ At(i, "stage", GuardStage) /\ Done(File(i), job[i].at) /\ Unchanged(i)

\* Mutant: a verification that fails is not complete any more.
MutReport(i, verdict) ==
  IF verdict = "blocked"
  THEN [File(i) EXCEPT !.inputs = [at \in DOMAIN @ \ {job[i].at} |-> @[at]]]
  ELSE File(i)

Report(i, verdict) ==
  IF job[i].at = KERNEL_VERIFY
  THEN [File(i) EXCEPT !.kstatus = verdict, !.kkernel = running]
  ELSE File(i)

Fine(at) == IF at = KERNEL_VERIFY THEN KernelFine ELSE HostFine

Verify(i) ==
  /\ Verifying(i) /\ Fine(job[i].at)
  /\ LET s == Report(i, "pass")
     IN Save(i, IF pc[i] = "run" THEN Checkpoint(s, job[i]) ELSE s)
  /\ NextStage(i, job[i])
  /\ UNCHANGED <<config, host, checkout, history, budget>>

Blocked(i) ==
  /\ Verifying(i) /\ ~Fine(job[i].at)
  /\ Save(i, Report(i, "blocked"))
  /\ Stop(i)
  /\ UNCHANGED <<config, host, checkout, history, budget>>

Simple(i) ==
  /\ At(i, "run", {BOOTSTRAP, HOST_PREFLIGHT, IMAGE_VERIFY, PROJECT_VERIFY, COMPLETE})
  /\ LET s == File(i)
     IN Pass(i, IF job[i].at = BOOTSTRAP THEN [s EXCEPT !.tool = job[i].tool] ELSE s, job[i])
  /\ UNCHANGED <<config, host, checkout, history, budget>>

MakePlan(i) ==
  /\ At(i, "run", PlanStage)
  /\ LET f == PhaseOf(job[i].at)
     IN Pass(i, [File(i) EXCEPT !.plan[f] = PlanOf(f)], [job[i] EXCEPT !.plan[f] = PlanOf(f)])
  /\ UNCHANGED <<config, host, checkout, history, budget>>

SamePlan(i) == Resolved(job[i]) = File(i).plan[PhaseOf(job[i].at)]

\* "... plan digest changed after authorization; replan is required"
PlanChanged(i) ==
  /\ At(i, "run", ConfirmStage \union ApplyStage) /\ ~SamePlan(i)
  /\ Stop(i)
  /\ UNCHANGED <<disk, host, checkout, history, budget>>

\* Mutant: without a terminal every plan is accepted.
MutAccepted(i) == TRUE

Accepted(i) ==
  LET o == job[i].opts
  IN o.interactive \/ o.accept[PhaseOf(job[i].at)] = Resolved(job[i])

\* INSTALL-KERNEL and APPLY; the Docker group is a question of its own.
Confirm(i) ==
  /\ At(i, "run", ConfirmStage) /\ SamePlan(i) /\ Accepted(i)
  /\ LET at == job[i].at  f == PhaseOf(at)  o == job[i].opts
         answers == IF at = KERNEL_CONFIRM THEN {FALSE}
                    ELSE IF o.interactive THEN BOOLEAN ELSE {o.group}
     IN \E g \in answers :
          /\ Pass(i, IF at = HOST_CONFIRM THEN [File(i) EXCEPT !.group = g] ELSE File(i),
                  [job[i] EXCEPT !.plan[f] = Resolved(job[i])])
          /\ consent' = [consent EXCEPT ![job[i].project] =
                           [ops |-> [@.ops EXCEPT ![f] = Resolved(job[i]) \union
                                                          (IF g THEN {"group"} ELSE {})],
                            tool |-> job[i].tool]]
  /\ UNCHANGED <<config, host, checkout, changed, budget>>

Unconfirmed(i) ==
  /\ At(i, "run", ConfirmStage) /\ SamePlan(i) /\ ~Accepted(i)
  /\ Stop(i)
  /\ UNCHANGED <<disk, host, checkout, history, budget>>

\* Mutant: the helper does not compare.
MutAuthorized(i) == TRUE

\* The helper plans again and compares; root executes the plan it holds.
Authorized(i) == AsRoot \/ PlanOf(PhaseOf(job[i].at)) = File(i).plan[PhaseOf(job[i].at)]

HelperRefuses(i) ==
  /\ At(i, "run", ApplyStage) /\ SamePlan(i) /\ ~Authorized(i)
  /\ Stop(i)
  /\ UNCHANGED <<disk, host, checkout, history, budget>>

ToExecute(i) ==
  (IF AsRoot THEN Resolved(job[i]) ELSE PlanOf(PhaseOf(job[i].at))) \union
    (IF job[i].at = HOST_APPLY /\ File(i).group THEN {"group"} ELSE {})

Apply(i) ==
  /\ At(i, "run", ApplyStage) /\ SamePlan(i) /\ Authorized(i)
  /\ job' = [job EXCEPT ![i].left = ToExecute(i),
                        ![i].plan[PhaseOf(job[i].at)] = Resolved(job[i])]
  /\ pc' = [pc EXCEPT ![i] = "apply"]
  /\ UNCHANGED <<disk, host, checkout, lock, history, budget>>

Execute(i, o) ==
  /\ pc[i] = "apply" /\ o \in job[i].left
  /\ \A other \in job[i].left : Rank[o] <= Rank[other]
  /\ job' = [job EXCEPT ![i].left = @ \ {o}]
  /\ todo' = todo \ {o}
  /\ installed' = IF o = "oem" THEN installed \union {"oem"} ELSE installed
  /\ changed' = IF RebootRequired({o}) THEN [changed EXCEPT ![job[i].project] = boot]
                ELSE changed
  /\ UNCHANGED <<disk, running, healthy, boot, checkout, lock, pc, consent, budget>>

ExecuteNext(i) == \E o \in job[i].left : Execute(i, o)

\* Mutant: removing the modules needs no reboot.
MutRebootBootId(j) == IF "oem" \in j.plan["kernel"] THEN boot ELSE None

RebootBootId(j) == IF RebootRequired(j.plan["kernel"]) THEN boot ELSE None

Applied(i) ==
  /\ pc[i] = "apply" /\ job[i].left = {}
  /\ Pass(i, IF job[i].at = KERNEL_APPLY
             THEN [File(i) EXCEPT !.kboot = RebootBootId(job[i])] ELSE File(i), job[i])
  /\ UNCHANGED <<config, host, checkout, history, budget>>

Rebooted(i) == File(i).kboot # boot

RebootPending(i) ==
  /\ At(i, "run", {KERNEL_REBOOT_PENDING})
  /\ IF Rebooted(i)
     THEN Pass(i, File(i), job[i])
     ELSE Stop(i) /\ UNCHANGED state
  /\ UNCHANGED <<config, host, checkout, history, budget>>

ResolveRelease(i) ==
  /\ At(i, "run", {RELEASE_RESOLVE})
  /\ Pass(i, [File(i) EXCEPT !.release = manifest, !.image = manifest],
          [job[i] EXCEPT !.release = manifest])
  /\ UNCHANGED <<config, host, checkout, history, budget>>

SameRelease(i) == ResolvedRelease(job[i]) = File(i).release

ReleaseChanged(i) ==
  /\ At(i, "run", {IMAGE_PULL_OR_BUILD}) /\ ~SameRelease(i)
  /\ Stop(i)
  /\ UNCHANGED <<disk, host, checkout, history, budget>>

\* Mutant: local images keep the name of the release.
MutAcquireImages(i) ==
  /\ At(i, "run", {IMAGE_PULL_OR_BUILD}) /\ SameRelease(i)
  /\ \/ Pass(i, [File(i) EXCEPT !.image = ResolvedRelease(job[i])], job[i])
     \/ Pass(i, [File(i) EXCEPT !.image = "local"], job[i])
  /\ UNCHANGED <<config, host, checkout, history, budget>>

\* The release's images from one of the registries; or images built here, when
\* that is the source or the operator chooses it after the pull has failed.
AcquireImages(i) ==
  /\ At(i, "run", {IMAGE_PULL_OR_BUILD}) /\ SameRelease(i)
  /\ LET o == job[i].opts  r == ResolvedRelease(job[i])
     IN \/ /\ o.source = "pull"
           /\ Pass(i, [File(i) EXCEPT !.image = r], job[i])
        \/ /\ o.source = "build" \/ o.interactive
           /\ Pass(i, [File(i) EXCEPT !.image = "local", !.release = "local"], job[i])
  /\ UNCHANGED <<config, host, checkout, history, budget>>

\* Mutant: an existing project is not compared.
MutConfigFits(i) == TRUE

\* A project that exists must already use the selected images.
ConfigFits(i) ==
  LET c == config[job[i].project] IN c = None \/ c.image = File(i).image

CreateConfig(i) ==
  /\ At(i, "run", {PROJECT_INIT}) /\ config[job[i].project] = None
  /\ config' = [config EXCEPT ![job[i].project] =
                  [image |-> File(i).image, edited |-> FALSE]]
  /\ UNCHANGED <<state, host, checkout, lock, pc, job, history, budget>>

InitProject(i) ==
  /\ At(i, "run", {PROJECT_INIT}) /\ config[job[i].project] # None /\ ConfigFits(i)
  /\ Pass(i, File(i), job[i])
  /\ UNCHANGED <<config, host, checkout, history, budget>>

ConfigRefused(i) ==
  /\ At(i, "run", {PROJECT_INIT}) /\ ~ConfigFits(i)
  /\ Stop(i)
  /\ UNCHANGED <<disk, host, checkout, history, budget>>

\* An error, a refused confirmation, Ctrl-C, a kill: at any step.
Leave(i) ==
  /\ pc[i] # "idle" /\ exits < MaxExits
  /\ exits' = exits + 1
  /\ Stop(i)
  /\ UNCHANGED <<disk, host, checkout, history, drifts>>

Step(i) ==
  \/ Skip(i) \/ Refuse(i) \/ Begin(i)
  \/ Verify(i) \/ Blocked(i) \/ Simple(i)
  \/ MakePlan(i) \/ PlanChanged(i)
  \/ Confirm(i) \/ Unconfirmed(i)
  \/ HelperRefuses(i) \/ Apply(i) \/ ExecuteNext(i) \/ Applied(i)
  \/ RebootPending(i)
  \/ ResolveRelease(i) \/ ReleaseChanged(i) \/ AcquireImages(i)
  \/ CreateConfig(i) \/ InitProject(i) \/ ConfigRefused(i)

-----------------------------------------------------------------------------
(* What happens around the runs.                                           *)

Newest == IF "oem-next" \in installed THEN "oem-next"
          ELSE IF "oem" \in installed THEN "oem" ELSE "stock"

\* A run has asked for a reboot, or has found the kernel not to be in order.
Asked ==
  \E p \in Project :
    \/ state[p].current = KERNEL_REBOOT_PENDING /\ state[p].kboot = boot
    \/ state[p].current >= KERNEL_VERIFY /\ ~KernelFine

\* The default kernel comes up, or another one is chosen, or the GPU fails.
\* All processes are gone.
Reboot(k, ok) ==
  /\ k \in installed
  /\ IF Asked /\ k = Newest /\ ok
     THEN UNCHANGED exits
     ELSE exits < MaxExits /\ exits' = exits + 1
  /\ running' = k /\ healthy' = ok /\ boot' = boot + 1
  /\ lock' = None
  /\ pc' = [i \in Installer |-> "idle"] /\ job' = [i \in Installer |-> NoJob]
  /\ UNCHANGED <<disk, todo, installed, checkout, history, drifts>>

Drifting == drifts < MaxDrifts /\ drifts' = drifts + 1

\* The administrator installs or removes something.
DriftHost ==
  /\ Drifting
  /\ \E o \in InitialTodo :
       todo' = IF o \in todo THEN todo \ {o} ELSE todo \union {o}
  /\ UNCHANGED <<disk, installed, running, healthy, boot, checkout, lock, pc, job, history,
                 exits>>

\* A patch of the OEM kernel arrives with the other updates.
KernelPatch ==
  /\ Drifting
  /\ "oem" \in installed
  /\ installed' = installed \union {"oem-next"}
  /\ UNCHANGED <<disk, todo, running, healthy, boot, checkout, lock, pc, job, history, exits>>

\* git pull brings a new version, and a new release; git checkout the old ones.
Update ==
  /\ Drifting
  /\ \E v \in Version \ {tool} : tool' = v /\ manifest' = v
  /\ UNCHANGED <<disk, host, lock, pc, job, history, exits>>

EditConfig(p) ==
  /\ Drifting
  /\ config[p] # None
  /\ config' = [config EXCEPT ![p].edited = TRUE]
  /\ UNCHANGED <<state, host, checkout, lock, pc, job, history, exits>>

Outside ==
  \/ \E k \in Kernel, ok \in BOOLEAN : Reboot(k, ok)
  \/ DriftHost \/ KernelPatch \/ Update
  \/ \E p \in Project : EditConfig(p)

Next ==
  \/ \E i \in Installer, p \in Project : Start(i, p)
  \/ \E i \in Installer : Step(i)
  \/ \E i \in Installer : Leave(i)
  \/ Outside

Spec == Init /\ [][Next]_vars

\* A run that is not ended goes on.  The operator runs the command again as
\* long as it has not completed, and reboots when a run has asked for it.
FairSpec ==
  /\ Spec
  /\ \A i \in Installer : WF_vars(Step(i))
  /\ \A p \in Project : WF_vars(\E i \in Installer : Start(i, p))
  /\ WF_vars(Asked /\ Reboot(Newest, TRUE))

-----------------------------------------------------------------------------
(* Properties.                                                             *)

Plan == SUBSET Op
Digest == {None} \union Plan

\* Everything has its type.
TypeOK ==
  /\ \A p \in Project :
       LET s == state[p]
       IN /\ s.tool \in Version /\ s.current \in Stage /\ s.plan \in [Phase -> Digest]
          /\ DOMAIN s.inputs \subseteq Stage
          /\ s.kboot \in {None} \union 1..boot
          /\ s.kstatus \in {None, "pass", "blocked"} /\ s.kkernel \in {None} \union Kernel
          /\ s.group \in BOOLEAN
          /\ s.release \in {None} \union Image /\ s.image \in {None} \union Image
  /\ config \in [Project -> {None} \union [image : Image, edited : BOOLEAN]]
  /\ todo \subseteq Op /\ installed \subseteq Kernel
  /\ running \in installed /\ healthy \in BOOLEAN /\ boot \in Nat \ {0}
  /\ tool \in Version /\ manifest \in Version
  /\ lock \in {None} \union Installer
  /\ pc \in [Installer -> {"idle", "stage", "run", "apply"}]
  /\ \A i \in Installer :
       /\ job[i].project \in {None} \union Project /\ job[i].at \in Stage
       /\ job[i].plan \in [Phase -> Digest] /\ job[i].left \in Plan
       /\ job[i].release \in {None} \union Version /\ job[i].tool \in {None} \union Version
  /\ consent \in [Project -> [ops : [Phase -> Plan], tool : {None} \union Version]]
  /\ changed \in [Project -> {None} \union 1..boot]
  /\ exits \in 0..MaxExits /\ drifts \in 0..MaxDrifts

\* Of all the runs of a user at most one is under way, for whatever projects
\* (installer_coordination_lock).
OneRun ==
  \A i, j \in Installer : pc[i] # "idle" /\ pc[j] # "idle" => i = j

\* Whatever happens between the question and the change, after a restart too,
\* the host operations that are executed are among those the operator has last
\* confirmed for this project (the digest comparisons of _resolved_host_plan
\* and of the privileged helper).
OnlyConfirmedChanges ==
  \A i \in Installer :
    pc[i] = "apply" =>
      job[i].left \subseteq consent[job[i].project].ops[PhaseOf(job[i].at)]

\* A plan is applied by the toolkit version under which it was confirmed: an
\* update in between ends the run at BOOTSTRAP (_can_adopt_installer_update).
AppliedByConfirmingVersion ==
  \A i \in Installer :
    pc[i] = "apply" => consent[job[i].project].tool = job[i].tool

\* Without a terminal nothing is applied that this very command line does not
\* name: a run that resumes a confirmed plan has to name it again.
NamedPlanApplied ==
  \A i \in Installer :
    pc[i] = "apply" /\ ~job[i].opts.interactive =>
      /\ job[i].opts.accept[PhaseOf(job[i].at)] = File(i).plan[PhaseOf(job[i].at)]
      /\ "group" \in job[i].left => job[i].opts.group

\* Docker and the groups are touched only while a verified kernel is running,
\* whatever was booted since it was first verified: every run verifies again.
TuningOnVerifiedKernel ==
  \A i \in Installer :
    pc[i] = "apply" /\ job[i].at = HOST_APPLY =>
      /\ KernelFine
      /\ File(i).kstatus = "pass" /\ File(i).kkernel = running

\* When the kernel stages are behind a project whose plan changed the kernel or
\* its modules, the host has been booted since the last of these changes.
RebootedIntoPlan ==
  \A p \in Project :
    LET s == state[p]
    IN s.current > KERNEL_REBOOT_PENDING /\ RebootRequired(s.plan["kernel"]) =>
         changed[p] \in 1..(boot - 1)

\* The images recorded as acquired are those of the release that was resolved,
\* or local ones that are recorded as local, also when the manifest changes
\* under a run or between two runs.
ImagesMatchRelease ==
  \A p \in Project :
    state[p].current > RELEASE_RESOLVE => state[p].image = state[p].release

\* A project that has been set up uses the images the state records, whatever
\* was there before and wherever the run that created it ended.
ProjectUsesRecordedImage ==
  \A p \in Project :
    state[p].current > PROJECT_INIT => config[p].image = state[p].image

\* What a run leaves behind, wherever it ends, is accepted by the next one: the
\* completed stages are the ones before the current stage.
StateAdmitted == \A p \in Project : Admitted(state[p])

\* A completed stage stays completed, with the inputs it had; only the digest
\* of BOOTSTRAP is rewritten when an update is adopted.
CheckpointsKept ==
  [][\A p \in Project, at \in Stage :
       Done(state[p], at) /\ (at = BOOTSTRAP => state'[p].tool = state[p].tool)
         => Done(state'[p], at) /\ state'[p].inputs[at] = state[p].inputs[at]]_vars

\* An installed host is never changed by repeating the command: once its stage
\* is complete a plan is not executed again for the project.
NotReplayed ==
  [][\A i \in Installer :
       pc'[i] = "apply" => ~Done(state[job'[i].project], job'[i].at)]_vars

Finished(p) == Done(state[p], COMPLETE)

\* A recorded plan that the host does not need any more, or not in this form.
PlanObsolete(p) ==
  \E f \in Phase :
    /\ state[p].current \in {at \in ConfirmStage \union ApplyStage : PhaseOf(at) = f}
    /\ PlanOf(f) # state[p].plan[f]

\* Repeating the command, and rebooting when asked, completes the installation,
\* unless a run ended inside or right after a change of the host: then it is
\* refused for ever.
FinishesOrObsolete ==
  \A p \in Project : <>Finished(p) \/ <>[]PlanObsolete(p)

\* README.md:609: after a failure, repair the cause and run exactly the same
\* install command.
RerunFinishes == \A p \in Project : <>Finished(p)
=============================================================================
