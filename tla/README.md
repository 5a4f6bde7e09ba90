# A formal model of strix-halo-rocm-toolkit

The toolkit prepares an AMD Strix Halo workstation for ROCm, installs pinned
container images, and gives every project its own protected Python overlay. Its
own logic, and the places where an unlucky order of steps costs most, are the
overlay, which several processes change on one disk; the installer, which changes
a host over several runs, reboots and updates; the runner of commands and the
progress reporter, which are threads around a child process; the way of an image
from a build to the stable manifest; and the images of a user's machine, which
installer, project run, repair and prune change without a common lock. All five
are modelled here and checked with TLC on small instances, and proved about with
TLAPS for every number of processes, projects, ids, wheels, images and faults.

| file | what it is |
| --- | --- |
| `OverlayTransaction.tla` | the overlay of one project and the processes that work on it |
| `AtomicOverlay.tla` | what the overlay promises its users |
| `OverlayTransactionProofs.tla` | its safety: locks, completeness, retention, the store |
| `OverlayRefinementProofs.tla` | quarantines, and that it implements `AtomicOverlay` |
| `InstallerWorkflow.tla` | the install command, its state file, the host around it |
| `InstallerWorkflowProofs.tla` | its safety: runs, confirmations, state files |
| `InstallerOutcomeProofs.tla` | what completed stages stand for: kernel, plans, images |
| `MCOverlay.tla`, `MCOverlay*.cfg` | instances of the overlay for TLC |
| `MCInstaller.tla`, `MCInstaller*.cfg` | instances of the installer for TLC |
| `CommandRunner.tla` | one command as a child process, its two readers, the interrupt |
| `InstallerProgress.tla` | stages, prompts, log and heartbeat around the commands |
| `CommandRunnerProofs.tla` | what record splitting, buffers and log do with any text |
| `InstallerProgressProofs.tla` | secrets, interrupts, heartbeats and results of both |
| `MCProgress.tla`, `MCProgress.cfg` | an instance of both |
| `ImageBuild.tla` | the Docker store, image builds and prune, the source tree |
| `ReleasePublication.tla` | qualification, local release, push and stable manifest |
| `ReleasePublicationProofs.tla` | what tags, records and manifest vouch for |
| `MCPublication.tla`, `MCPublication.cfg` | an instance of the two |
| `LocalImages.tla` | installer, project run and repair on the images of a machine |
| `LocalImagesProofs.tla` | what installer, project run and repair use and remove |
| `MCLocalImages.tla`, `MCLocalImages.cfg` | an instance of it with `ImageBuild` |
| `PROJECT.json` | components, runs, mutants, map to the source, findings, hazards, theorems |

To check: `tlc -workers 2 -config MCOverlaySafety.cfg MCOverlay`; to prove:
`tlapm InstallerWorkflowProofs.tla`.

## 1. The system

Source paths are relative to `src/src/amd_ai/` unless they start with another
directory.

### 1.1 Components

**Overlay transactions** (`overlay/transaction.py`, `models.py`, `lock.py`,
`templates/project/project-entrypoint`).
State: `generations/<id>`, the `current` link, `artifacts/sha256`,
`overlay-state.json` in each generation, `transaction.lock`.
Operations: initialize, open a transaction, build a generation, activate, mark
healthy, retain two generations, collect artifacts.
Hard: several processes, each may die between two steps; ids are drawn before
the lock; retention goes by ids.
Correct when: `current` names only complete generations, all wheels of the
active lock stay in the store, an install is never lost, one process mutates.

**Overlay repair** (`overlay/repair.py`, `repair_command.py`).
State: `quarantine/<id>`, `quarantine-state.json`.
Operations: quarantine the active generation, replay its lock offline, record
the outcome, retry.
Hard: the project has no overlay between the move and the new activation; a
crash there; two repairs of one report.
Correct when: "rebuilt" is true, the evidence stays, a repair that runs to its
end gives the same lock back.

**Protected pip** (`overlay/cli.py`). Install, uninstall, query inside the
container. It reads the roots of the current generation and writes them, merged,
into a later one. Correct when nothing is overwritten in between.

**Overlay verification, resolver, policy** (`overlay/verify.py`,
`effective_probe.py`, `packaging_compat.py`, `resolver.py`, `requirements.py`,
`policy.py`). Scans of a site directory; wheels of a pip report stored one by
one; allowed options. The scans and the policy are pure, the store is shared.

**Installer workflow** (`installer/workflow.py`, `models.py`).
State: the install state (current stage, digest of the inputs of each completed
stage, plans, boot id, release), cached plans and release of a run.
Operations: load and validate, adopt an update, walk 17 stages, skip, refuse,
run, verify again, checkpoint.
Hard: a run ends anywhere; a reboot in the middle; the host, the checkout and
the project change between runs; a plan is computed three times (planning,
resume, privileged helper) and must be the same.
Correct when: only confirmed operations are executed, once, by the version that
explained them; tuning only on a verified kernel; a completed stage is accepted
again or refused, never forgotten; repeating the command completes the
installation.

**Installer actions and privileged helper** (`installer/actions.py`,
`privileged.py`). The work of the stages; `sudo` helper that plans again as root
and compares digests before it applies.

**Installer state store** (`installer/state.py`). Atomic save with a
fingerprint, the coordination flock of a user, validation of completed stages,
migration of older schemas.

**Release manifests and registries** (`installer/release.py`, `registry.py`).
Ordered replicas of the images; a network failure goes to the next, a wrong
identity stops everything; local build as a fallback. Correct when no image is
used that is not the release's or recorded as local.

**Installer progress, prompts, bootstrap, fixture** (`installer/progress.py`,
`prompts.py`, `bootstrap.py`, `fixture.py`). A log, a heartbeat thread that
shares a condition with the observers of commands; input and output; a test
double. Correct when the heartbeat never prints over a prompt and the threads
end.

**Host preparation, host probes** (`host/*`). A plan of operations made from a
report, applied in order with backups; parsers of `/proc`, `/sys` and tools.
Correct when a failure leaves a host that can be planned again.

**Doctor and repair planner** (`doctor/*`). A report with facts and diagnoses; a
plan with exact targets and a digest; pull the parent, build the project, remove
one image, repair the overlay, in this order, then doctor again. Hard: the facts
are old when the plan is executed; a failure between two actions.

**Image build and locks** (`image/build.py`, `lock.py`, `rocm_lock.py`,
`profile.py`). State: the Docker store, the friendly tags, a BuildKit metadata
file for each tag, a context directory for each profile.
Operations: build the base and the Torch image, prune.
Hard: no lock; the source tree is read several times during a build; a tag moves
between a build and the look at its result. Correct when a build returns the
image it built from what it validated, and prune removes nothing in use.

**Image publication, release qualification** (`image/publish.py`,
`qualification/*`). State: the qualification report, release records and SBOMs,
the verified tag, the registry, the publication report, the stable manifest.
Operations: qualify, release with rollback, push, observe, verify anonymously,
write the manifest. Hard: seven commands and files, each of which may be stale
for the next one; failure and kill between any two steps. Correct when the
manifest names only images that were qualified and that anybody can pull.

**Projects** (`project/*`). State: the project directory, `amd-ai-project.toml`,
the project image. Operations: initialize, lock dependencies, reuse or rebuild
the image, run a container. Hard: the fingerprint is computed before the build
copies the files, the image is run by its tag, and other commands build, remove
and retag meanwhile. Correct when the container is made from the configured
parent and the present files.

**Command runner** (`runner.py`). One child process, two threads that drain its
streams through one observer under a lock, an interrupt that terminates and then
kills. Correct when output is complete, a failing observer does not block the
child, and the child is gone at the end.

**Container check, command line** (`container/check.py`, `cli.py`, `report.py`).
A verdict on a container; parsing, confirmation and exit codes.

### 1.2 Interaction

- pip (in the container), `project run` (on the host, then the entrypoint in
  the container) and `repair` share one project directory and one lock file.
- `install` runs of a user share one coordination lock, the host and the
  checkout; each project has a state file and an `amd-ai-project.toml`.
- The workflow calls actions; actions call host, image and project code, and
  for privileged work the helper, which computes its plan anew.
- The doctor's report is the input of the repair plan; between report, plan,
  confirmation and execution no lock is held.
- Image builds, prune, installer, project run and repair share one Docker store
  and the friendly tags, and take no common lock.
- The installer's thread, its heartbeat and the two readers of a command share
  the progress reporter.
- Qualification, release and publication hand each other files and ids; every
  installation trusts the manifest they end with.

`LocalImages` and `ReleasePublication` extend `ImageBuild` and run its commands
beside their own; `InstallerProgress` extends `CommandRunner`. The other modules
stand alone: what one of them uses of another is an abstract step (a run of
`InstallerWorkflow` acquires images in one step, which is `LocalImages` in
detail; repair of the overlay is a step between `RemoveChanged` and the end of a
repair there, and `OverlayTransaction` in detail).

## 2. OverlayTransaction

### State and actions

| model | code |
| --- | --- |
| `current`, `place[g]`, `gen[g]` | the link, the directory of a generation, its content: lock, verified, state record, health marker, what an outside tool did to it |
| `qstatus[g]` | the status in `quarantine-state.json` |
| `artifacts` | `artifacts/sha256` |
| `lock` | the flock on `transaction.lock` |
| `pc[p]`, `job[p]` | the next step of a process and its local values |
| `issued`, `activated`, `lost` | ids handed out; history for properties |

Each durable effect is a step of its own, so a process can leave between any two
of them: `InitCreate`/`InitRecord`/`InitActivate` (`initialize_overlay`),
`PipStart`, `Acquire`, `Busy`, `PipVerify`, `PipQuery`, `StoreWheel`, `PipBuild`
(`overlay/cli.py`, `resolver.py`), `BuildInstall`, `BuildRecord`,
`BuildActivate`, `BuildFails` (`build_generation`), `MarkHealthy`,
`PruneGeneration`, `PruneDone`, `CollectArtifact`, `CollectDone`
(`mark_generation_healthy`), `DoctorPlan`, `RepairQuarantine`, `RepairRecord`,
`RepairReplay`, `RepairInvalid`, `RepairRetry`, `RepairRefused`, `RepairFinish`
(`repair_overlay` and its report).
`Leave` is a kill, an uncaught error or Ctrl-C. `Damage` and `LoseArtifact` are
changes by tools outside the toolkit. The lock does not wait: `LOCK_NB` makes a
second process fail, which is `Busy`.

Ids: `new_transaction_id` is a time to the second with random bytes. With
`OrderedClock = TRUE` ids are issued in increasing order; with `FALSE` in any
order, which covers two ids drawn within one second and a clock set back.

### Abstract specification

`AtomicOverlay` is what a user may rely on: the overlay serves one complete lock
or has been withdrawn for repair and owes the lock it served; it goes from lock
to lock in a single step; a repair gives back what it withdrew; housekeeping
discards no wheel the lock needs. `ImplementsAtomicOverlay` maps the disk to it
(`Status`, the lock of the active generation, the store).

### Runs

| run | instance | result |
| --- | --- | --- |
| `overlay_safety` | 2 pips, 1 run, 1 repair, 2 wheels, 4 ids in any order, 1 damage, 1 lost wheel, 1 early exit | 10 properties hold, 5.6 million states |
| `overlay_liveness` | 1 pip, 1 run, 2 repairs, 2 wheels, 5 ids in order, 1 damage, 1 lost wheel, 1 early exit, fairness | `LockReleased`, `RepairRestores` (unless a process ended early or a wheel was lost), `ImplementsAtomicOverlay` hold |
| `prune` | 2 pips, 1 run, ids in order, nothing fails | `PruneKeepsCurrent` is violated |
| `repairable` | 1 pip, 1 repair, 1 early exit | `DanglingOverlayIsRepaired` is violated |
| `plan` | 2 repairs of one report | `QuarantineMatchesPlan` is violated |

*Bounds.* Four ids are the least with which a first generation, two concurrent
installs and a replay exist at once, so that retention has something to remove
and something it must keep. `Reserve` keeps enough ids back from pip for an
initialization and for one replay per damage and repair: no repair waits for an
id because of the bound, and the runs with two repairs have as many more ids.
Two wheels tell a shared from an unshared artifact. One damage starts a repair,
and one lost wheel makes its replay refuse the quarantined lock
(`RepairInvalid`); one early exit is a crash at every step, and what follows it.
Wheels and pips are
interchangeable, so the safety run uses their permutations; the others use no
symmetry. Refinement and liveness are checked with ids in order and one pip at a
time: with two, `prune` shows the retention that deletes the active generation,
and no abstract step does that.

*Fairness.* A command that has started goes on (`WF` on its steps): they are
straight-line code, subprocesses that end, and a lock that is not waited for.
Nobody has to start a command. `RepairingSpec`, used for
`DanglingOverlayIsRepaired` only, adds an operator who keeps running repair,
strongly fair in getting the lock because another command may hold it each time.

### What is proved

For every number of pips, runs, doctors, ids, wheels, damages, losses and
exits (`OverlayTransactionProofs`): `TypeCorrect`, `MutualExclusion`,
`CompleteActivation`, `Replayability`, `WheelsKept`, `InstallsNotLost`,
`RetentionKeepsActive`, `ForwardLinks`, and `Invariance`, from which they follow.

The invariant is needed because none of the properties is inductive alone. That
the link names complete generations depends on what the process about to replace
it has done: `Progress(p)` says for every step of every kind of process what its
target already has. That collection takes no wheel of the active lock needs, for
the process inside retention, that the active generation is among the healthy
ones that are kept or that the store is not touched; `Retention` states it
through the ids that were ever activated. `SingleMutator` makes the
process that moves the only one inside a transaction, so that the others' parts
carry over. `FreshIds` says that an id that was not issued has no directory.

`OverlayRefinementProofs` continues from there. `EvidenceStays` needs the first
invariant only. `QuarantineSaysTruth` needs `Evidence`: what a repair has under
way replaces the generation that it withdrew, with the same lock, and is not that
generation; a quarantine record is of an activated generation. It holds for ids
in any order and any number of repairs.

`Refinement` says that the disk implements `AtomicOverlay`: initial states map to
initial states, and every step to an abstract step or to none. Its hypotheses are
`OrderedClock` and `OnePip` (all pips are one), under which the run checks it too:
without them it is false, and `prune` is the counterexample. The abstract overlay
never loses the lock it serves, so that retention must keep the active
generation. `ActiveKept` reduces that to "no two healthy generations are newer",
and `Lineage` is why: a pip that waits with its old id can be overtaken only by
the generation that is active now, so that at most one healthy generation is newer
than the active one when the pip's own is activated. A repair draws its id under
the lock and is newer than everything.

*Only model-checked:* `LockReleased` and `RepairRestores`, which are liveness.

## 3. InstallerWorkflow

### State and actions

| model | code |
| --- | --- |
| `state[p]` | `InstallState` of a project: `tool`, `inputs` (completed stages with the digests of their inputs), `current`, plans, boot id, kernel verdict, Docker group, release, image |
| `config[p]` | `amd-ai-project.toml` |
| `todo`, `installed`, `running`, `healthy`, `boot` | the host, as far as a plan or a verification looks at it |
| `tool`, `manifest` | the checkout: version of the toolkit, `stable.json` |
| `lock`, `pc[i]`, `job[i]` | coordination lock; a run with its cached plans, release and command line |
| `consent`, `changed` | history: what was confirmed and by which version; the boot of the last kernel change |

A stage goes through `"stage"` (its completion is looked at: `Skip`, `Refuse`,
`Begin`, or `Verify`/`Blocked` for a verification that is made again), `"run"`
(its inputs have been read, its action is under way) and for the two apply stages
`"apply"`, where every operation of the plan is one step. Its checkpoint is saved
with its work in one step (`Pass`), because the save is an atomic replacement and
the stages before it that change something outside the state file (`ExecuteNext`,
`CreateConfig`) have steps of their own. `Leave` ends a run at any step.

A plan is the set of operations it contains, in the order of `Rank`. A digest of
values is the tuple of the values; two digests agree when the tuples do. Of the
inputs of a stage, `Inputs` names those that vary; the users, paths, project
name and adapter are constants of one command line.

Around the runs: `Reboot` into any installed kernel, with a GPU that may fail;
`DriftHost` (the administrator installs or removes something), `KernelPatch`,
`Update` (git pull or checkout) and `EditConfig`.

### Runs

| run | instance | result |
| --- | --- | --- |
| `installer_safety` | 2 processes, in a terminal, 1 early end or unasked reboot, 2 changes from outside, a project that may exist | 11 properties hold, 1.1 million states |
| `installer_batch` | the same with `--non-interactive`, pull or build, 1 change | `NamedPlanApplied` holds, 0.5 million states |
| `installer_resume` | 1 process, fairness, 2 early ends | `FinishesOrObsolete` holds |
| `installer_rerun` | the same with 1 early end | `RerunFinishes` is violated |

*Bounds.* One early end is a crash at every step of every stage, followed by any
number of runs; the second one of `installer_resume` strikes the run that
resumes. Two changes from outside are one to make something stale and one to
make it look right again (a package removed and put back, an update and a
checkout of the old version). Two processes are the least that contend for the
lock; they are interchangeable. `todo` starts with one operation of the kernel
plan that needs a reboot and one of the host plan, so that a plan can be
interrupted in between once the kernel operation is added; `installer_resume`
has two in each. One project: the runs of two projects share the lock, so that
they are sequential, and the effect of another project's run on the host is one
of the drifts. The proofs are for any number of projects.

*Fairness.* A run that is not ended goes on. The operator repeats the command as
long as it has not completed, and boots the newest kernel, with a working GPU,
when a run has asked for it or has found the kernel out of order; `README.md:609`
and `docs/install.md:111` ask for exactly this. Early ends and drifts are not
fair and are bounded.

### What is proved

For every number of processes and projects, every initial need of the host and
every bound, in a terminal or not, as root or through the helper
(`InstallerWorkflowProofs`): `OneRunAtATime`, `NothingUnconfirmed`,
`SameVersion`, `FilesAdmitted`, `CompletedForGood`, `NoReplay`, and `Invariance`.
They assume `InstallerAssumption` only.

The invariant `Inv` has three parts. `GoodFile` relates a state file and what was
confirmed for its project: completed stages are a prefix; a completed
confirmation still agrees with the recorded plan; from the kernel confirmation
to the host apply the version recorded for BOOTSTRAP is the one that had the
plan confirmed. `GoodRun` relates a run and the file of its project: everything
before its stage is complete; a stage under way is not; what is left to execute
is part of the recorded plan, or the group when it is wanted. `Running`
adds that a run holds the lock. The lock is what makes this inductive: the lemma
`OnlyOne` reduces a step to the project and the process that make it, and the
lemmas `Completed`, `Advances` and `Passes` do what all stages have in common
once. The last part of `GoodFile` survives an update because one is adopted only
from HOST_VERIFY on, where the host apply is behind the run.

`InstallerOutcomeProofs` proves from it, under the same assumption, what an
installation has reached: `TypeCorrect`, `BootedSinceKernelChange`,
`TunedOnVerifiedKernel`, `AppliesWhatIsNamed`, `ImagesOfRelease`,
`ProjectOnRecordedImage`. Its invariant `Outcome` gives every completed stage a
meaning (`StageMeans`): a confirmation was answered in a terminal or named its
plan, with the group it records; the kernel was last changed in or before the boot
that the apply records, and the reboot stage was completed in a later one; a
resolved release is the recorded image; an initialized project is configured with
it. The meanings are of the state file, the configuration and history and outlive
the run. `RunKnows` is for the one that is under way: what it has passed it knows
for its own session, since a stage that is complete is skipped only when its
inputs are what they were, and KERNEL_VERIFY is made again by every run. This is
how a run without a terminal applies nothing but what its own command line names,
although another run confirmed it: the confirmation, of which the answer and the
name are inputs, is skipped only if this command gives the same ones.

*Only model-checked:* `FinishesOrObsolete`, which is liveness.

## 4. CommandRunner and InstallerProgress

### State and actions

| model | code |
| --- | --- |
| `pc`, `kind`, `leaving` | where the main thread is in `run`, how the command is executed, how the call will end |
| `child`, `signal`, `script`, `sent`, `pipe` | the child process and its two pipes |
| `reader`, `pending`, `records`, `kept` | a reader thread, its undecided rest of a record, the records it has not handed over, its `_BoundedTextBuffer` |
| `shown`, `secrets`, `obsError` | what reached the log, the secrets the observer holds, the first observer error |
| `main`, `stage`, `hb`, `stop`, `silent`, `paused`, `logOpen` | the reporter: stage, heartbeat thread and its stop event, `HeartbeatSchedule`, session log |

Five threads interleave: the main thread, two readers, the heartbeat of a stage,
and the child. A read of a pipe, the decoding of it, a call of the observer, the
decision of the heartbeat and its print are steps of their own; what is done under
the reporter's condition is one step. An observer call or a spawn may fail. Ctrl-C
arrives at each of these places:

| where | action | what becomes of the child |
| --- | --- | --- |
| between `Popen` and the `try` (`runner.py:294-338`) | `SpawnInterrupted` | nothing: it and the readers that were started go on (`leaving = "unguarded"`) |
| in the guarded wait | `Terminate` | SIGTERM, five seconds, SIGKILL, and it is waited for |
| in the grace period or the wait after the kill | `InterruptedAgain` | left over, the readers are joined |
| in `reader.join` | `JoinInterrupted` | waited for or given up before; the readers outlive the call |
| in `subprocess.run` (`runner.py:103`) | `CapturedInterrupted` | it has a quarter of a second; then it is killed, and nobody waits for it |

Text is a sequence of five characters: plain (`x`), the two parts of a secret (`s`
and then `t`), carriage return, line feed. That is what record splitting, redaction
and truncation tell apart. `Render` replaces the secret where one record has the
whole of it, as `sanitize_output` does; a secret that `MAX_RECORD_BYTES` cuts in
two (`runner.py:456-458`) gets through, half in each record. A secret that itself
contains a line end is not modelled. A pipe closes when the child exits: a
descendant that keeps it open is not modelled.

### Run `progress`

Two stages, one command of any kind with up to three characters of output, one
failure, two interrupts: `TypeOK`, `ResultFaithful`, `LogRedacted`,
`InterruptEndsChild`, `NoLateWait` and `CallsReturn` hold. A pipe of one
character makes the child block on a reader at every character; a limit of two
makes texts of three characters overflow a buffer and a record, and cuts the secret
in one of them. Two stages are
needed for a WAIT of the first one to be late. `truncated` is set when a text has
exactly the length of the limit already, so that `ResultFaithful` claims the whole
text only when it is not set.

`LogRedacted` says that no record has a whole secret, and not that two records
together do not. `ResultFaithful` compares text with the characters of the secret
hidden (`Veil`), because whether they are replaced depends on where records are
cut. `InterruptEndsChild` is about the first Ctrl-C: in the guarded wait it ends
with a child that was waited for, a captured child is waited for or killed; before
the `try` the code promises nothing, and after a second Ctrl-C neither.

*Fairness.* Threads are scheduled; a child with nothing left to write exits, and a
killed one does; one that was only asked to terminate may hang. Nothing is assumed
of the operator, of faults and of time.

### What is proved

For any commands and texts, pipes and limits of any size and any number of stages,
commands, faults and interrupts (`InstallerProgressProofs`): `SecretsHidden`,
`ChildWaitedFor`, `WaitsInTime`, `TypeCorrect`, `ResultsFaithful`. The first three
follow from `Invariance`, whose invariant `ProgressInv` has a part for each:

- `RecordsGuarded`: secrets are loaded as long as a reader may still hand over a
  record. A reader outlives its call only after an interrupt, and then no further
  command is run that would replace or forget the secrets.
- `ChildAccounted`: every way from the guarded wait to the join of the readers but
  a broken stdin goes through `process.wait`; a wait that was given up has cost a
  second interrupt; a captured child that an interrupt leaves has been waited for
  or has got SIGKILL.
- `HeartbeatOfStage`: a heartbeat that has decided to print belongs to the stage
  in progress, which cannot end before the thread is joined.

`ResultsFaithful` is about texts of any length, cut anywhere into reads, and takes
the invariant `ResultInv` on top of that:

- `TypeInv`: `TypeOK`, and that `records` and `shown` are lists of texts, which
  needs `RecordsGuarded`: without the secrets a record would be shown with one.
- `CallPhase`: a child that exits of itself has written everything, and only such a
  child leads to a return.
- `FlowInv`: while an observed call goes on and no observer call has failed, what
  was written is what was read and what is in the pipe; what was read of an
  observed stream is what became records (`gone`) and `pending`; the log and the
  records still to be shown are together `LogText(gone)`, both under `Veil`; the buffer has the
  end of what was shown (`Bounded`). `Clean` says that no `\r\n` lies across
  `gone` and `pending`: a carriage return that ends a chunk stays pending until the
  next character is known. `ResultFaithful` says none of this before a return and
  is not inductive without it.

The induction over a text is in the lemmas of `CommandRunnerProofs`, on the
smallest number for which a fact fails: `FlattenConcat` and `LogConcat` (log lines
are joined as the texts are, unless a `\r\n` lies across), `NthInOrder` (the
positions of record ends in their order), `CompleteRecordsShow` (what
`_complete_records` returns shows exactly what it took, each record one line, for
any record limit), `ReadShows` (the same for a chunk read on top of a rest) and
`KeepBounded` (`_BoundedTextBuffer.append`). For these proofs `CompleteRecords` and
`LogText` are written with positions and functions, not with sorted and selected
sequences. That a command may write nothing at all (`<<>> \in Texts`) is assumed of
the texts, because that is what the streams hold before the first command.

*Only model-checked:* `CallsReturn`, which is liveness.

## 5. ImageBuild and ReleasePublication

### State and actions

| model | code |
| --- | --- |
| `images`, `local`, `tag` | what is in every image that was made, the local store, the tags; an image is known by its immutable id |
| `metadata[t]`, `context` | the BuildKit metadata file of a tag; the build context shared by all builds of a profile |
| `tree`, `head` | the working tree and the commit; `LockOf` says what the lock and profile files of a version are, `None` where they do not validate |
| `job[w]` | a command and what it remembers |
| `report`, `records`, `sboms` | `qualification.json`, release records and SPDX files |
| `pushed`, `release`, `public` | the registry: manifests, the release tag, visibility of the packages |
| `observed`, `manifest` | the publication report and `stable.json` |
| `qualified`, `stray`, `faults` | history: ids that passed a run; ids that a failed release left under the verified tag; kills, look-ups and rollbacks that failed |

`BaseStart`/`BaseRead`/`BaseLoad`/`BaseLoaded`,
`TorchStart`/`TorchRead`/`TorchLoad`/`TorchLoaded` and `BuildReturns` are the two
builds. A `docker buildx build` reads its context when it starts (`...Read`) and
loads the image and moves the tag when it ends (`...Load`); edits, other builds and
prunes come in between. `PruneStart` to `PruneDone` is prune, one image
at a time. `LoadImage` is BuildKit: a build finds its result in the cache or makes
a new image, loads it and moves the tag. `RemoveById` is `docker image rm` by id,
which refuses an image with several names or in use.

`QualifyStart`/`QualifyReport`, `ReleaseStart` to `ReleaseRecord` with
`ReleaseUnchecked`, `ReleaseFails`, `RestoreTag`, `ReleaseRollback` and
`RollbackFails`,
`PublishStart` to `PublishWrite`, `StableStart`/`AnonymousVerify`/`StableWrite`
are the commands of the maintainer. Each reads the tree and the files it validates
in one step; every effect on Docker, registry and files is a step. `Edit`,
`Commit`, `MakePublic` and the builds of another worker happen in between.

### Run `publication`

One maintainer and one builder, two versions of the tree, three images, one edit,
one qualification run, one fault: `TypeOK`, `VerifiedTagRecorded`,
`ManifestQualified` and `ManifestServed` hold. Three images are a base, a Torch
image and one more of either kind, which is what makes a tag name something else
than what was qualified; one edit makes a commit or a dirty tree. 6.1 million states.

`VerifiedTagRecorded` accounts for every id that the verified tag names: it has a
record, its release is in progress, or it is `stray`, which means that a release
moved the tag to it and was killed, could not restore the tag, or could not look
the moved tag up again (`ReleaseUnchecked`, an observation of section 7). A rollback
that forgets something is caught in every run without such an end, and an id that
no release left there is caught in all.

There is one maintainer at a time: two concurrent releases would share temporary
names, and one could restore a tag that the other has taken back meanwhile. The
distinction of config and manifest digest, and the temporary files of a release,
are left out.

### What is proved

For any number of builders and maintainers, versions, images, edits, runs and
faults (`ReleasePublicationProofs`): `TypeCorrect`, `ManifestOnlyQualified`,
`ManifestPullable`, `VerifiedTagOnlyPassed`, from `EvidenceCorrect`; and
`VerifiedTagHasRecord`, whose hypothesis `OneMaintainer` says that two maintainers
are the same. The others need no such hypothesis: releases and publications that
run beside each other cannot get an unqualified image into the manifest.

Images never change and their ids are not used again (`Forward`), reports have
numbers and records, once written, stay. On top of that `Evidence` follows the chain
backwards: the number of a run identifies its report, wherever a copy of it is
held (`ReportsFiled`); a record, and a release tool that is past its check, are
about the image of a report that passed (`RecordsSound`); a publication under way
and its report are about an image with a record, built from the commit and locks
it names, and what was observed was pushed (`PublishSound`); the verified tag, and
the one a release tool would restore, are qualified (`TagQualified`). `TagRecorded`
adds that what a rollback would restore has a record or is stray, which is what
needs one maintainer: the tool of another would take a tag that is still to be
undone for the one to restore.

The work found an imprecision of the model: `PublishObserve` was a `CASE` with
arms that overlap when the base image is not the candidate any more, of which TLA+
may take either. It is now the order of the code's conditions, and so are
`NextCandidate` and `RetagParent` in `LocalImages`. TLC takes the first arm, so
that its results did not change.

## 6. LocalImages

### State and actions

| model | code |
| --- | --- |
| `selection` | the image identities in the installer's state |
| `config` | base image and digest pair in `amd-ai-project.toml` |
| `content` | the other files of the project's build context |
| `user[w]` | the installer, project run, project init or repair command of a worker; `copied` is the context that its project build has read |
| `overtaken` | history: workers whose command was overtaken by a build of other inputs |

| command | actions |
| --- | --- |
| install | `InstallStart`, `Pull`, `Verify`, `PullFails`, `VerifyFails`, `RecordPulled`; `Fallback`, `ValidateSource`, `BuildStarts`, `BuildSteps`, `BuildReturned`, `BuildAborted`, `LookUp`, `RecordBuilt`; `InstallResumes`; `BindParent`, `ParentBound`, `KeepConfig`, `CreateConfig` |
| project init | `ProjectInit`, then from `BindParent` |
| build or reuse (install, run, repair) | `Fingerprint`, `Reuse`, `Rebuild`, `ProjectRead`, `ProjectLoad`, `ProjectBuilt` |
| install and run | `InspectProject`, `LoadProfile` |
| run | `RunStart`, `StartContainer`, `ContainerExits` |
| repair | `Doctor` (diagnosis and confirmed plan), `Pull` to `RetagParent`, `RepairConfig`, build, `RemoveChanged`, `RepairDone` |
| outside | `ChangeContext`, `ProjectLock`, `LoseImage`, `DeleteProject`, `ReplaceConfig`, `Edit`, `Commit` |

`UserFails` ends a command at any step. The builds of the installer are those of
`ImageBuild`, run with the checkout the operator may edit meanwhile; other builds
and prune run beside them. A build of the project likewise reads the context when
it starts (`ProjectRead`) and moves the tag when it ends (`ProjectLoad`), with
edits, other builds and the checks of other commands in between. A command loads
the configuration once (`RunStart`, `KeepConfig`, `RepairConfig`); the file may be
deleted or replaced while it works, and is part of the context that is
fingerprinted and copied. `Release` is what the manifest names: two images made
elsewhere, which a pull by digest brings. An image of a project has two
descriptions of the context: `rev`, the fingerprint in its label, computed
before, and `locks`, what the build copied.

### Run `local_images`

One worker installs and repairs, the other builds, prunes and runs the project;
two registries, five images, three commands, two edits of the checkout, two changes
of the project, one removal or replacement by hand, and at most four of all these
together (`MaxEvents`): `TypeOK`, `SelectionTrusted`, `ContainerMatchesConfig` and
`RepairKeepsImage` hold, 2.2 million states. Five images are the release, a base
and Torch image built here, and a project image, or the release and three project
images. Three commands are an install, a run and a repair, two of which may be
under way at once; a command that ends early counts, so that with three a crash is
followed by the command that meets what it left and by one beside it. Four events
are enough for a build of edited sources, or of an edited project, to start before
and to end after the last check of an installer or of a run: TLC reaches a recorded
selection and a running container that were overtaken in this way, a configuration
replaced under a running container and a repair whose build gives the recorded image
again. An overtaking build for a *parent* other than the one loaded is not reached
with these bounds; the theorem covers it. The workers stop when the commands are
used up, so that deadlock is not checked.

Two of the properties make an exception, which the code does make:

- `SelectionTrusted`: nothing holds the friendly tags between the end of a build of
  the installer and its look-up (`installer/actions.py:617-628`). A build of other
  sources that ends there is looked up and recorded, although the checkout
  validates before and after. Two edits can also restore the checkout between the
  two validations. `quiet` says that neither happened.
- `ContainerMatchesConfig`: nothing holds the project tag between the last check
  (`project/run.py:171-224`, which compares the parent's digest only) and
  `docker run`, by tag. A build begun earlier, for another context or
  configuration, may end there. `Overtaken` is exactly that: a build of *another*
  command, for *other* inputs, that ends after the check. Moved tags, removed
  images, builds for the same inputs, prunes, edits and replaced configurations are
  no excuse.

### What is proved

For any number of workers, versions, registries, images, edits, changes, losses
and commands (`LocalImagesProofs`): `TypeCorrect`, `RepairKeepsBuilt`,
`SelectionOfSource` and `ContainerOfConfig`, which are all the properties of the
run. There is no common lock here, so that nothing is known of a tag because a
command has just set it. The invariants say what is known instead:

- `TypeInv`, with `Stage`: what every command holds for its next step. It gives
  `RepairKeepsBuilt`: a repair removes the image it recorded, by its id and with
  the names of that id only, and nothing when it is the one that was built.
- `Sourced`: as long as the checkout was not edited since the installer validated
  it (`BuildSound`), the tree and the head are the installer's commit and its own
  builds copy that commit (`Copied`); the shared build context can only be written
  anew from the same tree. Unless the installer was overtaken, the two friendly
  tags, once it built them, name images of this commit, or none, whoever put them
  there (`TagsSound`): a build that does not overtake is of the same locks, a pull
  brings the release, whose images are of the commit as well, and everything else
  only removes a tag. After one edit the tree differs, and the second validation
  refuses. `OneInstaller` is the coordination lock.
- `Used`: the project tag names project images only (`ProjectTag`). From the moment
  a command has seen it name an image with its fingerprint and its parent
  (`UseSound`), a build that does not overtake it has the same fingerprint, the same
  base image and, from the inspection on, the same digest; nothing else moves the
  tag to an image. So the image that is started, by tag and late, matches too. The
  invariant speaks of what the command loaded and never of the configuration
  and context as they are now, which may change at every step.

The assumptions have parts that the proofs asked for: the preferred
order names a registry at most once (`installer/registry.py:111-135` validates
that names are unique), and there are finitely many workers; `None` is none of the
ids. A doctor tries the registry it prefers first and then the others in order,
which is `PreferredFirst`.

What the properties leave open, because the code does, are the builds that overtake
a command and the two edits, as said at the run; and that two changes of the
project can restore the context after a build that started and copied between
them, whose label then vouches for files it does not have (section 7).

## 7. Findings and observations

Findings, each with a run that shows it:

1. `PruneKeepsCurrent`: retention keeps the two highest healthy ids and not the
   active generation; pip draws its id before it has the lock, so that the one
   activated last may have the lowest id, and once two more generations have
   been marked healthy it is deleted. `ActiveKept` is what does hold, and is proved.
2. `DanglingOverlayIsRepaired`: a dangling link, left by a repair that ended
   between quarantine and activation, is reported as repairable without the facts
   the planner needs, so that no repair that starts now gets to the retry in
   `overlay/repair.py`; only one that was planned before the quarantine does.
3. `QuarantineMatchesPlan`: the confirmed repair plan names a generation;
   execution quarantines whatever is active when it gets the lock.
4. `RerunFinishes`: an apply that ends after the first of its operations, or
   after the last and before the checkpoint, leaves a plan that the host does
   not need any more in this form. Resume plans again, finds another digest and
   stops, at every repetition. `FinishesOrObsolete` is what does hold: this
   is the only way for an installation not to complete.

Observations made while modelling, without a run of their own:

- A project image can be reused although it holds other files than its label
  says: the fingerprint is computed before `docker buildx` copies the context
  (`project/build.py:164-229`), and an edit that is taken back after the build
  makes the label right and the content wrong. `docs/project-workflow.md:36`
  promises a rebuild when the content changes. `ContainerMatchesConfig` therefore
  is about the label and the parent, which is what the code checks, and not about
  the files.
- A project build that began before an edit can end after the last check of
  another command and move the project tag: `docker run` by tag
  (`project/run.py:64-152`) then starts an image with another fingerprint than the
  one just verified. `project run` does not use the id that
  `build_or_reuse_project` returns (`cli.py:948-954`).
- A repair and a project run at once can leave the project without an image tag:
  the run's build, served from the cache, moves the tag back to the image that
  the repair removes next. The image that the repair built stays
  (`RepairKeepsImage`), and the next run builds again.
- `verify_release_image` (`installer/release.py:239-259`, `310-315`) turns a
  failing `inspect`, manifest query or hash into an identity error, which forbids
  the next registry; `docs/release-chain.md:31-32` counts a failed query among
  acquisition failures. The model has both outcomes at `Verify`.
- `build_local_images` takes the Torch digest from the build and the reference
  from the tag afterwards (`installer/actions.py:617-628`): with a concurrent
  build they can name two images. When that build read other sources and ends
  between the installer's and the look-up, the reference of an image of other locks
  is recorded and nothing notices, because the checkout is validated before and
  after only. `SelectionTrusted` has this as its exception, and is about the source,
  not about the pair.
- `doctor` calls a project with another parent repairable
  (`doctor/checks.py:309-328`), and `build_project` refuses exactly that
  (`doctor/repair.py:152`): `RepairConfig` stops there.
- The interactive repair passes a namespace without `state_path`
  (`cli.py:593-601`), which `_repair_command` reads (`cli.py:647`); and the doctor
  after a repair (`doctor/repair.py:203-210`) does not get the state path of the
  first one.
- The heartbeat decides under the lock and prints after it, so that a WAIT can
  appear over a question (`installer/progress.py:838`), while `docs/install.md:25`
  says the heartbeat is paused. `NoLateWait` is what does hold.
- Prune stops at the first image that Docker refuses to remove by id, one with
  several names for example, and leaves the rest (`image/build.py:493-496`).
- When the look-up of the verified tag fails after the tag was moved
  (`qualification/release.py:489-493`), `_tag_verified_image` raises before
  `tag_changed` is set (line 341), so that nothing is restored: the tag names an
  image without a record. `docs/gpu-qualification.md:76` has the artifacts follow
  the confirmed tag and promises a restored tag when writing them fails; of the
  confirmation it says nothing. `ReleaseUnchecked` is this path.
- Nothing protects the verified tag from prune, and the base image of a
  publication is never compared with the parent of its Torch image.

## 8. What is not modelled

- Copies of the overlay metadata in the project root: written, never read.
- Container mode, `--dry-run`, the migration of older state schemas and of
  projects of earlier versions, and the adoption of 0.3.0 by 0.3.1, which this
  version cannot reach.
- The commands inside one host operation, their backups, the recovery kernel.
- Whether the run is root's is a constant: TLC checks `AsRoot = FALSE`, the
  proofs cover both. One user: a second one has another coordination lock, which
  is listed as a hazard.
- Lock generators, experimental profiles, the suites of the qualification, disk
  estimates, the bootstrap of the toolkit itself, the installer fixture.
- Parsing, formatting, argument vectors, hardware checks.

## 9. Proved and only model-checked

Every safety property that a run checks is a theorem, with these exceptions:

- Liveness under fairness, and `ENABLED`, are not for the proof system:
  `LockReleased`, `RepairRestores`, `CallsReturn`, `FinishesOrObsolete`. TLC checks
  them on the instances above.
- The four properties of section 7 are false, as their runs show.

The induction theorems of the library take an operator as a parameter, which the
provers cannot instantiate. Where an induction over data is needed, for the texts
of section 4, it is done on sets of numbers (`LeastOf`, `InductionOn`), by
well-foundedness. No module declares a RECURSIVE operator.

The theorems assume only the named assumptions on the constants, which TLC
evaluates in every run: bounds are natural numbers, `None` is no member of the
sets it is added to, the empty text is among the texts of a command, and sets are
finite where a number of steps is counted. Three
have a hypothesis of their own: `LineageInvariance` and `Refinement` (`OrderedClock`
and `OnePip`), `VerifiedTagHasRecord` (`OneMaintainer`), each of which the instance
that checks the property satisfies. The inductive invariants were checked with TLC
on small instances like those of the runs before they were proved; `FlowInv`, which
speaks of all texts, with the positions of its cuts in the script instead.

## 10. Plan

In this order:

1. Container mode as a second stage order of `InstallerWorkflow`, and a lock per
   user.
2. Host operations with their backups, and the bootstrap of the toolkit with its
   switch of the current runtime.
3. The hazards without a property: a crash in the middle of the first
   initialization, one before `quarantine-state.json`, and inputs of completed
   stages that later stages rewrite.
