-------------------------- MODULE OverlayTransaction --------------------------
(***************************************************************************)
(* The project overlay kept under <project>/.amd-ai: a set of generations, *)
(* a `current' symbolic link that names the active one, a content-         *)
(* addressed store of wheels, a quarantine, and one flock that every       *)
(* mutation holds.  Three kinds of process work on it:                     *)
(*   - Pips:    the protected pip of overlay/cli.py (install, uninstall);  *)
(*   - Runs:    `project run': initialize_overlay on the host, then the    *)
(*              container entrypoint, which checks the overlay and calls   *)
(*              mark_generation_healthy (retention and garbage collection);*)
(*   - Doctors: `repair': a doctor report, a confirmed plan, and           *)
(*              repair_overlay, which quarantines the active generation    *)
(*              and replays its lock offline.                              *)
(* A process may leave at any step (an uncaught error, Ctrl-C, a kill, a   *)
(* cancelled prompt): the kernel drops the flock and the disk stays as it  *)
(* is.  The files of a generation are written before the next step starts  *)
(* and each rename is atomic, so a step is one durable effect.             *)
(***************************************************************************)
EXTENDS Naturals, FiniteSets

CONSTANTS
  Pips, Runs, Doctors,  \* the processes
  Wheel,                \* wheel artifacts, one per sha256
  None,                 \* no generation, no process
  OrderedClock,         \* ids are issued in increasing order
  MaxId,                \* bound: number of transaction ids
  MaxDamage,            \* bound: changes outside tools make to a generation
  MaxLosses,            \* bound: wheels they remove from the store
  MaxExits              \* bound: steps at which a process leaves early

Proc == Pips \union Runs \union Doctors
Id == 1..MaxId

\* What an outside tool may do to an installed generation: a protected
\* distribution in site-packages, an import that resolves outside the parent,
\* or metadata whose digest no longer matches overlay-state.json.
Damages == {"entry", "shadow", "metadata"}
Fault == Damages \union {"none"}

ASSUME OverlayAssumption ==
  /\ None \notin Id \union Proc
  /\ Pips \intersect Runs = {}
  /\ Pips \intersect Doctors = {}
  /\ Runs \intersect Doctors = {}
  /\ OrderedClock \in BOOLEAN
  /\ MaxId \in Nat /\ MaxExits \in Nat
  /\ MaxDamage \in Nat /\ MaxLosses \in Nat

VARIABLES
  current,    \* target of the current link, None before the first activation
  place,      \* where the directory of each generation is
  gen,        \* content of each generation
  qstatus,    \* status in quarantine-state.json, "missing" before it is written
  artifacts,  \* wheels in artifacts/sha256
  lock,       \* holder of transaction.lock
  pc,         \* next step of each process
  job,        \* what each process carries
  issued,     \* transaction ids handed out
  activated,  \* history: generations that were ever the target of current
  lost,       \* history: wheels an outside tool removed from the store
  damages, exits

disk == <<current, place, gen, qstatus, artifacts>>
history == <<activated, lost>>
bounds == <<damages, exits>>
vars == <<disk, lock, pc, job, issued, history, bounds>>

Gen == [lock: SUBSET Wheel, verified: BOOLEAN, recorded: BOOLEAN,
        healthy: BOOLEAN, fault: Fault]
NewGen(wheels) == [lock |-> wheels, verified |-> FALSE, recorded |-> FALSE,
                   healthy |-> FALSE, fault |-> "none"]

\* tx: the transaction id; wheels: the lock being resolved; seen: the current
\* generation the work is based on, the one pip verified or the one a confirmed
\* repair plan names; target: the generation a first initialization creates, or
\* the one a repair quarantined.
Job == [tx: Id \union {None}, wheels: SUBSET Wheel,
        seen: Id \union {None}, target: Id \union {None}]
NoJob == [tx |-> None, wheels |-> {}, seen |-> None, target |-> None]

Building == {"install", "record", "activate"}
Locked == Building \union
  {"open", "init.record", "init.activate", "verify", "resolve", "check",
   "prune", "collect", "repair", "quarantine", "replay", "finish"}
Unlocked == {"idle", "pip.lock", "run.lock", "repair.lock"}

TypeOK ==
  /\ current \in Id \union {None}
  /\ place \in [Id -> {"none", "generations", "quarantine", "deleted"}]
  /\ gen \in [Id -> Gen]
  /\ qstatus \in [Id -> {"missing", "quarantined", "rebuild-failed", "rebuilt"}]
  /\ artifacts \in SUBSET Wheel
  /\ lock \in Proc \union {None}
  /\ pc \in [Proc -> Locked \union Unlocked]
  /\ job \in [Proc -> Job]
  /\ issued \in SUBSET Id
  /\ activated \in SUBSET Id
  /\ lost \in SUBSET Wheel
  /\ damages \in 0..MaxDamage
  /\ exits \in 0..MaxExits

Init ==
  /\ current = None
  /\ place = [g \in Id |-> "none"]
  /\ gen = [g \in Id |-> NewGen({})]
  /\ qstatus = [g \in Id |-> "missing"]
  /\ artifacts = {}
  /\ lock = None
  /\ pc = [p \in Proc |-> "idle"]
  /\ job = [p \in Proc |-> NoJob]
  /\ issued = {}
  /\ activated = {}
  /\ lost = {}
  /\ damages = 0
  /\ exits = 0

(***************************************************************************)
(* Each MutX below is the definition X that follows it with a plausible    *)
(* mistake; no specification uses it.  The properties that X protects are  *)
(* violated when MutX takes its place.                                     *)
(***************************************************************************)

(***************************************************************************)
(* Reading the disk.                                                       *)
(***************************************************************************)

\* resolve_current_generation succeeds.
Resolves == current # None /\ place[current] = "generations"

\* The link is there and its target is not.
Dangling == current # None /\ place[current] # "generations"

\* The digests in overlay-state.json match the metadata files.
MetadataValid(g) == gen[g].fault # "metadata"

\* validate_lock_artifacts.
ArtifactsValid(g) == gen[g].lock \subseteq artifacts

MutHealthy == {g \in Id : gen[g].recorded /\ gen[g].healthy}

\* The healthy generations that mark_generation_healthy lists.
Healthy == {g \in Id : /\ place[g] = "generations"
                       /\ gen[g].recorded
                       /\ gen[g].healthy}

MutKeep == {g \in Healthy : \A h, k \in Healthy : (h < g /\ k < g) => h = k}

\* healthy[-2:] after the sort by generation id.
Keep == {g \in Healthy : \A h, k \in Healthy : (h > g /\ k > g) => h = k}

\* new_transaction_id: the time to the second and four random bytes.
NewId(i) ==
  /\ i \in Id \ issued
  /\ OrderedClock => \A j \in Id \ issued : i <= j
  /\ issued' = issued \union {i}

\* _create_generation, with the lock and the input that are written next.
Create(g, wheels) ==
  /\ place' = [place EXCEPT ![g] = "generations"]
  /\ gen' = [gen EXCEPT ![g] = NewGen(wheels)]

(***************************************************************************)
(* Taking and giving up the lock.                                          *)
(***************************************************************************)

Goto(p, label) == pc' = [pc EXCEPT ![p] = label]

MutAcquire(p, from, to) ==
  /\ pc[p] = from
  /\ lock' = p
  /\ Goto(p, to)
  /\ UNCHANGED <<disk, job, issued, history, bounds>>

\* overlay_transaction with LOCK_EX | LOCK_NB: a busy lock is an error.
Acquire(p, from, to) ==
  /\ pc[p] = from
  /\ lock = None
  /\ lock' = p
  /\ Goto(p, to)
  /\ UNCHANGED <<disk, job, issued, history, bounds>>

Busy(p, from) ==
  /\ pc[p] = from
  /\ lock # None
  /\ Goto(p, "idle")
  /\ job' = [job EXCEPT ![p] = NoJob]
  /\ UNCHANGED <<disk, lock, issued, history, bounds>>

\* The process is over: its result is on disk and the lock is free again.
Stop(p) ==
  /\ lock' = None
  /\ Goto(p, "idle")
  /\ job' = [job EXCEPT ![p] = NoJob]

MutExit(p) ==
  /\ Goto(p, "idle")
  /\ job' = [job EXCEPT ![p] = NoJob]
  /\ UNCHANGED <<disk, lock, issued, history, bounds>>

Exit(p) ==
  /\ Stop(p)
  /\ UNCHANGED <<disk, issued, history, bounds>>

\* The process ends before its next step; flock dies with its descriptor.
Leave(p) ==
  /\ pc[p] # "idle"
  /\ exits < MaxExits
  /\ exits' = exits + 1
  /\ lock' = IF lock = p THEN None ELSE lock
  /\ Goto(p, "idle")
  /\ job' = [job EXCEPT ![p] = NoJob]
  /\ UNCHANGED <<disk, issued, history, damages>>

\* A tool that does not go through pip changes the active generation,
Damage(fault) ==
  /\ Resolves
  /\ damages < MaxDamage
  /\ gen[current].fault = "none"
  /\ gen' = [gen EXCEPT ![current].fault = fault]
  /\ damages' = damages + 1
  /\ UNCHANGED <<current, place, qstatus, artifacts, lock, pc, job, issued,
                 history, exits>>

\* or removes a wheel from the store.
LoseArtifact(w) ==
  /\ w \in artifacts \ lost
  /\ Cardinality(lost) < MaxLosses
  /\ artifacts' = artifacts \ {w}
  /\ lost' = lost \union {w}
  /\ UNCHANGED <<current, place, gen, qstatus, lock, pc, job, issued,
                 activated, bounds>>

(***************************************************************************)
(* initialize_overlay: called by pip, and by project run on the host.      *)
(***************************************************************************)

MutOpened(p) == UNCHANGED lock /\ Goto(p, IF p \in Runs THEN "run.lock" ELSE "verify")

\* What follows it: pip goes on under the lock, project run gives it up and
\* starts the container.
Opened(p) ==
  IF p \in Runs
  THEN lock' = None /\ Goto(p, "run.lock")
  ELSE UNCHANGED lock /\ Goto(p, "verify")

\* A current link that resolves is reused,
OpenExisting(p) ==
  /\ pc[p] = "open"
  /\ Resolves
  /\ Opened(p)
  /\ UNCHANGED <<disk, job, issued, history, bounds>>

\* a dangling one and generations without a link are errors,
OpenRefused(p) ==
  /\ pc[p] = "open"
  /\ \/ Dangling
     \/ current = None /\ \E g \in Id : place[g] = "generations"
  /\ Exit(p)

\* and an empty directory gets its first generation, under an id drawn here
\* even when pip already holds one.
InitCreate(p) ==
  /\ pc[p] = "open"
  /\ current = None
  /\ \A g \in Id : place[g] # "generations"
  /\ \E i \in Id :
       /\ NewId(i)
       /\ Create(i, {})
       /\ job' = [job EXCEPT ![p].target = i]
  /\ Goto(p, "init.record")
  /\ UNCHANGED <<current, qstatus, artifacts, lock, history, bounds>>

\* _write_generation_metadata for an empty lock: there is nothing to install.
InitRecord(p) ==
  /\ pc[p] = "init.record"
  /\ gen' = [gen EXCEPT ![job[p].target].verified = TRUE,
                        ![job[p].target].recorded = TRUE]
  /\ Goto(p, "init.activate")
  /\ UNCHANGED <<current, place, qstatus, artifacts, lock, job, issued,
                 history, bounds>>

InitActivate(p) ==
  /\ pc[p] = "init.activate"
  /\ current' = job[p].target
  /\ activated' = activated \union {job[p].target}
  /\ Opened(p)
  /\ UNCHANGED <<place, gen, qstatus, artifacts, job, issued, lost, bounds>>

(***************************************************************************)
(* Protected pip.                                                          *)
(***************************************************************************)

\* Ids kept back from pip, so that the bound never makes an initialization
\* (there is one) or a replay (one per damage and doctor) wait for an id.
Reserve == 1 + MaxDamage * Cardinality(Doctors)

\* main draws the transaction id before it asks for the lock.
PipStart(p) ==
  /\ pc[p] = "idle"
  /\ Cardinality(Id \ issued) > Reserve
  /\ \E i \in Id : /\ NewId(i)
                   /\ job' = [job EXCEPT ![p].tx = i]
  /\ Goto(p, "pip.lock")
  /\ UNCHANGED <<disk, lock, history, bounds>>

CurrentVerifies ==
  /\ gen[current].fault = "none"
  /\ ArtifactsValid(current)

\* verify_current_generation.
PipVerify(p) ==
  /\ pc[p] = "verify"
  /\ CurrentVerifies
  /\ job' = [job EXCEPT ![p].seen = current]
  /\ Goto(p, "resolve")
  /\ UNCHANGED <<disk, lock, issued, history, bounds>>

PipRefused(p) ==
  /\ pc[p] = "verify"
  /\ ~CurrentVerifies
  /\ Exit(p)

\* A query, a request the parent already satisfies, a cancelled uninstall.
PipQuery(p) ==
  /\ pc[p] = "resolve"
  /\ job[p].wheels = {}
  /\ Exit(p)

\* store_wheel: each wheel of the resolver's report enters the store.
StoreWheel(p, w) ==
  /\ pc[p] = "resolve"
  /\ w \notin job[p].wheels
  /\ artifacts' = artifacts \union {w}
  /\ lost' = lost \ {w}
  /\ job' = [job EXCEPT ![p].wheels = @ \union {w}]
  /\ UNCHANGED <<current, place, gen, qstatus, lock, pc, issued, activated, bounds>>

(***************************************************************************)
(* build_generation: called by pip and by repair, lock held.               *)
(***************************************************************************)

PipBuild(p) ==
  /\ pc[p] = "resolve"
  /\ Create(job[p].tx, job[p].wheels)
  /\ Goto(p, "install")
  /\ UNCHANGED <<current, qstatus, artifacts, lock, job, issued, history, bounds>>

MutBuildInstall(p) ==
  /\ pc[p] = "install"
  /\ ArtifactsValid(job[p].tx)
  /\ gen' = [gen EXCEPT ![job[p].tx].verified = TRUE]
  /\ Goto(p, "activate")
  /\ UNCHANGED <<current, place, qstatus, artifacts, lock, job, issued,
                 history, bounds>>

\* validate_lock_artifacts, pip install --no-index, then the verifier.
BuildInstall(p) ==
  /\ pc[p] = "install"
  /\ ArtifactsValid(job[p].tx)
  /\ gen' = [gen EXCEPT ![job[p].tx].verified = TRUE]
  /\ Goto(p, "record")
  /\ UNCHANGED <<current, place, qstatus, artifacts, lock, job, issued,
                 history, bounds>>

\* overlay-state.json with healthy = false.
BuildRecord(p) ==
  /\ pc[p] = "record"
  /\ gen' = [gen EXCEPT ![job[p].tx].recorded = TRUE]
  /\ Goto(p, "activate")
  /\ UNCHANGED <<current, place, qstatus, artifacts, lock, job, issued,
                 history, bounds>>

\* activate_generation: os.replace of the link.  pip is then done.
BuildActivate(p) ==
  /\ pc[p] = "activate"
  /\ current' = job[p].tx
  /\ activated' = activated \union {job[p].tx}
  /\ IF p \in Doctors
     THEN UNCHANGED <<lock, job>> /\ Goto(p, "finish")
     ELSE Stop(p)
  /\ UNCHANGED <<place, gen, qstatus, artifacts, issued, lost, bounds>>

MutStatusAfter(g, status) == [qstatus EXCEPT ![g] = "blocked"]

\* _update_quarantine_status fails when quarantine-state.json was never written.
StatusAfter(g, status) ==
  IF qstatus[g] = "missing" THEN qstatus ELSE [qstatus EXCEPT ![g] = status]

\* The artifacts, the install or the verifier fail.  The generation stays as
\* it is, with transaction-failure.txt; a repair notes it in the quarantine.
BuildFails(p) ==
  /\ pc[p] \in Building
  /\ \/ pc[p] = "install" /\ ~ArtifactsValid(job[p].tx) /\ UNCHANGED exits
     \/ exits < MaxExits /\ exits' = exits + 1
  /\ qstatus' = IF p \in Doctors
                THEN StatusAfter(job[p].target, "rebuild-failed")
                ELSE qstatus
  /\ Stop(p)
  /\ UNCHANGED <<current, place, gen, artifacts, issued, history, damages>>

(***************************************************************************)
(* project run: after the host part, the entrypoint in the container.      *)
(***************************************************************************)

\* container-check imports through current/site-packages and scans it: it
\* sees a shadowed or a protected entry, not a changed digest.
CheckPasses == Resolves /\ gen[current].fault \notin {"entry", "shadow"}

RunRefused(p) ==
  /\ pc[p] = "check"
  /\ ~CheckPasses
  /\ Exit(p)

\* mark_generation_healthy: the health marker,
MarkHealthy(p) ==
  /\ pc[p] = "check"
  /\ CheckPasses
  /\ gen' = [gen EXCEPT ![current].healthy = TRUE]
  /\ Goto(p, "prune")
  /\ UNCHANGED <<current, place, qstatus, artifacts, lock, job, issued,
                 history, bounds>>

\* then rmtree of every healthy generation that is not kept,
PruneGeneration(p, g) ==
  /\ pc[p] = "prune"
  /\ g \in Healthy \ Keep
  /\ place' = [place EXCEPT ![g] = "deleted"]
  /\ UNCHANGED <<current, gen, qstatus, artifacts, lock, pc, job, issued,
                 history, bounds>>

MutPruneDone(p) ==
  /\ pc[p] = "prune"
  /\ Healthy = Keep
  /\ lock' = None
  /\ Goto(p, "collect")
  /\ UNCHANGED <<disk, job, issued, history, bounds>>

PruneDone(p) ==
  /\ pc[p] = "prune"
  /\ Healthy = Keep
  /\ Goto(p, "collect")
  /\ UNCHANGED <<disk, lock, job, issued, history, bounds>>

MutReferenced == UNION {gen[g].lock : g \in {h \in Keep : \E k \in Keep : k > h}}

\* and of every artifact that no kept lock references.
Referenced == UNION {gen[g].lock : g \in Keep}

CollectArtifact(p, w) ==
  /\ pc[p] = "collect"
  /\ w \in artifacts \ Referenced
  /\ artifacts' = artifacts \ {w}
  /\ UNCHANGED <<current, place, gen, qstatus, lock, pc, job, issued,
                 history, bounds>>

CollectDone(p) ==
  /\ pc[p] = "collect"
  /\ artifacts \subseteq Referenced
  /\ Exit(p)

(***************************************************************************)
(* repair: report and plan without the lock, repair_overlay with it.       *)
(***************************************************************************)

\* _check_overlay, plan_repair and the confirmation.  Of the two overlay
\* diagnoses only TORCH.SHADOWED leads to a plan, so it is the reason of every
\* quarantine: for OVERLAY.LOCK_INVALID the report returns before it sets
\* current_generation and last_valid_lock, and plan_repair raises on that.
DoctorPlan(d) ==
  /\ pc[d] = "idle"
  /\ Resolves
  /\ gen[current].fault = "shadow"
  /\ ArtifactsValid(current)
  /\ job' = [job EXCEPT ![d].seen = current]
  /\ Goto(d, "repair.lock")
  /\ UNCHANGED <<disk, lock, issued, history, bounds>>

\* _existing_retry: a dangling link whose target sits in the quarantine.
RepairRetry(d) ==
  /\ pc[d] = "repair"
  /\ current # None
  /\ place[current] = "quarantine"
  /\ job' = [job EXCEPT ![d].target = current]
  /\ Goto(d, "replay")
  /\ UNCHANGED <<disk, lock, issued, history, bounds>>

\* _quarantine_current: os.replace of whatever is current by now.
RepairQuarantine(d) ==
  /\ pc[d] = "repair"
  /\ Resolves
  /\ MetadataValid(current)
  /\ place' = [place EXCEPT ![current] = "quarantine"]
  /\ job' = [job EXCEPT ![d].target = current]
  /\ Goto(d, "quarantine")
  /\ UNCHANGED <<current, gen, qstatus, artifacts, lock, issued, history, bounds>>

\* A link that dangles for another reason, or metadata that changed.
RepairRefused(d) ==
  /\ pc[d] = "repair"
  /\ \/ Dangling /\ place[current] # "quarantine"
     \/ Resolves /\ ~MetadataValid(current)
  /\ Exit(d)

MutRepairRecord(d) ==
  /\ pc[d] = "quarantine"
  /\ qstatus' = [qstatus EXCEPT ![job[d].target] = "quarantined"]
  /\ Stop(d)
  /\ UNCHANGED <<current, place, gen, artifacts, issued, history, bounds>>

\* quarantine-state.json and doctor-report.json.
RepairRecord(d) ==
  /\ pc[d] = "quarantine"
  /\ qstatus' = [qstatus EXCEPT ![job[d].target] = "quarantined"]
  /\ Goto(d, "replay")
  /\ UNCHANGED <<current, place, gen, artifacts, lock, job, issued, history, bounds>>

MutReplayLock(d) == job[d].wheels

\* lock_text of _validate_quarantined_generation.
ReplayLock(d) == gen[job[d].target].lock

\* The quarantined lock is valid: build a generation from it, under a new id.
RepairReplay(d) ==
  /\ pc[d] = "replay"
  /\ ArtifactsValid(job[d].target)
  /\ \E i \in Id : /\ NewId(i)
                   /\ job' = [job EXCEPT ![d].tx = i]
                   /\ Create(i, ReplayLock(d))
  /\ Goto(d, "install")
  /\ UNCHANGED <<current, qstatus, artifacts, lock, history, bounds>>

\* It is not: the error leaves the quarantine as it is.
RepairInvalid(d) ==
  /\ pc[d] = "replay"
  /\ ~ArtifactsValid(job[d].target)
  /\ Exit(d)

RepairFinish(d) ==
  /\ pc[d] = "finish"
  /\ qstatus' = StatusAfter(job[d].target, "rebuilt")
  /\ Stop(d)
  /\ UNCHANGED <<current, place, gen, artifacts, issued, history, bounds>>

(***************************************************************************)
(* The next-state relation.                                                *)
(***************************************************************************)

Build(p) == BuildInstall(p) \/ BuildRecord(p) \/ BuildActivate(p) \/ BuildFails(p)

Initialize(p) ==
  \/ OpenExisting(p)
  \/ OpenRefused(p)
  \/ InitCreate(p)
  \/ InitRecord(p)
  \/ InitActivate(p)

PipStep(p) ==
  \/ Acquire(p, "pip.lock", "open")
  \/ Busy(p, "pip.lock")
  \/ Initialize(p)
  \/ PipVerify(p)
  \/ PipRefused(p)
  \/ PipQuery(p)
  \/ \E w \in Wheel : StoreWheel(p, w)
  \/ PipBuild(p)
  \/ Build(p)

RunStep(p) ==
  \/ Initialize(p)
  \/ Acquire(p, "run.lock", "check")
  \/ Busy(p, "run.lock")
  \/ RunRefused(p)
  \/ MarkHealthy(p)
  \/ \E g \in Id : PruneGeneration(p, g)
  \/ PruneDone(p)
  \/ \E w \in Wheel : CollectArtifact(p, w)
  \/ CollectDone(p)

RepairStep(d) ==
  \/ Acquire(d, "repair.lock", "repair")
  \/ Busy(d, "repair.lock")
  \/ RepairRetry(d)
  \/ RepairQuarantine(d)
  \/ RepairRefused(d)
  \/ RepairRecord(d)
  \/ RepairReplay(d)
  \/ RepairInvalid(d)
  \/ Build(d)
  \/ RepairFinish(d)

Next ==
  \/ \E p \in Pips : PipStart(p) \/ PipStep(p)
  \/ \E p \in Runs : Acquire(p, "idle", "open") \/ RunStep(p)
  \/ \E d \in Doctors : DoctorPlan(d) \/ RepairStep(d)
  \/ \E p \in Proc : Leave(p)
  \/ \E fault \in Damages : Damage(fault)
  \/ \E w \in Wheel : LoseArtifact(w)

Spec == Init /\ [][Next]_vars

\* A command that has started goes on: its steps are straight-line code and
\* subprocesses that end.  Nobody has to start one.
FairSpec ==
  /\ Spec
  /\ \A p \in Pips : WF_vars(PipStep(p))
  /\ \A p \in Runs : WF_vars(RunStep(p))
  /\ \A d \in Doctors : WF_vars(RepairStep(d))

(***************************************************************************)
(* Safety.                                                                 *)
(***************************************************************************)

\* The link never names a generation whose files, verification or state
\* record are incomplete, whichever step a process left at: build_generation
\* and initialize_overlay activate last.
ActiveGenerationComplete ==
  current # None => gen[current].verified /\ gen[current].recorded

\* The active generation can always be replayed offline: as long as its
\* directory exists, active or quarantined, every wheel of its lock is in the
\* store, unless an outside tool removed it.  No garbage collection of a run
\* takes one, whatever the order of the ids, also between the steps of a
\* repair that was interrupted.
ActiveReplayable ==
  (current # None /\ place[current] \in {"generations", "quarantine"}) =>
    gen[current].lock \subseteq artifacts \union lost

\* Retention keeps the active generation as long as ids follow the order of
\* activation: mark_generation_healthy keeps the last two healthy ids, not the
\* current one and the one before it.
ActiveKept ==
  (current # None /\ \A g \in activated : g <= current) =>
    place[current] # "deleted"

\* One lock serializes every step that changes the overlay: at most the holder
\* of transaction.lock is inside a transaction, and a process that left is not.
SingleMutator == \A p \in Proc : pc[p] \in Locked <=> lock = p

\* What pip resolved, top-level requirements merged into those of the
\* generation it verified, replaces that generation and no other: no install is
\* lost to a concurrent command.
NoLostInstall ==
  \A p \in Pips : pc[p] \in {"resolve"} \union Building =>
    job[p].seen = current /\ Resolves

\* A wheel that pip stored or a replay relies on is still there when it is
\* installed, unless an outside tool removed it.
PendingWheelsKept ==
  \A p \in Proc :
    /\ pc[p] = "resolve" => job[p].wheels \subseteq artifacts \union lost
    /\ pc[p] \in Building => gen[job[p].tx].lock \subseteq artifacts \union lost

\* A quarantine that says "rebuilt" is right: a verified generation with the
\* same lock, other than the quarantined one, was activated.
QuarantineTruthful ==
  \A g \in Id : qstatus[g] = "rebuilt" =>
    \E h \in activated \ {g} : gen[h].lock = gen[g].lock

\* The current link changes only under the lock, to a generation that was never
\* active before: no step of two commands brings an older one back.
LinkMovesForward ==
  [][current' # current =>
       /\ lock # None
       /\ current' \notin activated
       /\ current' \in activated']_vars

\* An activated generation keeps its lock, and a quarantined one, the evidence
\* of a repair, is never moved or deleted.
EvidencePreserved ==
  [][\A g \in activated :
       /\ gen'[g].lock = gen[g].lock
       /\ place[g] = "quarantine" => place'[g] = "quarantine"]_vars

(***************************************************************************)
(* Liveness, under FairSpec.                                               *)
(***************************************************************************)

\* No command keeps the transaction lock forever.
LockReleased == \A p \in Proc : lock = p ~> lock # p

\* A repair that gets the lock and runs to its end gives a verified overlay
\* back, unless some process left early or a wheel was lost (MaxDamage = 1: the
\* damage being repaired is the only one).
RepairRestores ==
  \A d \in Doctors :
    pc[d] = "repair" ~> \/ Resolves /\ CurrentVerifies
                       \/ exits > 0 \/ lost # {}

(***************************************************************************)
(* The promise to users.                                                   *)
(***************************************************************************)

Status ==
  CASE current = None -> "new"
    [] Resolves -> "serving"
    [] current # None /\ place[current] = "quarantine" -> "withdrawn"
    [] OTHER -> "deleted"

Atomic == INSTANCE AtomicOverlay WITH
  status <- Status,
  wheels <- IF current = None THEN {} ELSE gen[current].lock,
  stock <- artifacts \union lost

\* With one pip and ids in order, every step on disk is a step of the atomic
\* overlay or invisible to its users.
ImplementsAtomicOverlay == Atomic!Spec

(***************************************************************************)
(* What the documentation says and the code does not do.                   *)
(***************************************************************************)

\* The implementation plan of the overlay: "A successful startup ... retains
\* only the current and immediately previous healthy generation".  The code
\* retains the two highest ids, and pip draws its id before it has the lock.
PruneKeepsCurrent == current # None => place[current] # "deleted"

\* The implementation plan of the doctor: "a dangling current link or invalid
\* active generation is repairable", and repair.py has a retry for the dangling
\* link that a failed or interrupted repair leaves.  Somebody keeps running
\* repair, and the overlay comes back.  In the code the report of a dangling
\* link has no current_generation, and plan_repair raises.
DanglingOverlayIsRepaired == Dangling ~> (Resolves /\ CurrentVerifies)

\* The documentation of repair: the plan contains the exact targets.  What is
\* quarantined is the generation the confirmed plan names.
QuarantineMatchesPlan ==
  [][\A g \in Id : place[g] # "quarantine" /\ place'[g] = "quarantine" =>
       \E d \in Doctors : pc[d] = "repair" /\ job[d].seen = g]_vars

\* repair keeps being run: the fairness of the second property above.
RepairingSpec ==
  /\ FairSpec
  /\ \A d \in Doctors : WF_vars(DoctorPlan(d))
  /\ \A d \in Doctors : SF_vars(Acquire(d, "repair.lock", "repair"))
===============================================================================
