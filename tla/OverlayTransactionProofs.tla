------------------------ MODULE OverlayTransactionProofs ------------------------
(***************************************************************************)
(* Theorems about OverlayTransaction, for any number of processes, ids,    *)
(* wheels, damages and early exits.                                        *)
(***************************************************************************)
EXTENDS OverlayTransaction, TLAPS

(***************************************************************************)
(* Type correctness.  A process that is about to activate a generation     *)
(* knows which.                                                            *)
(***************************************************************************)

Initializing == {"init.record", "init.activate"}
Repairing == {"quarantine", "replay", "finish"} \union Building

JobTyped ==
  \A p \in Proc :
    /\ p \in Pips /\ pc[p] # "idle" => job[p].tx \in Id
    /\ pc[p] \in Building => job[p].tx \in Id
    /\ pc[p] \in Initializing => job[p].target \in Id
    /\ p \in Doctors /\ pc[p] \in Repairing => job[p].target \in Id
    /\ p \in Doctors \/ pc[p] \notin {"resolve"} \union Building =>
         job[p].wheels = {}

TypeInv == TypeOK /\ JobTyped

\* Updates of one field keep the type of a record.
LEMMA GenUpdates ==
  ASSUME TypeOK, NEW g
  PROVE  /\ [gen EXCEPT ![g].verified = TRUE] \in [Id -> Gen]
         /\ [gen EXCEPT ![g].recorded = TRUE] \in [Id -> Gen]
         /\ [gen EXCEPT ![g].healthy = TRUE] \in [Id -> Gen]
         /\ [gen EXCEPT ![g].verified = TRUE, ![g].recorded = TRUE] \in [Id -> Gen]
         /\ \A f \in Fault : [gen EXCEPT ![g].fault = f] \in [Id -> Gen]
         /\ \A ws \in SUBSET Wheel : [gen EXCEPT ![g] = NewGen(ws)] \in [Id -> Gen]
<1> gen \in [Id -> Gen]
  BY DEF TypeOK
<1> QED BY ZenonT(60) DEF Gen, NewGen, Fault

LEMMA JobUpdates ==
  ASSUME TypeOK, NEW p, NEW g \in Id \union {None}
  PROVE  /\ [job EXCEPT ![p].tx = g] \in [Proc -> Job]
         /\ [job EXCEPT ![p].target = g] \in [Proc -> Job]
         /\ [job EXCEPT ![p].seen = g] \in [Proc -> Job]
<1> job \in [Proc -> Job]
  BY DEF TypeOK
<1> QED BY ZenonT(60) DEF Job

LEMMA TypeInit == Init => TypeInv
BY OverlayAssumption
DEF Init, TypeInv, TypeOK, JobTyped, Gen, NewGen, Job, NoJob, Fault, Damages,
    Unlocked, Building, Initializing, Repairing

LEMMA TypeNext == TypeInv /\ [Next]_vars => TypeInv'
<1> USE OverlayAssumption
    DEF Fault, Damages, Locked, Unlocked, Building, Initializing, Repairing, Goto, Stop, Exit
<1> SUFFICES ASSUME TypeOK, JobTyped, [Next]_vars
             PROVE  TypeInv'
  BY DEF TypeInv
<1>1. ASSUME NEW p \in Pips, PipStart(p) PROVE TypeInv'
  BY <1>1 DEF PipStart, NewId, disk, history, bounds, Proc,
     TypeInv, TypeOK, JobTyped, Job, NoJob
<1>2. ASSUME NEW p \in Proc, NEW from \in Unlocked \ {"idle"},
             Busy(p, from)
      PROVE  TypeInv'
  BY <1>2 DEF Busy, disk, history, bounds, Proc,
     TypeInv, TypeOK, JobTyped, Job, NoJob
<1>3. ASSUME NEW p \in Proc, NEW from \in Unlocked,
             NEW to \in {"open", "check", "repair"}, Acquire(p, from, to),
             p \in Pips => from # "idle"
      PROVE  TypeInv'
  BY <1>3 DEF Acquire, disk, history, bounds, Proc,
     TypeInv, TypeOK, JobTyped, Job, NoJob
<1>4. ASSUME NEW p \in Pips \union Runs, Initialize(p) PROVE TypeInv'
  <2>1. CASE OpenExisting(p)
    BY <2>1 DEF OpenExisting, Opened, disk, history, bounds, Proc,
     TypeInv, TypeOK, JobTyped, Job, NoJob
  <2>2. CASE OpenRefused(p)
    BY <2>2 DEF OpenRefused, disk, history, bounds, Proc,
     TypeInv, TypeOK, JobTyped, Job, NoJob
  <2>3. CASE InitCreate(p)
    <3>1. PICK i \in Id : NewId(i) /\ Create(i, {}) /\ job' = [job EXCEPT ![p].target = i]
      BY <2>3 DEF InitCreate
    <3>2. gen' \in [Id -> Gen]
      BY <3>1, GenUpdates DEF Create
    <3>3. job' \in [Proc -> Job]
      BY <3>1, JobUpdates
    <3>4. JobTyped'
      BY <3>1, <2>3 DEF InitCreate, Proc, JobTyped, TypeOK, Job
    <3> QED BY <2>3, <3>1, <3>2, <3>3, <3>4
        DEF InitCreate, Create, NewId, history, bounds, TypeInv, TypeOK
  <2>4. CASE InitRecord(p)
    <3>1. gen' \in [Id -> Gen]
      BY <2>4, GenUpdates DEF InitRecord
    <3> QED BY <2>4, <3>1 DEF InitRecord, disk, history, bounds, Proc,
     TypeInv, TypeOK, JobTyped, Job, NoJob
  <2>5. CASE InitActivate(p)
    BY <2>5 DEF InitActivate, Opened, disk, history, bounds, Proc,
     TypeInv, TypeOK, JobTyped, Job, NoJob
  <2> QED BY <1>4, <2>1, <2>2, <2>3, <2>4, <2>5 DEF Initialize
<1>5. ASSUME NEW p \in Pips, PipVerify(p) \/ PipRefused(p) \/ PipQuery(p)
      PROVE  TypeInv'
  BY <1>5 DEF PipVerify, PipRefused, PipQuery, disk, history, bounds, Proc,
     TypeInv, TypeOK, JobTyped, Job, NoJob
<1>6. ASSUME NEW p \in Pips, NEW w \in Wheel, StoreWheel(p, w)
      PROVE  TypeInv'
  BY <1>6 DEF StoreWheel, disk, history, bounds, Proc,
     TypeInv, TypeOK, JobTyped, Job, NoJob
<1>7. ASSUME NEW p \in Pips, PipBuild(p) PROVE TypeInv'
  <2>1. gen' \in [Id -> Gen]
    <3>1. job[p].wheels \in SUBSET Wheel
      BY DEF TypeOK, Job, Proc
    <3> QED BY <1>7, <3>1, GenUpdates DEF PipBuild, Create
  <2> QED BY <1>7, <2>1 DEF PipBuild, Create, disk, history, bounds, Proc,
     TypeInv, TypeOK, JobTyped, Job, NoJob
<1>8. ASSUME NEW p \in Pips \union Doctors, Build(p) PROVE TypeInv'
  <2>1. CASE BuildInstall(p)
    <3>1. gen' \in [Id -> Gen]
      BY <2>1, GenUpdates DEF BuildInstall
    <3> QED BY <2>1, <3>1 DEF BuildInstall, disk, history, bounds, Proc,
     TypeInv, TypeOK, JobTyped, Job, NoJob
  <2>2. CASE BuildRecord(p)
    <3>1. gen' \in [Id -> Gen]
      BY <2>2, GenUpdates DEF BuildRecord
    <3> QED BY <2>2, <3>1 DEF BuildRecord, disk, history, bounds, Proc,
     TypeInv, TypeOK, JobTyped, Job, NoJob
  <2>3. CASE BuildActivate(p)
    BY <2>3 DEF BuildActivate, disk, history, bounds, Proc,
     TypeInv, TypeOK, JobTyped, Job, NoJob
  <2>4. CASE BuildFails(p)
    <3>1. qstatus' \in [Id -> {"missing", "quarantined", "rebuild-failed", "rebuilt"}]
      BY <2>4 DEF BuildFails, StatusAfter, TypeOK
    <3> QED BY <2>4, <3>1 DEF BuildFails, disk, history, bounds, Proc,
     TypeInv, TypeOK, JobTyped, Job, NoJob
  <2> QED BY <1>8, <2>1, <2>2, <2>3, <2>4 DEF Build
<1>9. ASSUME NEW p \in Runs, MarkHealthy(p) PROVE TypeInv'
  <2>1. gen' \in [Id -> Gen]
    BY <1>9, GenUpdates DEF MarkHealthy
  <2> QED BY <1>9, <2>1 DEF MarkHealthy, disk, history, bounds, Proc,
     TypeInv, TypeOK, JobTyped, Job, NoJob
<1>10. ASSUME NEW p \in Runs,
              RunRefused(p) \/ PruneDone(p) \/ CollectDone(p)
       PROVE  TypeInv'
  BY <1>10 DEF RunRefused, PruneDone, CollectDone, disk, history, bounds, Proc,
     TypeInv, TypeOK, JobTyped, Job, NoJob
<1>11. ASSUME NEW p \in Runs, NEW g \in Id, PruneGeneration(p, g)
       PROVE  TypeInv'
  BY <1>11 DEF PruneGeneration, disk, history, bounds, Proc,
     TypeInv, TypeOK, JobTyped, Job, NoJob
<1>12. ASSUME NEW p \in Runs, NEW w \in Wheel, CollectArtifact(p, w)
       PROVE  TypeInv'
  BY <1>12 DEF CollectArtifact, disk, history, bounds, Proc,
     TypeInv, TypeOK, JobTyped, Job, NoJob
<1>13. ASSUME NEW d \in Doctors,
              DoctorPlan(d) \/ RepairRetry(d) \/ RepairQuarantine(d)
       PROVE  TypeInv'
  <2>1. current \in Id \union {None}
    BY DEF TypeOK
  <2>2. job' \in [Proc -> Job]
    <3>1. \/ job' = [job EXCEPT ![d].seen = current]
          \/ job' = [job EXCEPT ![d].target = current]
      BY <1>13 DEF DoctorPlan, RepairRetry, RepairQuarantine
    <3>2. CASE job' = [job EXCEPT ![d].seen = current]
      BY <2>1, <3>2, JobUpdates
    <3>3. CASE job' = [job EXCEPT ![d].target = current]
      BY <2>1, <3>3, JobUpdates
    <3> QED BY <3>1, <3>2, <3>3
  <2> QED BY <1>13, <2>1, <2>2
      DEF DoctorPlan, RepairRetry, RepairQuarantine, Resolves, disk, history, bounds, Proc,
     TypeInv, TypeOK, JobTyped, Job, NoJob
<1>14. ASSUME NEW d \in Doctors, RepairRefused(d) \/ RepairInvalid(d)
       PROVE  TypeInv'
  BY <1>14 DEF RepairRefused, RepairInvalid, disk, history, bounds, Proc,
     TypeInv, TypeOK, JobTyped, Job, NoJob
<1>15. ASSUME NEW d \in Doctors, RepairRecord(d) PROVE TypeInv'
  BY <1>15 DEF RepairRecord, disk, history, bounds, Proc,
     TypeInv, TypeOK, JobTyped, Job, NoJob
<1>16. ASSUME NEW d \in Doctors, RepairReplay(d) PROVE TypeInv'
  <2>1. PICK i \in Id : /\ NewId(i)
                        /\ job' = [job EXCEPT ![d].tx = i]
                        /\ Create(i, ReplayLock(d))
    BY <1>16 DEF RepairReplay
  <2>2. gen' \in [Id -> Gen]
    <3>1. ReplayLock(d) \in SUBSET Wheel
      BY <1>16 DEF RepairReplay, ReplayLock, TypeOK, JobTyped, Gen, Proc
    <3> QED BY <2>1, <3>1, GenUpdates DEF Create
  <2>3. job' \in [Proc -> Job]
    BY <2>1, JobUpdates
  <2>4. JobTyped'
    BY <2>1, <1>16 DEF RepairReplay, Proc, JobTyped, TypeOK, Job
  <2> QED BY <1>16, <2>1, <2>2, <2>3, <2>4
      DEF RepairReplay, Create, NewId, history, bounds, TypeInv, TypeOK
<1>17. ASSUME NEW d \in Doctors, RepairFinish(d) PROVE TypeInv'
  <2>1. qstatus' \in [Id -> {"missing", "quarantined", "rebuild-failed", "rebuilt"}]
    BY <1>17 DEF RepairFinish, StatusAfter, TypeOK
  <2> QED BY <1>17, <2>1 DEF RepairFinish, disk, history, bounds, Proc,
     TypeInv, TypeOK, JobTyped, Job, NoJob
<1>18. ASSUME NEW p \in Proc, Leave(p) PROVE TypeInv'
  BY <1>18 DEF Leave, disk, history, bounds, Proc,
     TypeInv, TypeOK, JobTyped, Job, NoJob
<1>19. ASSUME NEW fault \in Damages, Damage(fault) PROVE TypeInv'
  <2>1. gen' \in [Id -> Gen]
    BY <1>19, GenUpdates DEF Damage
  <2> QED BY <1>19, <2>1 DEF Damage, disk, history, bounds, Proc,
     TypeInv, TypeOK, JobTyped, Job, NoJob
<1>20. ASSUME NEW w \in Wheel, LoseArtifact(w) PROVE TypeInv'
  BY <1>20 DEF LoseArtifact, disk, history, bounds, Proc,
     TypeInv, TypeOK, JobTyped, Job, NoJob
<1>21. CASE UNCHANGED vars
  BY <1>21 DEF vars, disk, history, bounds, Proc,
     TypeInv, TypeOK, JobTyped, Job, NoJob
<1> QED
  BY <1>1, <1>2, <1>3, <1>4, <1>5, <1>6, <1>7, <1>8, <1>9, <1>10, <1>11,
     <1>12, <1>13, <1>14, <1>15, <1>16, <1>17, <1>18, <1>19, <1>20, <1>21
  DEF Next, PipStep, RunStep, RepairStep, Proc

\* Every variable keeps its type: the link, the jobs of the processes and the
\* records on disk only ever name generations, wheels and states that exist.
THEOREM TypeCorrect == Spec => []TypeOK
<1>1. TypeInv => TypeOK
  BY DEF TypeInv
<1> QED BY TypeInit, TypeNext, <1>1, PTL DEF Spec

(***************************************************************************)
(* Mutual exclusion.  SingleMutator is inductive once pc is typed: a step  *)
(* inside a transaction is a step of the holder, and the lock is taken     *)
(* only when it is free.                                                   *)
(***************************************************************************)

LEMMA MutexInit == Init => SingleMutator
BY OverlayAssumption DEF Init, SingleMutator, Locked, Building

LEMMA MutexNext == TypeInv /\ SingleMutator /\ [Next]_vars => SingleMutator'
<1> USE OverlayAssumption
    DEF Locked, Unlocked, Building, Goto, Stop, Exit, SingleMutator
<1> SUFFICES ASSUME SingleMutator, [Next]_vars,
                    pc \in [Proc -> Locked \union Unlocked],
                    lock \in Proc \union {None}, None \notin Proc
             PROVE  SingleMutator'
  BY DEF TypeInv, TypeOK
<1>1. ASSUME NEW p \in Proc, NEW from \in Unlocked,
             NEW to \in {"open", "check", "repair"},
             Acquire(p, from, to) \/ Busy(p, from)
      PROVE  SingleMutator'
  BY <1>1 DEF Acquire, Busy
<1>2. ASSUME NEW p \in Pips \union Runs, Initialize(p) PROVE SingleMutator'
  BY <1>2 DEF Initialize, OpenExisting, OpenRefused, InitCreate, InitRecord,
              InitActivate, Opened, Proc
<1>3. ASSUME NEW p \in Pips,
             \/ PipVerify(p)
             \/ PipRefused(p)
             \/ PipQuery(p)
             \/ \E w \in Wheel : StoreWheel(p, w)
             \/ PipBuild(p)
      PROVE  SingleMutator'
  BY <1>3 DEF PipVerify, PipRefused, PipQuery, StoreWheel, PipBuild, Proc
<1>4. ASSUME NEW p \in Proc, Build(p) PROVE SingleMutator'
  BY <1>4 DEF Build, BuildInstall, BuildRecord, BuildActivate, BuildFails
<1>5. ASSUME NEW p \in Runs,
             \/ RunRefused(p)
             \/ MarkHealthy(p)
             \/ PruneDone(p)
             \/ CollectDone(p)
             \/ \E g \in Id : PruneGeneration(p, g)
             \/ \E w \in Wheel : CollectArtifact(p, w)
      PROVE  SingleMutator'
  BY <1>5 DEF RunRefused, MarkHealthy, PruneDone, CollectDone,
              PruneGeneration, CollectArtifact, Proc
<1>6. ASSUME NEW d \in Doctors,
             \/ RepairRetry(d)
             \/ RepairQuarantine(d)
             \/ RepairRefused(d)
             \/ RepairRecord(d)
             \/ RepairReplay(d)
             \/ RepairInvalid(d)
             \/ RepairFinish(d)
      PROVE  SingleMutator'
  BY <1>6 DEF RepairRetry, RepairQuarantine, RepairRefused, RepairRecord,
              RepairReplay, RepairInvalid, RepairFinish, Proc
<1>7. ASSUME NEW p \in Proc, PipStart(p) \/ DoctorPlan(p)
      PROVE  SingleMutator'
  BY <1>7 DEF PipStart, DoctorPlan
<1>8. ASSUME NEW p \in Proc, Leave(p) PROVE SingleMutator'
  BY <1>8 DEF Leave
<1>9. CASE \/ \E fault \in Damages : Damage(fault)
           \/ \E w \in Wheel : LoseArtifact(w)
           \/ UNCHANGED vars
  BY <1>9 DEF Damage, LoseArtifact, vars
<1> QED
  BY <1>1, <1>2, <1>3, <1>4, <1>5, <1>6, <1>7, <1>8, <1>9
  DEF Next, PipStep, RunStep, RepairStep, Proc

\* At any moment at most the holder of transaction.lock is inside a
\* transaction, whoever leaves and whenever.
THEOREM MutualExclusion == Spec => []SingleMutator
BY TypeInit, TypeNext, MutexInit, MutexNext, PTL DEF Spec

(***************************************************************************)
(* Ids.  A generation that is still being built was never active, and no   *)
(* two commands build the same one.                                        *)
(***************************************************************************)

FreshIds ==
  /\ activated \subseteq issued
  /\ current # None => current \in activated
  /\ \A p \in Proc :
       /\ job[p].tx # None =>
            /\ job[p].tx \in issued
            /\ pc[p] # "finish" => job[p].tx \notin activated
            /\ \A q \in Proc \ {p} : job[p].tx # job[q].tx
       /\ pc[p] \in Initializing =>
            /\ job[p].target \in issued \ activated
            /\ \A q \in Proc : job[p].target # job[q].tx

LEMMA FreshInit == Init => FreshIds
BY SMTT(30) DEF Init, FreshIds, NoJob, Initializing

LEMMA FreshNext ==
  TypeInv /\ SingleMutator /\ FreshIds /\ [Next]_vars => FreshIds'
<1> USE OverlayAssumption
    DEF Goto, Stop, Exit, NoJob, Initializing, FreshIds
<1> SUFFICES ASSUME TypeInv, SingleMutator, FreshIds, [Next]_vars,
                    pc \in [Proc -> Locked \union Unlocked],
                    job \in [Proc -> Job], issued \subseteq Id, None \notin Id,
                    activated \subseteq Id
             PROVE  FreshIds'
  BY DEF TypeInv, TypeOK
<1>a. \A p \in Proc : /\ job[p].tx \in Id \union {None}
                      /\ job[p].target \in Id \union {None}
  BY DEF Job
<1>1. ASSUME NEW p \in Proc, NEW from \in Unlocked,
             NEW to \in {"open", "check", "repair"},
             Acquire(p, from, to) \/ Busy(p, from)
      PROVE  FreshIds'
  <2>1. CASE Acquire(p, from, to)
    BY <2>1, <1>a DEF Acquire, disk, history, Unlocked, Job
  <2>2. CASE Busy(p, from)
    BY <2>2, <1>a DEF Busy, disk, history, Unlocked, Job
  <2> QED BY <1>1, <2>1, <2>2
<1>2. ASSUME NEW p \in Proc, OpenExisting(p) \/ OpenRefused(p) \/ InitRecord(p)
      PROVE  FreshIds'
  BY SMTT(30), <1>2, <1>a
  DEF OpenExisting, OpenRefused, InitRecord, Opened, disk, history, Job
<1>3. ASSUME NEW p \in Proc, InitCreate(p) PROVE FreshIds'
  BY <1>3, <1>a DEF InitCreate, NewId, history, Job
<1>4. ASSUME NEW p \in Proc, InitActivate(p) PROVE FreshIds'
  BY <1>4, <1>a DEF InitActivate, Opened, Job, SingleMutator, Locked, TypeInv, JobTyped
<1>5. ASSUME NEW p \in Pips, PipStart(p) PROVE FreshIds'
  BY <1>5, <1>a DEF PipStart, NewId, disk, history, Proc, Job
<1>6. ASSUME NEW p \in Pips,
             \/ PipVerify(p)
             \/ PipRefused(p)
             \/ PipQuery(p)
             \/ \E w \in Wheel : StoreWheel(p, w)
             \/ PipBuild(p)
      PROVE  FreshIds'
  BY <1>6, <1>a DEF PipVerify, PipRefused, PipQuery, StoreWheel, PipBuild, disk, history,
     Proc, Job
<1>7. ASSUME NEW p \in Proc, BuildInstall(p) \/ BuildRecord(p) \/ BuildFails(p)
      PROVE  FreshIds'
  BY SMTT(30), <1>7, <1>a DEF BuildInstall, BuildRecord, BuildFails, disk, history, Job
<1>8. ASSUME NEW p \in Proc, BuildActivate(p) PROVE FreshIds'
  BY <1>8, <1>a DEF BuildActivate, Job, SingleMutator, Locked, Building, TypeInv, JobTyped
<1>9. ASSUME NEW p \in Runs,
             \/ RunRefused(p)
             \/ MarkHealthy(p)
             \/ PruneDone(p)
             \/ CollectDone(p)
             \/ \E g \in Id : PruneGeneration(p, g)
             \/ \E w \in Wheel : CollectArtifact(p, w)
      PROVE  FreshIds'
  BY <1>9, <1>a DEF RunRefused, MarkHealthy, PruneDone, CollectDone,
              PruneGeneration, CollectArtifact, disk, history, Proc, Job
<1>10. ASSUME NEW d \in Doctors,
              \/ DoctorPlan(d)
              \/ RepairRetry(d)
              \/ RepairQuarantine(d)
              \/ RepairRefused(d)
              \/ RepairRecord(d)
              \/ RepairInvalid(d)
              \/ RepairFinish(d)
       PROVE  FreshIds'
  <2>1. CASE DoctorPlan(d)
    BY <2>1, <1>a DEF DoctorPlan, disk, history, Proc, Job
  <2>2. CASE RepairRetry(d)
    BY <2>2, <1>a DEF RepairRetry, disk, history, Proc, Job
  <2>3. CASE RepairQuarantine(d)
    BY <2>3, <1>a DEF RepairQuarantine, disk, history, Proc, Job
  <2>4. CASE RepairRefused(d) \/ RepairInvalid(d) \/ RepairFinish(d)
    BY <2>4, <1>a DEF RepairRefused, RepairInvalid, RepairFinish, disk, history, Proc, Job
  <2>5. CASE RepairRecord(d)
    BY <2>5, <1>a DEF RepairRecord, disk, history, Proc, Job
  <2> QED BY <1>10, <2>1, <2>2, <2>3, <2>4, <2>5
<1>11. ASSUME NEW d \in Doctors, RepairReplay(d) PROVE FreshIds'
  BY <1>11, <1>a DEF RepairReplay, NewId, history, Proc, Job
<1>12. ASSUME NEW p \in Proc, Leave(p) PROVE FreshIds'
  BY <1>12, <1>a DEF Leave, disk, history, Job
<1>13. CASE \/ \E fault \in Damages : Damage(fault)
            \/ \E w \in Wheel : LoseArtifact(w)
            \/ UNCHANGED vars
  BY <1>13 DEF Damage, LoseArtifact, vars, disk, history
<1> QED
  BY <1>1, <1>2, <1>3, <1>4, <1>5, <1>6, <1>7, <1>8, <1>9, <1>10, <1>11,
     <1>12, <1>13
  DEF Next, PipStep, RunStep, RepairStep, Build, Initialize, Proc, Unlocked

(***************************************************************************)
(* The overlay on disk.  Progress(p) is what the holder of the lock knows  *)
(* at each of its steps; it says nothing of a process outside a            *)
(* transaction, so that a step of the holder cannot disturb the others.    *)
(***************************************************************************)

Stored(wheels) == wheels \subseteq artifacts \union lost

Progress(p) ==
  /\ pc[p] \in Initializing =>
       /\ place[job[p].target] = "generations"
       /\ gen[job[p].target].lock = {}
       /\ pc[p] = "init.activate" => /\ gen[job[p].target].verified
                                     /\ gen[job[p].target].recorded
  /\ pc[p] = "verify" => Resolves
  /\ pc[p] = "resolve" => Stored(job[p].wheels)
  /\ pc[p] \in Building =>
       /\ place[job[p].tx] = "generations"
       /\ Stored(gen[job[p].tx].lock)
       /\ pc[p] # "install" => gen[job[p].tx].verified
       /\ pc[p] = "activate" => gen[job[p].tx].recorded
  /\ p \in Pips /\ pc[p] \in {"resolve"} \union Building =>
       job[p].seen = current /\ Resolves
  /\ pc[p] \in {"prune", "collect"} => current \in Healthy \/ (current # None /\ place[current] = "deleted")
  /\ pc[p] = "collect" => Healthy = Keep

DiskInv ==
  /\ ActiveGenerationComplete
  /\ ActiveReplayable
  /\ \A p \in Proc : Progress(p)

Inv == TypeInv /\ SingleMutator /\ FreshIds /\ DiskInv

LEMMA DiskInit == Init => DiskInv
BY OverlayAssumption
DEF Init, DiskInv, ActiveGenerationComplete, ActiveReplayable, Progress,
    Initializing, Building

\* Where a process knows nothing about the disk.
Quiet == Unlocked \union {"open", "check", "repair", "quarantine", "replay", "finish"}

\* Steps of the holder leave the others outside.
LEMMA Others ==
  ASSUME TypeInv, SingleMutator, NEW p \in Proc, lock = p,
         \A q \in Proc \ {p} : pc'[q] = pc[q]
  PROVE  \A q \in Proc \ {p} : Progress(q)'
<1>1. ASSUME NEW q \in Proc \ {p} PROVE pc'[q] \notin Locked
  BY OverlayAssumption DEF TypeInv, TypeOK, SingleMutator
<1> QED BY <1>1 DEF Progress, Locked, Building, Initializing

\* Steps that leave the overlay as it is and end where nothing is known.
LEMMA QuietStep ==
  ASSUME DiskInv, NEW p \in Proc,
         UNCHANGED <<current, place, gen, artifacts, lost>>,
         \A q \in Proc \ {p} : pc'[q] = pc[q] /\ job'[q] = job[q],
         pc'[p] \in Quiet
  PROVE  DiskInv'
<1>1. ActiveGenerationComplete' /\ ActiveReplayable'
  BY DEF DiskInv, ActiveGenerationComplete, ActiveReplayable
<1>2. Progress(p)'
  BY DEF Progress, Quiet, Unlocked, Building, Initializing
<1>3. ASSUME NEW q \in Proc \ {p} PROVE Progress(q)'
  <2>1. Progress(q)
    BY DEF DiskInv
  <2> QED BY <2>1 DEF Progress, Resolves, Stored, Healthy, Keep
<1> QED BY <1>1, <1>2, <1>3 DEF DiskInv

LEMMA DiskNext == Inv /\ [Next]_vars => DiskInv'
<1> USE OverlayAssumption DEF Goto, Stop, Exit
<1> SUFFICES ASSUME Inv, [Next]_vars
             PROVE  DiskInv'
  OBVIOUS
<1> pc \in [Proc -> Locked \union Unlocked] /\ job \in [Proc -> Job]
  BY DEF Inv, TypeInv, TypeOK
<1> gen \in [Id -> Gen] /\ place \in [Id -> {"none", "generations", "quarantine", "deleted"}]
  BY DEF Inv, TypeInv, TypeOK
<1>1. ASSUME NEW p \in Proc, NEW from \in Unlocked,
             NEW to \in {"open", "check", "repair"},
             \/ Acquire(p, from, to)
             \/ Busy(p, from)
             \/ OpenRefused(p)
             \/ PipStart(p)
             \/ PipRefused(p)
             \/ PipQuery(p)
             \/ BuildFails(p)
             \/ RunRefused(p)
             \/ CollectDone(p)
             \/ DoctorPlan(p)
             \/ RepairRetry(p)
             \/ RepairRefused(p)
             \/ RepairRecord(p)
             \/ RepairInvalid(p)
             \/ RepairFinish(p)
             \/ Leave(p)
      PROVE  DiskInv'
  <2>1. /\ UNCHANGED <<current, place, gen, artifacts, lost>>
        /\ \A q \in Proc \ {p} : pc'[q] = pc[q] /\ job'[q] = job[q]
        /\ pc'[p] \in Quiet
    BY <1>1 DEF Acquire, Busy, OpenRefused, PipStart, PipRefused, PipQuery,
       BuildFails, RunRefused, CollectDone, DoctorPlan, RepairRetry,
       RepairRefused, RepairRecord, RepairInvalid, RepairFinish, Leave,
       disk, history, Quiet, Unlocked
  <2> QED BY <2>1, QuietStep DEF Inv
<1> SUFFICES ASSUME NEW p \in Proc,
                    \/ OpenExisting(p)
                    \/ InitCreate(p)
                    \/ InitRecord(p)
                    \/ InitActivate(p)
                    \/ PipVerify(p) /\ p \in Pips
                    \/ \E w \in Wheel : StoreWheel(p, w)
                    \/ PipBuild(p) /\ p \in Pips
                    \/ BuildInstall(p)
                    \/ BuildRecord(p)
                    \/ BuildActivate(p)
                    \/ MarkHealthy(p)
                    \/ \E g \in Id : PruneGeneration(p, g)
                    \/ PruneDone(p)
                    \/ \E w \in Wheel : CollectArtifact(p, w)
                    \/ RepairQuarantine(p)
                    \/ RepairReplay(p) /\ p \in Doctors
             PROVE  DiskInv'
  <2>1. CASE UNCHANGED vars
    BY <2>1 DEF vars, disk, history, Inv, DiskInv, ActiveGenerationComplete,
       ActiveReplayable, Progress, Resolves, Stored, Healthy, Keep
  <2>2. ASSUME NEW fault \in Damages, Damage(fault) PROVE DiskInv'
    <3>1. \A g \in Id : /\ gen'[g].lock = gen[g].lock
                        /\ gen'[g].verified = gen[g].verified
                        /\ gen'[g].recorded = gen[g].recorded
                        /\ gen'[g].healthy = gen[g].healthy
      BY <2>2 DEF Damage, Gen
    <3>2. /\ UNCHANGED <<current, place, artifacts, lost, pc, job>>
          /\ current \in Id \union {None}
      BY <2>2 DEF Damage, history, Inv, TypeInv, TypeOK
    <3>3. Healthy' = Healthy /\ Keep' = Keep
      BY <3>1, <3>2 DEF Healthy, Keep
    <3>4. ActiveGenerationComplete' /\ ActiveReplayable'
      BY <3>1, <3>2 DEF Inv, DiskInv, ActiveGenerationComplete, ActiveReplayable
    <3>5. ASSUME NEW q \in Proc PROVE Progress(q)'
      <4>1. Progress(q)
        BY DEF Inv, DiskInv
      <4>2. /\ pc[q] \in Initializing => job[q].target \in Id
            /\ pc[q] \in Building => job[q].tx \in Id
        BY DEF Inv, TypeInv, JobTyped
      <4> QED BY <3>1, <3>2, <3>3, <4>1, <4>2 DEF Progress, Resolves, Stored
    <3> QED BY <3>4, <3>5 DEF DiskInv
  <2>3. ASSUME NEW w \in Wheel, LoseArtifact(w) PROVE DiskInv'
    <3>1. artifacts' \union lost' = artifacts \union lost
      BY <2>3 DEF LoseArtifact
    <3>2. ActiveGenerationComplete' /\ ActiveReplayable'
      BY <2>3, <3>1 DEF LoseArtifact, Inv, DiskInv, ActiveGenerationComplete,
         ActiveReplayable
    <3>3. ASSUME NEW q \in Proc PROVE Progress(q)'
      <4>1. Progress(q)
        BY DEF Inv, DiskInv
      <4> QED BY <2>3, <3>1, <4>1
          DEF LoseArtifact, Progress, Resolves, Stored, Healthy, Keep
    <3> QED BY <3>2, <3>3 DEF DiskInv
  <2> QED
    BY <1>1, <2>1, <2>2, <2>3
    DEF Next, PipStep, RunStep, RepairStep, Build, Initialize, Proc, Unlocked
<1> pc[p] \in Locked
  BY DEF Locked, Building, OpenExisting, InitCreate, InitRecord,
     InitActivate, PipVerify, StoreWheel, PipBuild, BuildInstall, BuildRecord,
     BuildActivate, MarkHealthy, PruneGeneration, PruneDone, CollectArtifact,
     RepairQuarantine, RepairReplay
<1> lock = p
  BY DEF Inv, SingleMutator
<1>2. \A q \in Proc \ {p} : pc'[q] = pc[q]
  BY DEF OpenExisting, Opened, InitCreate, InitRecord,
     InitActivate, PipVerify, StoreWheel, PipBuild, BuildInstall, BuildRecord,
     BuildActivate, MarkHealthy, PruneGeneration, PruneDone, CollectArtifact,
     RepairQuarantine, RepairReplay
<1>3. Progress(p) /\ ActiveGenerationComplete /\ ActiveReplayable
  BY DEF Inv, DiskInv
<1>a. /\ pc[p] \in Initializing => job[p].target \in Id /\ job[p].target \notin activated
      /\ pc[p] \in Building => job[p].tx \in Id /\ job[p].tx # current
      /\ current \in Id \union {None}
      /\ job[p].tx \in Id \union {None}
      /\ current # None => current \in issued
      /\ p \in Pips => job[p].tx \in Id \union {None}
  BY DEF Inv, TypeInv, TypeOK, JobTyped, FreshIds, Job, Building, Initializing
<1> SUFFICES ActiveGenerationComplete' /\ ActiveReplayable' /\ Progress(p)'
  BY <1>2, Others DEF Inv, DiskInv
<1>4. CASE OpenExisting(p)
  BY <1>3, <1>4 DEF OpenExisting, Opened, disk, history, Progress, Building, Initializing,
     Resolves, ActiveGenerationComplete, ActiveReplayable
<1>5. CASE InitCreate(p)
  <2>1. PICK i \in Id : NewId(i) /\ Create(i, {}) /\ job' = [job EXCEPT ![p].target = i]
    BY <1>5 DEF InitCreate
  <2>2. job'[p].target = i /\ pc'[p] = "init.record"
    BY <2>1, <1>5 DEF InitCreate, Job
  <2>3. place'[i] = "generations" /\ gen'[i].lock = {}
    BY <2>1 DEF Create, NewGen
  <2>4. current = None /\ current' = None
    BY <1>5 DEF InitCreate
  <2> QED BY <2>2, <2>3, <2>4 DEF Progress, Initializing, Building, ActiveGenerationComplete,
      ActiveReplayable
<1>6. CASE InitRecord(p)
  <2> DEFINE t == job[p].target
  <2>1. /\ t \in Id /\ pc[p] = "init.record" /\ pc'[p] = "init.activate"
        /\ UNCHANGED <<current, place, job, artifacts, lost>>
    BY <1>6, <1>a DEF InitRecord, Initializing, history
  <2>2. /\ gen'[t].verified /\ gen'[t].recorded /\ gen'[t].lock = gen[t].lock
        /\ \A g \in Id \ {t} : gen'[g] = gen[g]
    BY <1>6, <2>1 DEF InitRecord, Gen
  <2> QED BY <1>3, <1>a, <2>1, <2>2 DEF Progress, Initializing, Building,
      ActiveGenerationComplete, ActiveReplayable, Stored
<1>7. CASE InitActivate(p)
  BY <1>3, <1>7, <1>a DEF InitActivate, Opened, Progress, Initializing, Building, Resolves,
     ActiveGenerationComplete, ActiveReplayable
<1>8. CASE PipVerify(p) /\ p \in Pips
  <2>1. /\ pc[p] = "verify" /\ pc'[p] = "resolve"
        /\ job'[p].seen = current /\ job'[p].wheels = job[p].wheels
        /\ UNCHANGED <<current, place, gen, artifacts, lost>>
    BY <1>8 DEF PipVerify, disk, history, Job
  <2>2. job[p].wheels = {}
    BY <2>1, <1>8, OverlayAssumption DEF Inv, TypeInv, JobTyped, Building
  <2> QED BY <1>3, <2>1, <2>2 DEF Progress, Initializing, Building, Resolves, Stored,
      ActiveGenerationComplete, ActiveReplayable
<1>9. ASSUME NEW w \in Wheel, StoreWheel(p, w)
      PROVE  ActiveGenerationComplete' /\ ActiveReplayable' /\ Progress(p)'
  BY <1>3, <1>9 DEF StoreWheel, Progress, Initializing, Building, Resolves, Stored,
     ActiveGenerationComplete, ActiveReplayable, Job
<1>10. CASE PipBuild(p) /\ p \in Pips
  <2> DEFINE t == job[p].tx
  <2>1. /\ t \in Id /\ t # current
        /\ pc[p] = "resolve" /\ pc'[p] = "install"
        /\ UNCHANGED <<current, artifacts, lost, job>>
        /\ \A g \in Id \ {t} : gen'[g] = gen[g] /\ place'[g] = place[g]
        /\ gen'[t].lock = job[p].wheels /\ place'[t] = "generations"
    BY <1>10 DEF PipBuild, Create, NewGen, history, Inv, TypeInv, JobTyped, FreshIds
  <2> QED BY <1>3, <1>a, <2>1 DEF Progress, Initializing, Building, Resolves, Stored,
      ActiveGenerationComplete, ActiveReplayable
<1>11. CASE BuildInstall(p) \/ BuildRecord(p)
  <2> DEFINE t == job[p].tx
  <2>1. /\ t \in Id /\ t # current /\ pc[p] \in Building
        /\ UNCHANGED <<current, place, artifacts, lost, job>>
        /\ \A g \in Id \ {t} : gen'[g] = gen[g]
        /\ gen'[t].lock = gen[t].lock
    BY <1>11, <1>a DEF BuildInstall, BuildRecord, history, Building, Gen
  <2>2. \/ pc[p] = "install" /\ pc'[p] = "record" /\ gen'[t].verified
        \/ /\ pc[p] = "record" /\ pc'[p] = "activate"
           /\ gen'[t].verified = gen[t].verified /\ gen'[t].recorded
    BY <1>11, <2>1 DEF BuildInstall, BuildRecord, Gen
  <2> QED BY <1>3, <1>a, <2>1, <2>2 DEF Progress, Initializing, Building, Resolves, Stored,
      ActiveGenerationComplete, ActiveReplayable
<1>12. CASE BuildActivate(p)
  <2>1. /\ pc[p] = "activate" /\ pc'[p] \in {"finish", "idle"}
        /\ current' = job[p].tx
        /\ UNCHANGED <<place, gen, artifacts, lost>>
    BY <1>12 DEF BuildActivate
  <2> QED BY <1>3, <2>1 DEF Progress, Initializing, Building, Stored,
      ActiveGenerationComplete, ActiveReplayable
<1>13. CASE MarkHealthy(p)
  <2>1. /\ current \in Id /\ place[current] = "generations"
        /\ pc'[p] = "prune"
        /\ UNCHANGED <<current, place, artifacts, lost, job>>
        /\ gen'[current].lock = gen[current].lock
        /\ gen'[current].verified = gen[current].verified
        /\ gen'[current].recorded = gen[current].recorded
        /\ gen'[current].healthy
    BY <1>13, <1>a DEF MarkHealthy, CheckPasses, Resolves, history, Gen
  <2> QED BY <1>3, <2>1 DEF Progress, Initializing, Building, Healthy,
      ActiveGenerationComplete, ActiveReplayable
<1>14. ASSUME NEW g \in Id, PruneGeneration(p, g)
       PROVE  ActiveGenerationComplete' /\ ActiveReplayable' /\ Progress(p)'
  <2>1. /\ pc[p] = "prune" /\ pc'[p] = "prune"
        /\ place' = [place EXCEPT ![g] = "deleted"]
        /\ UNCHANGED <<current, gen, artifacts, lost, job>>
    BY <1>14 DEF PruneGeneration, history
  <2>2. current \in Id
    BY <1>3, <1>a, <2>1 DEF Progress, Healthy
  <2>3. current \in Healthy' \/ place'[current] = "deleted"
    BY <1>3, <2>1, <2>2 DEF Progress, Healthy
  <2> QED BY <1>3, <2>1, <2>2, <2>3 DEF Progress, Initializing, Building,
      ActiveGenerationComplete, ActiveReplayable
<1>15. CASE PruneDone(p)
  BY <1>3, <1>15 DEF PruneDone, disk, history, Progress, Initializing, Building,
     Healthy, Keep, ActiveGenerationComplete, ActiveReplayable
<1>16. ASSUME NEW w \in Wheel, CollectArtifact(p, w)
       PROVE  ActiveGenerationComplete' /\ ActiveReplayable' /\ Progress(p)'
  <2>1. /\ pc[p] = "collect" /\ pc'[p] = "collect"
        /\ artifacts' = artifacts \ {w} /\ w \notin Referenced
        /\ UNCHANGED <<current, place, gen, lost, job>>
    BY <1>16 DEF CollectArtifact, history
  <2>2. Healthy' = Healthy /\ Keep' = Keep
    BY <2>1 DEF Healthy, Keep
  <2>3. current \in Keep \/ place[current] = "deleted"
    BY <1>3, <2>1 DEF Progress
  <2>4. CASE current \in Keep
    <3>1. w \notin gen[current].lock
      BY <2>1, <2>4 DEF Referenced
    <3> QED BY <1>3, <2>1, <2>2, <3>1 DEF Progress, Initializing, Building,
        ActiveGenerationComplete, ActiveReplayable
  <2>5. CASE place[current] = "deleted"
    BY <1>3, <2>1, <2>2, <2>5 DEF Progress, Initializing, Building,
       ActiveGenerationComplete, ActiveReplayable
  <2> QED BY <2>3, <2>4, <2>5
<1>17. CASE RepairQuarantine(p)
  BY <1>3, <1>17, <1>a DEF RepairQuarantine, Resolves, history, Progress, Initializing,
     Building, ActiveGenerationComplete, ActiveReplayable
<1>18. CASE RepairReplay(p) /\ p \in Doctors
  <2>1. PICK i \in Id : NewId(i) /\ job' = [job EXCEPT ![p].tx = i] /\ Create(i, ReplayLock(p))
    BY <1>18 DEF RepairReplay
  <2>2. /\ pc[p] = "replay" /\ pc'[p] = "install" /\ p \notin Pips
        /\ job'[p].tx = i /\ i # current
        /\ UNCHANGED <<current, artifacts, lost>>
    BY <1>18, <1>a, <2>1, OverlayAssumption DEF RepairReplay, NewId, history, Job
  <2>3. /\ \A g \in Id \ {i} : gen'[g] = gen[g] /\ place'[g] = place[g]
        /\ place'[i] = "generations" /\ gen'[i].lock = ReplayLock(p)
    BY <2>1 DEF Create, NewGen
  <2>4. ReplayLock(p) \subseteq artifacts
    BY <1>18 DEF RepairReplay, ReplayLock, ArtifactsValid
  <2> QED BY <1>3, <1>a, <2>2, <2>3, <2>4 DEF Progress, Initializing, Building, Stored,
      ActiveGenerationComplete, ActiveReplayable
<1> QED
  BY <1>4, <1>5, <1>6, <1>7, <1>8, <1>9, <1>10, <1>11, <1>12, <1>13, <1>14,
     <1>15, <1>16, <1>17, <1>18

(***************************************************************************)
(* Retention.  Only an activated generation is ever healthy, so nothing    *)
(* healthy is newer than an active generation that is newer than all       *)
(* activated ones.                                                         *)
(***************************************************************************)

HealthyActivated == \A g \in Id : gen[g].healthy => g \in activated

Retention == HealthyActivated /\ ActiveKept

LEMMA RetentionInit == Init => Retention
BY DEF Init, Retention, HealthyActivated, ActiveKept, NewGen

LEMMA RetentionNext == Inv /\ Retention /\ [Next]_vars => Retention'
<1> USE OverlayAssumption
<1> SUFFICES ASSUME Inv, Retention, [Next]_vars
             PROVE  Retention'
  OBVIOUS
<1> /\ gen \in [Id -> Gen]
    /\ place \in [Id -> {"none", "generations", "quarantine", "deleted"}]
    /\ current \in Id \union {None}
    /\ activated \subseteq Id
  BY DEF Inv, TypeInv, TypeOK
<1>1. CASE UNCHANGED <<current, place, gen, activated>>
  BY <1>1 DEF Retention, HealthyActivated, ActiveKept
<1>2. ASSUME NEW p \in Proc, InitActivate(p) \/ BuildActivate(p) PROVE Retention'
  <2>1. /\ UNCHANGED <<place, gen>>
        /\ activated \subseteq activated'
        /\ current' \in Id
    BY <1>2 DEF InitActivate, BuildActivate, Inv, TypeInv, JobTyped, Initializing, Building
  <2>2. Progress(p)
    BY DEF Inv, DiskInv
  <2>3. place[current'] = "generations"
    BY <1>2, <2>2 DEF InitActivate, BuildActivate, Progress, Initializing, Building
  <2> QED BY <2>1, <2>3 DEF Retention, HealthyActivated, ActiveKept
<1>3. ASSUME NEW i \in Id, NEW ws, i # current,
             Create(i, ws), current' = current, activated' = activated
      PROVE  Retention'
  <2>1. \A g \in Id : gen'[g].healthy => gen[g].healthy
    BY <1>3 DEF Create, NewGen
  <2>2. current # None => place'[current] = place[current]
    BY <1>3 DEF Create
  <2> QED BY <1>3, <2>1, <2>2 DEF Retention, HealthyActivated, ActiveKept
<1>4. ASSUME NEW p \in Proc,
             InitRecord(p) \/ BuildInstall(p) \/ BuildRecord(p) \/ MarkHealthy(p)
      PROVE  Retention'
  <2>1. UNCHANGED <<current, place, activated>>
    BY <1>4 DEF InitRecord, BuildInstall, BuildRecord, MarkHealthy, history
  <2>2. ASSUME NEW g \in Id PROVE gen'[g].healthy => gen[g].healthy \/ g = current
    BY <1>4 DEF InitRecord, BuildInstall, BuildRecord, MarkHealthy, Gen
  <2>3. MarkHealthy(p) => current \in activated
    BY DEF MarkHealthy, CheckPasses, Resolves, Inv, FreshIds
  <2>4. \A g \in Id : gen'[g].healthy /\ ~gen[g].healthy => MarkHealthy(p)
    BY <1>4 DEF InitRecord, BuildInstall, BuildRecord, Gen
  <2> QED BY <2>1, <2>2, <2>3, <2>4 DEF Retention, HealthyActivated, ActiveKept
<1>5. ASSUME NEW fault \in Damages, Damage(fault) PROVE Retention'
  <2>1. /\ UNCHANGED <<current, place, activated>>
        /\ \A g \in Id : gen'[g].healthy = gen[g].healthy
    BY <1>5 DEF Damage, Gen, history
  <2> QED BY <2>1 DEF Retention, HealthyActivated, ActiveKept
<1>6. ASSUME NEW p \in Proc, NEW g \in Id, PruneGeneration(p, g) PROVE Retention'
  <2>1. /\ UNCHANGED <<current, gen, activated>>
        /\ place' = [place EXCEPT ![g] = "deleted"]
        /\ g \in Healthy /\ g \notin Keep
    BY <1>6 DEF PruneGeneration, history
  <2>2. PICK h \in Healthy : h > g
    BY <2>1 DEF Keep
  <2>3. h \in activated /\ ~(h <= g)
    BY <2>1, <2>2 DEF Retention, HealthyActivated, Healthy, Id
  <2>4. g = current => ~(\A a \in activated : a <= current)
    BY <2>3
  <2> QED BY <2>1, <2>4 DEF Retention, HealthyActivated, ActiveKept
<1>7. ASSUME NEW d \in Proc, RepairQuarantine(d) PROVE Retention'
  BY <1>7 DEF RepairQuarantine, history, Retention, HealthyActivated, ActiveKept
<1>8. ASSUME NEW p \in Pips, PipBuild(p) PROVE Retention'
  <2>1. /\ job[p].tx \in Id /\ job[p].tx \notin activated /\ job[p].tx # current
    BY <1>8 DEF PipBuild, Inv, TypeInv, JobTyped, FreshIds, Proc
  <2> QED BY <1>3, <1>8, <2>1 DEF PipBuild, history
<1>9. ASSUME NEW p \in Proc, InitCreate(p) \/ RepairReplay(p) PROVE Retention'
  <2>1. PICK i \in Id, ws \in {{}, ReplayLock(p)} : NewId(i) /\ Create(i, ws)
    BY <1>9 DEF InitCreate, RepairReplay
  <2>2. i # current
    BY <2>1 DEF NewId, Inv, FreshIds
  <2>3. current' = current /\ activated' = activated
    BY <1>9 DEF InitCreate, RepairReplay, history
  <2> QED BY <1>3, <2>1, <2>2, <2>3
<1>10. ASSUME NEW p \in Proc, NEW from, NEW to,
              \/ Acquire(p, from, to)
              \/ Busy(p, from)
              \/ OpenExisting(p)
              \/ OpenRefused(p)
              \/ PipStart(p)
              \/ PipVerify(p)
              \/ PipRefused(p)
              \/ PipQuery(p)
              \/ \E w \in Wheel : StoreWheel(p, w)
              \/ BuildFails(p)
              \/ RunRefused(p)
              \/ PruneDone(p)
              \/ \E w \in Wheel : CollectArtifact(p, w)
              \/ CollectDone(p)
              \/ DoctorPlan(p)
              \/ RepairRetry(p)
              \/ RepairRefused(p)
              \/ RepairRecord(p)
              \/ RepairInvalid(p)
              \/ RepairFinish(p)
              \/ Leave(p)
       PROVE  UNCHANGED <<current, place, gen, activated>>
  BY <1>10 DEF Acquire, Busy, OpenExisting, OpenRefused, PipStart, PipVerify,
     PipRefused, PipQuery, StoreWheel, BuildFails, RunRefused, PruneDone,
     CollectArtifact, CollectDone, DoctorPlan, RepairRetry, RepairRefused,
     RepairRecord, RepairInvalid, RepairFinish, Leave, Exit, Stop, disk, history
<1>11. CASE UNCHANGED vars \/ \E w \in Wheel : LoseArtifact(w)
  BY <1>1, <1>11 DEF LoseArtifact, vars, disk, history
<1> QED
  BY <1>1, <1>2, <1>4, <1>5, <1>6, <1>7, <1>8, <1>9, <1>10, <1>11
  DEF Next, PipStep, RunStep, RepairStep, Build, Initialize, Proc

(***************************************************************************)
(* The theorems.                                                           *)
(***************************************************************************)

\* The inductive invariant holds in every reachable state.
THEOREM Invariance == Spec => [](Inv /\ Retention)
<1>1. Init => Inv /\ Retention
  BY TypeInit, MutexInit, FreshInit, DiskInit, RetentionInit DEF Inv
<1>2. Inv /\ Retention /\ [Next]_vars => Inv' /\ Retention'
  BY TypeNext, MutexNext, FreshNext, DiskNext, RetentionNext DEF Inv
<1> QED BY <1>1, <1>2, PTL DEF Spec


\* The current link names only generations that were verified and recorded: no
\* crash and no failed build of build_generation activates a partial one.
THEOREM CompleteActivation == Spec => []ActiveGenerationComplete
<1>1. Inv => ActiveGenerationComplete
  BY DEF Inv, DiskInv
<1> QED BY Invariance, <1>1, PTL

\* No garbage collection takes a wheel of the active generation, nor of the one
\* that a repair has withdrawn, in whatever order ids were drawn.
THEOREM Replayability == Spec => []ActiveReplayable
<1>1. Inv => ActiveReplayable
  BY DEF Inv, DiskInv
<1> QED BY Invariance, <1>1, PTL

\* Wheels in use by an install or a replay stay in the store.
THEOREM WheelsKept == Spec => []PendingWheelsKept
<1>1. Inv => PendingWheelsKept
  BY DEF Inv, DiskInv, Progress, Stored, PendingWheelsKept
<1> QED BY Invariance, <1>1, PTL

\* The generation that pip replaces is the one whose requirements it merged.
THEOREM InstallsNotLost == Spec => []NoLostInstall
<1>1. Inv => NoLostInstall
  BY DEF Inv, DiskInv, Progress, NoLostInstall, Proc
<1> QED BY Invariance, <1>1, PTL

\* When ids follow the order of activation, mark_generation_healthy never
\* deletes the active generation.
THEOREM RetentionKeepsActive == Spec => []ActiveKept
<1>1. Retention => ActiveKept
  BY DEF Retention
<1> QED BY Invariance, <1>1, PTL

\* The link changes only under the lock and only to a generation that was never
\* active: no command brings an older generation back.
THEOREM ForwardLinks == Spec => LinkMovesForward
<1> DEFINE Forward == current' # current =>
             /\ lock # None
             /\ current' \notin activated
             /\ current' \in activated'
<1>1. Inv /\ [Next]_vars => Forward
  <2> SUFFICES ASSUME Inv, [Next]_vars, current' # current PROVE Forward
    OBVIOUS
  <2>1. PICK p \in Proc : InitActivate(p) \/ BuildActivate(p)
    BY ZenonT(60) DEF Next, PipStep, RunStep, RepairStep, Build, Initialize, Proc,
       Acquire, Busy, OpenExisting, OpenRefused, InitCreate, InitRecord, PipStart,
       PipVerify, PipRefused, PipQuery, StoreWheel, PipBuild, BuildInstall,
       BuildRecord, BuildFails, RunRefused, MarkHealthy, PruneGeneration,
       PruneDone, CollectArtifact, CollectDone, DoctorPlan, RepairRetry,
       RepairQuarantine, RepairRefused, RepairRecord, RepairReplay,
       RepairInvalid, RepairFinish, Leave, Damage, LoseArtifact, Exit, vars, disk
  <2>2. lock # None
    BY <2>1, OverlayAssumption
    DEF InitActivate, BuildActivate, Inv, SingleMutator, Locked, Building
  <2>3. current' \notin activated /\ current' \in activated'
    BY <2>1, OverlayAssumption
    DEF InitActivate, BuildActivate, Inv, TypeInv, TypeOK, JobTyped, FreshIds,
        Initializing, Building, Job
  <2> QED BY <2>2, <2>3
<1> QED BY Invariance, <1>1, PTL DEF Spec, LinkMovesForward
================================================================================
