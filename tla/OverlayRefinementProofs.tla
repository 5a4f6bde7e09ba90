------------------------ MODULE OverlayRefinementProofs ------------------------
(***************************************************************************)
(* What an interrupted overlay owes its users, for any number of           *)
(* processes, ids, wheels, damages and early exits: a quarantine says the  *)
(* truth and is never disturbed; and, with one pip at a time and ids in    *)
(* order, everything on disk is a step of the atomic overlay or invisible. *)
(*                                                                         *)
(* Evidence: what a repair has under way replaces the generation it        *)
(* withdrew, with the same lock.  Lineage: a pip that waits with an old id *)
(* sees at most the current generation overtake it, so that at most one    *)
(* healthy generation is ever newer than the active one, and retention,    *)
(* which keeps two, keeps the active one.                                  *)
(***************************************************************************)
EXTENDS OverlayTransactionProofs

Replaying == Building \union {"finish"}

\* What the repair of d has under way.
Owed(d) ==
  /\ pc[d] \in Repairing \ {"finish"} =>
       job[d].target = current /\ place[current] = "quarantine"
  /\ pc[d] \in Replaying =>
       /\ job[d].tx # job[d].target
       /\ gen[job[d].tx].lock = gen[job[d].target].lock
  /\ pc[d] = "finish" => job[d].tx \in activated /\ job[d].target \in activated

Evidence ==
  /\ \A g \in Id : qstatus[g] # "missing" => g \in activated
  /\ \A d \in Doctors : Owed(d)
  /\ QuarantineTruthful

\* Ids in order, one pip: at most one healthy generation is newer than the
\* active one.
Lineage ==
  /\ \A i, j \in Id : i < j /\ j \in issued => i \in issued
  /\ current = None => activated = {}
  /\ current # None => /\ place[current] \in {"generations", "quarantine"}
                       /\ \A g, h \in Healthy : g > current /\ h > current => g = h
  /\ \A p \in Proc : pc[p] \in Initializing => current = None
  /\ \A p \in Pips : pc[p] # "idle" => \A g \in Healthy : g > job[p].tx => g = current
  /\ \A d \in Doctors : pc[d] \in Building => \A g \in activated : g < job[d].tx

(***************************************************************************)
(* What a step does to the disk.                                           *)
(***************************************************************************)

\* The steps that touch no generation directory.
Elsewhere(p) ==
  \/ \E from \in Unlocked, to \in {"open", "check", "repair"} :
       (p \in Pips => from # "idle") /\ (Acquire(p, from, to) \/ Busy(p, from))
  \/ OpenExisting(p)
  \/ OpenRefused(p)
  \/ p \in Pips /\ (PipStart(p) \/ PipVerify(p) \/ PipRefused(p) \/ PipQuery(p))
  \/ \E w \in Wheel : StoreWheel(p, w) \/ CollectArtifact(p, w)
  \/ RunRefused(p)
  \/ PruneDone(p)
  \/ CollectDone(p)
  \/ p \in Doctors /\ (DoctorPlan(p) \/ RepairRetry(p) \/ RepairRefused(p)
                        \/ RepairRecord(p) \/ RepairInvalid(p) \/ RepairFinish(p))
  \/ BuildFails(p)
  \/ Leave(p)

Writes(p) == InitRecord(p) \/ BuildInstall(p) \/ BuildRecord(p) \/ MarkHealthy(p)

Creates(p) == InitCreate(p) \/ (p \in Pips /\ PipBuild(p)) \/ (p \in Doctors /\ RepairReplay(p))

Activates(p) == InitActivate(p) \/ (p \in Pips \union Doctors /\ BuildActivate(p))

LEMMA Effects ==
  ASSUME [Next]_vars
  PROVE  \/ \E p \in Proc : Elsewhere(p) \/ Writes(p) \/ Creates(p) \/ Activates(p)
         \/ \E p \in Proc, g \in Id : PruneGeneration(p, g)
         \/ \E d \in Doctors : RepairQuarantine(d)
         \/ \E fault \in Damages : Damage(fault)
         \/ \E w \in Wheel : LoseArtifact(w)
         \/ UNCHANGED vars
<1> USE DEF Elsewhere, Writes, Creates, Activates, Proc
<1> DEFINE Plain(p) == Elsewhere(p) \/ Writes(p) \/ Creates(p) \/ Activates(p)
<1>1. ASSUME NEW p \in Proc, Build(p), p \in Pips \union Doctors PROVE Plain(p)
  BY <1>1 DEF Build
<1>2. ASSUME NEW p \in Proc, Initialize(p) PROVE Plain(p)
  BY <1>2 DEF Initialize
<1>3. ASSUME NEW p \in Proc, NEW from \in Unlocked, NEW to \in {"open", "check", "repair"},
             Acquire(p, from, to) \/ Busy(p, from), p \in Pips => from # "idle"
      PROVE  Plain(p)
  BY <1>3
<1>4. ASSUME NEW p \in Pips, PipStart(p) \/ PipStep(p) PROVE Plain(p)
  BY <1>1, <1>2, <1>3, <1>4 DEF PipStep, Unlocked
<1>5. ASSUME NEW p \in Runs, Acquire(p, "idle", "open") \/ RunStep(p)
      PROVE  Plain(p) \/ \E g \in Id : PruneGeneration(p, g)
  BY <1>2, <1>3, <1>5, OverlayAssumption DEF RunStep, Unlocked
<1>6. ASSUME NEW d \in Doctors, DoctorPlan(d) \/ RepairStep(d)
      PROVE  Plain(d) \/ RepairQuarantine(d)
  BY <1>1, <1>3, <1>6 DEF RepairStep, Unlocked
<1> QED BY <1>4, <1>5, <1>6 DEF Next

LEMMA ElsewhereKeeps ==
  ASSUME NEW p \in Proc, Elsewhere(p)
  PROVE  UNCHANGED <<current, place, gen, activated>>
BY DEF Elsewhere, Acquire, Busy, OpenExisting, OpenRefused, PipStart, PipVerify,
   PipRefused, PipQuery, StoreWheel, BuildFails, RunRefused, PruneDone,
   CollectArtifact, CollectDone, DoctorPlan, RepairRetry, RepairRefused,
   RepairRecord, RepairInvalid, RepairFinish, Leave, Exit, Stop, disk, history

LEMMA WritesKeep ==
  ASSUME TypeOK, NEW p \in Proc, Writes(p)
  PROVE  /\ UNCHANGED <<current, place, activated>>
         /\ \A g \in Id : gen'[g].lock = gen[g].lock
<1> gen \in [Id -> Gen]
  BY DEF TypeOK
<1>1. UNCHANGED <<current, place, activated>>
  BY DEF Writes, InitRecord, BuildInstall, BuildRecord, MarkHealthy, history
<1>2. ASSUME NEW g \in Id PROVE gen'[g].lock = gen[g].lock
  <2>1. CASE InitRecord(p)
    BY <2>1 DEF InitRecord, Gen
  <2>2. CASE BuildInstall(p)
    BY <2>2 DEF BuildInstall, Gen
  <2>3. CASE BuildRecord(p)
    BY <2>3 DEF BuildRecord, Gen
  <2>4. CASE MarkHealthy(p)
    BY <2>4 DEF MarkHealthy, Gen
  <2> QED BY <2>1, <2>2, <2>3, <2>4 DEF Writes
<1> QED BY <1>1, <1>2

\* A new generation takes the place of none that was ever active.
LEMMA CreatesNew ==
  ASSUME Inv, NEW p \in Proc, Creates(p)
  PROVE  /\ UNCHANGED <<current, activated>>
         /\ \E i \in Id \ activated :
              /\ gen'[i].healthy = FALSE
              /\ \A g \in Id \ {i} : gen'[g] = gen[g] /\ place'[g] = place[g]
<1> USE OverlayAssumption
<1> /\ gen \in [Id -> Gen]
    /\ place \in [Id -> {"none", "generations", "quarantine", "deleted"}]
    /\ activated \subseteq issued
  BY DEF Inv, TypeInv, TypeOK, FreshIds
<1>1. UNCHANGED <<current, activated>>
  BY DEF Creates, InitCreate, PipBuild, RepairReplay, history
<1>2. PICK i \in Id, ws \in {{}, job[p].wheels, ReplayLock(p)} :
        Create(i, ws) /\ (NewId(i) \/ (p \in Pips /\ PipBuild(p) /\ i = job[p].tx))
  BY DEF Creates, InitCreate, PipBuild, RepairReplay, Inv, TypeInv, JobTyped
<1>3. i \notin activated
  BY <1>2 DEF NewId, PipBuild, Inv, FreshIds
<1> QED BY <1>1, <1>2, <1>3 DEF Create, NewGen

\* An activated generation keeps its lock, and stays in the quarantine.
LEMMA EvidenceKept ==
  ASSUME Inv, [Next]_vars, NEW g \in activated
  PROVE  /\ gen'[g].lock = gen[g].lock
         /\ place[g] = "quarantine" => place'[g] = "quarantine"
<1> g \in Id /\ TypeOK
  BY DEF Inv, TypeInv, TypeOK
<1>1. ASSUME NEW p \in Proc, NEW h \in Id, PruneGeneration(p, h)
      PROVE  UNCHANGED gen /\ (place[g] = "quarantine" => place'[g] = "quarantine")
  BY <1>1 DEF PruneGeneration, Healthy, TypeOK
<1>2. ASSUME NEW d \in Doctors, RepairQuarantine(d)
      PROVE  UNCHANGED gen /\ (place[g] = "quarantine" => place'[g] = "quarantine")
  BY <1>2 DEF RepairQuarantine, TypeOK
<1>3. ASSUME NEW fault \in Damages, Damage(fault)
      PROVE  gen'[g].lock = gen[g].lock /\ UNCHANGED place
  BY <1>3 DEF Damage, TypeOK, Gen
<1>4. CASE UNCHANGED vars \/ \E w \in Wheel : LoseArtifact(w)
  BY <1>4 DEF vars, disk, LoseArtifact
<1>5. ASSUME NEW p \in Proc, Activates(p) PROVE UNCHANGED <<gen, place>>
  BY <1>5 DEF Activates, InitActivate, BuildActivate
<1> QED
  BY <1>1, <1>2, <1>3, <1>4, <1>5, Effects, ElsewhereKeeps, WritesKeep, CreatesNew

\* The evidence of a repair: the lock of every activated generation, and the
\* directory of a quarantined one, outlive every step of every process.
THEOREM EvidenceStays == Spec => EvidencePreserved
<1> DEFINE Preserved == \A g \in activated :
             /\ gen'[g].lock = gen[g].lock
             /\ place[g] = "quarantine" => place'[g] = "quarantine"
<1>1. Inv /\ [Next]_vars => Preserved
  BY EvidenceKept
<1> QED BY Invariance, <1>1, PTL DEF Spec, EvidencePreserved

(***************************************************************************)
(* A quarantine says the truth.                                            *)
(***************************************************************************)

LEMMA EvidenceInit == Init => Evidence
BY OverlayAssumption
DEF Init, Evidence, Owed, QuarantineTruthful, Repairing, Replaying, Building, Proc

\* A note in a quarantine stays true: locks of activated generations last.
LEMMA TruthKept ==
  ASSUME Inv, Evidence, [Next]_vars, activated \subseteq activated',
         NEW g \in Id, qstatus[g] = "rebuilt"
  PROVE  \E h \in activated' \ {g} : gen'[h].lock = gen'[g].lock
<1>1. g \in activated
  BY DEF Evidence
<1>2. PICK h \in activated \ {g} : gen[h].lock = gen[g].lock
  BY DEF Evidence, QuarantineTruthful
<1> QED BY <1>1, <1>2, EvidenceKept

LEMMA HistoryGrows ==
  ASSUME [Next]_vars
  PROVE  activated \subseteq activated'
<1>1. ASSUME NEW p \in Proc, Creates(p) PROVE UNCHANGED activated
  BY <1>1 DEF Creates, InitCreate, PipBuild, RepairReplay, history
<1>2. ASSUME NEW p \in Proc, Writes(p) PROVE UNCHANGED activated
  BY <1>2 DEF Writes, InitRecord, BuildInstall, BuildRecord, MarkHealthy, history
<1>3. ASSUME NEW p \in Proc, Activates(p) PROVE activated \subseteq activated'
  BY <1>3 DEF Activates, InitActivate, BuildActivate
<1> QED BY <1>1, <1>2, <1>3, Effects, ElsewhereKeeps
    DEF PruneGeneration, RepairQuarantine, Damage, LoseArtifact, vars, history

\* Steps that write no quarantine-state.json and leave each repair where it is,
\* or end it.
LEMMA EvidenceFrame ==
  ASSUME Inv, Evidence, [Next]_vars, UNCHANGED qstatus,
         \A d \in Doctors : pc'[d] \in Repairing =>
           /\ pc[d] = pc'[d] \/ {pc[d], pc'[d]} \subseteq Building
           /\ job'[d] = job[d]
           /\ current' = current
           /\ current \in Id => place'[current] = place[current]
           /\ \A g \in Id \intersect {job[d].tx, job[d].target} : gen'[g].lock = gen[g].lock
  PROVE  Evidence'
<1>1. \A g \in Id : qstatus'[g] # "missing" => g \in activated'
  BY HistoryGrows DEF Evidence
<1>2. QuarantineTruthful'
  BY TruthKept, HistoryGrows DEF QuarantineTruthful
<1>3. ASSUME NEW d \in Doctors PROVE Owed(d)'
  <2>1. CASE pc'[d] \notin Repairing
    BY <2>1 DEF Owed, Repairing, Replaying
  <2>2. CASE pc'[d] \in Repairing
    <3>1. Owed(d) /\ pc[d] \in Repairing /\ (pc[d] \in Building <=> pc'[d] \in Building)
          /\ (pc[d] = "finish" <=> pc'[d] = "finish")
      BY <2>2 DEF Evidence, Repairing, Building
    <3>2. job[d].target \in Id
      BY <3>1 DEF Inv, TypeInv, JobTyped, Proc
    <3>3. pc[d] \in Replaying => job[d].tx \in Id
      BY <3>1 DEF Inv, TypeInv, TypeOK, JobTyped, Proc, Owed, Replaying
    <3> QED BY <2>2, <3>1, <3>2, <3>3, HistoryGrows DEF Owed, Repairing, Replaying
  <2> QED BY <2>1, <2>2
<1> QED BY <1>1, <1>2, <1>3 DEF Evidence

\* While p holds the lock, nobody else repairs.
LEMMA OneRepair ==
  ASSUME TypeInv, SingleMutator, NEW p \in Proc, pc[p] \in Locked,
         \A q \in Proc \ {p} : pc'[q] = pc[q]
  PROVE  \A d \in Doctors \ {p} : pc'[d] \notin Repairing /\ Owed(d)'
<1>1. ASSUME NEW d \in Doctors \ {p} PROVE pc'[d] \notin Locked
  BY DEF SingleMutator, Proc
<1> QED BY <1>1 DEF Owed, Repairing, Replaying, Locked, Building

LEMMA EvidenceNext == Inv /\ Evidence /\ [Next]_vars => Evidence'
<1> USE OverlayAssumption DEF Goto, Stop, Exit
<1> SUFFICES ASSUME Inv, Evidence, [Next]_vars
             PROVE  Evidence'
  OBVIOUS
<1> /\ pc \in [Proc -> Locked \union Unlocked] /\ job \in [Proc -> Job]
    /\ gen \in [Id -> Gen] /\ TypeInv /\ SingleMutator /\ TypeOK /\ FreshIds
    /\ place \in [Id -> {"none", "generations", "quarantine", "deleted"}]
    /\ qstatus \in [Id -> {"missing", "quarantined", "rebuild-failed", "rebuilt"}]
    /\ current \in Id \union {None} /\ activated \subseteq Id
    /\ None \notin Id
  BY DEF Inv, TypeInv, TypeOK
<1> Doctors \subseteq Proc
  BY DEF Proc
\* Steps outside a transaction.
<1>1. ASSUME UNCHANGED <<current, place, qstatus>>,
             \A g \in Id : gen'[g].lock = gen[g].lock,
             \A d \in Doctors : pc'[d] \in Repairing => pc'[d] = pc[d] /\ job'[d] = job[d]
      PROVE  Evidence'
  BY <1>1, EvidenceFrame
<1>2. ASSUME NEW p \in Proc,
             \/ \E from \in Unlocked, to \in {"open", "check", "repair"} :
                  Acquire(p, from, to) \/ Busy(p, from)
             \/ p \in Pips /\ PipStart(p)
             \/ p \in Doctors /\ DoctorPlan(p)
             \/ Leave(p)
      PROVE  Evidence'
  <2>1. /\ UNCHANGED disk /\ pc'[p] \notin Repairing
        /\ \A q \in Proc \ {p} : pc'[q] = pc[q] /\ job'[q] = job[q]
    BY <1>2 DEF Acquire, Busy, PipStart, DoctorPlan, Leave, disk, Repairing, Building
  <2> QED BY <1>1, <2>1 DEF disk
<1>3. ASSUME \/ \E fault \in Damages : Damage(fault)
             \/ \E w \in Wheel : LoseArtifact(w)
             \/ UNCHANGED vars
      PROVE  Evidence'
  <2>1. UNCHANGED <<current, place, qstatus, pc, job>>
    BY <1>3 DEF Damage, LoseArtifact, vars, disk
  <2>2. \A g \in Id : gen'[g].lock = gen[g].lock
    BY <1>3 DEF Damage, LoseArtifact, vars, disk, Gen
  <2> QED BY <1>1, <2>1, <2>2
\* Steps of a transaction that is not a repair, or that end one.
<1>4. ASSUME NEW p \in Proc, pc[p] \in Locked, UNCHANGED qstatus,
             \A q \in Proc \ {p} : pc'[q] = pc[q],
             p \notin Doctors \/ pc'[p] \notin Repairing
      PROVE  Evidence'
  <2>1. \A d \in Doctors : pc'[d] \notin Repairing
    BY <1>4, OneRepair
  <2> QED BY <1>4, <2>1, EvidenceFrame
<1>5. ASSUME NEW p \in Proc,
             \/ OpenExisting(p)
             \/ OpenRefused(p)
             \/ InitCreate(p)
             \/ InitRecord(p)
             \/ InitActivate(p)
             \/ RunRefused(p)
             \/ MarkHealthy(p)
             \/ PruneDone(p)
             \/ CollectDone(p)
             \/ \E g \in Id : PruneGeneration(p, g)
             \/ \E w \in Wheel : CollectArtifact(p, w)
             \/ \E w \in Wheel : StoreWheel(p, w)
             \/ p \in Pips /\ (PipVerify(p) \/ PipRefused(p) \/ PipQuery(p) \/ PipBuild(p))
             \/ p \in Pips /\ (BuildInstall(p) \/ BuildRecord(p) \/ BuildActivate(p))
             \/ RepairRefused(p)
             \/ RepairInvalid(p)
      PROVE  Evidence'
  <2>1. pc[p] \in Locked /\ UNCHANGED qstatus
    BY <1>5 DEF OpenExisting, OpenRefused, InitCreate, InitRecord, InitActivate, RunRefused,
       MarkHealthy, PruneDone, CollectDone, PruneGeneration, CollectArtifact, StoreWheel,
       PipVerify, PipRefused, PipQuery, PipBuild, BuildInstall, BuildRecord, BuildActivate,
       RepairRefused, RepairInvalid, Locked, Building, disk
  <2>2. \A q \in Proc \ {p} : pc'[q] = pc[q]
    BY <1>5 DEF OpenExisting, OpenRefused, InitCreate, InitRecord, InitActivate, RunRefused,
       MarkHealthy, PruneDone, CollectDone, PruneGeneration, CollectArtifact, StoreWheel,
       PipVerify, PipRefused, PipQuery, PipBuild, BuildInstall, BuildRecord, BuildActivate,
       RepairRefused, RepairInvalid, Opened
  <2>3. p \notin Doctors \/ pc'[p] \notin Repairing
    BY <1>5 DEF OpenExisting, OpenRefused, InitCreate, InitRecord, InitActivate, RunRefused,
       MarkHealthy, PruneDone, CollectDone, PruneGeneration, CollectArtifact, StoreWheel,
       PipVerify, PipRefused, PipQuery, PipBuild, RepairRefused, RepairInvalid,
       Opened, Repairing, Building
  <2> QED BY <1>4, <2>1, <2>2, <2>3
\* The steps of a repair.
<1>6. ASSUME NEW d \in Doctors, BuildInstall(d) \/ BuildRecord(d) PROVE Evidence'
  <2>1. /\ UNCHANGED <<current, place, qstatus, job>> /\ pc[d] \in Building
        /\ pc'[d] \in Building
        /\ \A q \in Proc \ {d} : pc'[q] = pc[q]
    BY <1>6 DEF BuildInstall, BuildRecord, Building
  <2>2. \A g \in Id : gen'[g].lock = gen[g].lock
    BY <1>6, WritesKeep DEF Writes
  <2> QED BY <2>1, <2>2, EvidenceFrame
<1> SUFFICES ASSUME NEW d \in Doctors,
                    \/ BuildFails(d)
                    \/ BuildActivate(d)
                    \/ RepairRetry(d)
                    \/ RepairQuarantine(d)
                    \/ RepairRecord(d)
                    \/ RepairReplay(d)
                    \/ RepairFinish(d)
             PROVE  Evidence'
  <2>1. ASSUME NEW p \in Pips \union Runs, BuildFails(p) PROVE Evidence'
    <3>1. pc[p] \in Locked /\ p \in Proc /\ p \notin Doctors
      BY <2>1 DEF BuildFails, Locked, Proc
    <3> QED BY <1>4, <2>1, <3>1 DEF BuildFails
  <2> QED
    BY <1>2, <1>3, <1>5, <1>6, <2>1
    DEF Next, PipStep, RunStep, RepairStep, Build, Initialize, Proc, Unlocked
<1>7. /\ pc[d] \in Locked
      /\ \A q \in Proc \ {d} : pc'[q] = pc[q]
  BY DEF BuildFails, BuildActivate, RepairRetry, RepairQuarantine, RepairRecord, RepairReplay,
     RepairFinish, Locked, Building
<1>8. \A e \in Doctors \ {d} : Owed(e)'
  BY <1>7, OneRepair
<1> SUFFICES /\ \A g \in Id : qstatus'[g] # "missing" => g \in activated'
             /\ Owed(d)'
             /\ \A g \in Id : qstatus'[g] = "rebuilt" =>
                  qstatus[g] = "rebuilt" \/ \E h \in activated' \ {g} : gen'[h].lock = gen'[g].lock
  BY <1>8, TruthKept, HistoryGrows DEF Evidence, QuarantineTruthful
<1>9. /\ \A g \in Id : qstatus[g] # "missing" => g \in activated
      /\ activated \subseteq activated'
      /\ Owed(d)
      /\ pc[d] \in Repairing => job[d].target \in Id
      /\ pc[d] \in Building => job[d].tx \in Id
      /\ current \in Id => current \in activated
      /\ activated \subseteq issued
  BY HistoryGrows DEF Evidence, TypeInv, JobTyped, FreshIds
<1>10. CASE BuildFails(d)
  <2>1. pc'[d] = "idle"
    BY <1>10 DEF BuildFails
  <2>2. \A g \in Id : qstatus'[g] = qstatus[g] \/ (qstatus[g] # "missing" /\ qstatus'[g] = "rebuild-failed")
    BY <1>10 DEF BuildFails, StatusAfter
  <2> QED BY <1>9, <2>1, <2>2 DEF Owed, Repairing, Replaying, Building
<1>11. CASE BuildActivate(d)
  <2>1. /\ pc[d] = "activate" /\ pc'[d] = "finish" /\ UNCHANGED <<qstatus, gen, job>>
        /\ activated' = activated \union {job[d].tx}
    BY <1>11 DEF BuildActivate
  <2>2. Owed(d)'
    BY <1>9, <2>1 DEF Owed, Repairing, Replaying, Building
  <2> QED BY <1>9, <2>1, <2>2
<1>12. CASE RepairRetry(d)
  <2>1. /\ pc'[d] = "replay" /\ job'[d].target = current
        /\ UNCHANGED <<current, place, qstatus>> /\ place[current] = "quarantine"
    BY <1>12 DEF RepairRetry, disk, Job
  <2>2. Owed(d)'
    BY <2>1 DEF Owed, Repairing, Replaying, Building
  <2> QED BY <1>9, <2>1, <2>2
<1>13. CASE RepairQuarantine(d)
  <2>1. /\ pc'[d] = "quarantine" /\ job'[d].target = current
        /\ UNCHANGED <<current, qstatus>> /\ place'[current] = "quarantine"
    BY <1>13 DEF RepairQuarantine, Resolves, Job
  <2>2. Owed(d)'
    BY <2>1 DEF Owed, Repairing, Replaying, Building
  <2> QED BY <1>9, <2>1, <2>2
<1>14. CASE RepairRecord(d)
  <2>1. /\ pc[d] = "quarantine" /\ pc'[d] = "replay" /\ UNCHANGED <<current, place, job, activated>>
        /\ qstatus' = [qstatus EXCEPT ![job[d].target] = "quarantined"]
    BY <1>14 DEF RepairRecord, history
  <2>2. Owed(d)'
    BY <1>9, <2>1 DEF Owed, Repairing, Replaying, Building
  <2>3. job[d].target \in activated
    BY <1>9, <2>1 DEF Owed, Repairing
  <2> QED BY <1>9, <2>1, <2>2, <2>3
<1>15. CASE RepairReplay(d)
  <2>1. PICK i \in Id : NewId(i) /\ job' = [job EXCEPT ![d].tx = i] /\ Create(i, ReplayLock(d))
    BY <1>15 DEF RepairReplay
  <2>2. /\ pc[d] = "replay" /\ pc'[d] = "install" /\ UNCHANGED <<current, qstatus>>
        /\ job'[d].tx = i /\ job'[d].target = job[d].target
    BY <1>15, <2>1 DEF RepairReplay, Job
  <2>3. job[d].target = current /\ place[current] = "quarantine" /\ current \in Id
    BY <1>9, <2>2 DEF Owed, Repairing
  <2>4. i # current
    BY <1>9, <2>1, <2>3 DEF NewId
  <2>5. /\ place'[current] = "quarantine"
        /\ gen'[i].lock = gen[current].lock /\ gen'[current] = gen[current]
    BY <2>1, <2>3, <2>4 DEF Create, NewGen, ReplayLock
  <2>6. Owed(d)'
    BY <2>2, <2>3, <2>4, <2>5 DEF Owed, Replaying, Building
  <2> QED BY <1>9, <2>2, <2>6
<1>16. CASE RepairFinish(d)
  <2>1. /\ pc[d] = "finish" /\ pc'[d] = "idle" /\ UNCHANGED <<gen, activated>>
        /\ qstatus' = StatusAfter(job[d].target, "rebuilt")
    BY <1>16 DEF RepairFinish, history
  <2>2. /\ job[d].tx \in activated \ {job[d].target}
        /\ gen[job[d].tx].lock = gen[job[d].target].lock
    BY <1>9, <2>1 DEF Owed, Replaying
  <2>3. Owed(d)'
    BY <2>1 DEF Owed, Repairing, Replaying, Building
  <2>4. \A g \in Id : qstatus'[g] = qstatus[g] \/ (qstatus[g] # "missing" /\ g = job[d].target)
    BY <2>1 DEF StatusAfter
  <2> QED BY <1>9, <2>1, <2>2, <2>3, <2>4
<1> QED BY <1>10, <1>11, <1>12, <1>13, <1>14, <1>15, <1>16

\* The invariant of the repairs holds in every reachable state.
THEOREM EvidenceInvariance == Spec => []Evidence
<1>1. Inv /\ Inv' /\ Evidence /\ [Next]_vars => Evidence'
  BY EvidenceNext
<1> QED BY Invariance, EvidenceInit, <1>1, PTL DEF Spec

\* quarantine-state.json says "rebuilt" only of a generation whose lock another
\* activated generation serves, whichever repair wrote it and after whatever
\* interrupted repairs before.
THEOREM QuarantineSaysTruth == Spec => []QuarantineTruthful
<1>1. Evidence => QuarantineTruthful
  BY DEF Evidence
<1> QED BY EvidenceInvariance, <1>1, PTL

(***************************************************************************)
(* Ids in order and one pip.                                               *)
(***************************************************************************)

OnePip == \A p, q \in Pips : p = q

LEMMA LineageInit == Init => Lineage
BY OverlayAssumption
DEF Init, Lineage, Initializing, Building, Proc

LEMMA NextId ==
  ASSUME OrderedClock, issued \subseteq Id, Lineage, NEW i, NewId(i)
  PROVE  /\ \A j, k \in Id : j < k /\ k \in issued' => j \in issued'
         /\ \A j \in issued : j < i
<1> USE OverlayAssumption DEF Id
<1>1. i \in Id \ issued /\ (\A j \in Id \ issued : i <= j) /\ issued' = issued \union {i}
  BY DEF NewId
<1> QED BY <1>1 DEF Lineage

LEMMA OrderKept ==
  ASSUME OrderedClock, TypeOK, Lineage, [Next]_vars
  PROVE  \A j, k \in Id : j < k /\ k \in issued' => j \in issued'
<1> issued \subseteq Id
  BY DEF TypeOK
<1>1. CASE UNCHANGED issued
  BY <1>1 DEF Lineage
<1>2. CASE \E i \in Id : NewId(i)
  BY <1>2, NextId
<1>3. UNCHANGED issued \/ \E i \in Id : NewId(i)
  BY ZenonT(60) DEF Next, PipStep, RunStep, RepairStep, Build, Initialize, Proc,
     Acquire, Busy, OpenExisting, OpenRefused, InitCreate, InitRecord, InitActivate, PipStart,
     PipVerify, PipRefused, PipQuery, StoreWheel, PipBuild, BuildInstall,
     BuildRecord, BuildActivate, BuildFails, RunRefused, MarkHealthy, PruneGeneration,
     PruneDone, CollectArtifact, CollectDone, DoctorPlan, RepairRetry,
     RepairQuarantine, RepairRefused, RepairRecord, RepairReplay,
     RepairInvalid, RepairFinish, Leave, Damage, LoseArtifact, Exit, vars
<1> QED BY <1>1, <1>2, <1>3

\* Steps that activate nothing, start no initialization, no replay and no pip.
LEMMA LineageFrame ==
  ASSUME OrderedClock, TypeOK, Lineage, [Next]_vars,
         UNCHANGED <<current, activated>>,
         Healthy' \subseteq Healthy \union {current},
         current # None => place'[current] \in {"generations", "quarantine"},
         \A p \in Proc : pc'[p] \in Initializing => current = None \/ pc[p] \in Initializing,
         \A p \in Pips : pc'[p] # "idle" =>
           \/ pc[p] # "idle" /\ job'[p].tx = job[p].tx
           \/ \A g \in Healthy : ~(g > job'[p].tx),
         \A d \in Doctors : pc'[d] \in Building =>
           \/ pc[d] \in Building /\ job'[d].tx = job[d].tx
           \/ \A g \in activated : g < job'[d].tx
  PROVE  Lineage'
<1> USE OverlayAssumption
<1>1. \A j, k \in Id : j < k /\ k \in issued' => j \in issued'
  BY OrderKept
<1>2. current # None => current \in Id /\ ~(current > current)
  BY DEF TypeOK, Id
<1>3. /\ current' = None => activated' = {}
      /\ current' # None => place'[current'] \in {"generations", "quarantine"}
      /\ \A p \in Proc : pc'[p] \in Initializing => current' = None
      /\ \A d \in Doctors : pc'[d] \in Building => \A g \in activated' : g < job'[d].tx
  BY DEF Lineage
<1>4. ASSUME current' # None, NEW g \in Healthy', NEW h \in Healthy', g > current', h > current'
      PROVE  g = h
  <2>1. g \in Healthy /\ h \in Healthy
    BY <1>2, <1>4
  <2> QED BY <1>4, <2>1 DEF Lineage
<1>5. ASSUME NEW p \in Pips, pc'[p] # "idle", NEW g \in Healthy', g > job'[p].tx
      PROVE  g = current'
  BY <1>5 DEF Lineage
<1> QED BY <1>1, <1>3, <1>4, <1>5 DEF Lineage

\* Only MarkHealthy makes a generation healthy, and only the current one.
LEMMA HealthyKept ==
  ASSUME Inv, Retention, [Next]_vars
  PROVE  Healthy' \subseteq Healthy \union {current}
<1> TypeOK /\ gen \in [Id -> Gen]
    /\ place \in [Id -> {"none", "generations", "quarantine", "deleted"}]
  BY DEF Inv, TypeInv, TypeOK
<1>1. ASSUME NEW p \in Proc, Writes(p), NEW g \in Healthy' PROVE g \in Healthy \union {current}
  <2>1. g \in Id /\ gen'[g].recorded /\ gen'[g].healthy /\ place[g] = "generations"
    BY <1>1, WritesKeep DEF Healthy
  <2>2. CASE MarkHealthy(p)
    BY <2>1, <2>2 DEF MarkHealthy, Healthy
  <2>3. CASE BuildInstall(p)
    <3>1. gen[g].recorded = gen'[g].recorded /\ gen[g].healthy = gen'[g].healthy
      BY ZenonT(60), <2>1, <2>3 DEF BuildInstall, Gen
    <3> QED BY <2>1, <3>1 DEF Healthy
  <2>4. CASE InitRecord(p)
    <3>1. gen[g].healthy
      BY <2>1, <2>4 DEF InitRecord, Gen
    <3>2. g # job[p].target
      BY <2>4, <3>1, <2>1 DEF InitRecord, Inv, FreshIds, Initializing, Retention, HealthyActivated
    <3>3. gen'[g] = gen[g]
      BY <2>1, <2>4, <3>2 DEF InitRecord
    <3> QED BY <2>1, <3>3 DEF Healthy
  <2>5. CASE BuildRecord(p)
    <3>1. gen[g].healthy
      BY <2>1, <2>5 DEF BuildRecord, Gen
    <3>2. job[p].tx # None /\ job[p].tx \notin activated
      BY <2>5, OverlayAssumption DEF BuildRecord, Building, Inv, TypeInv, JobTyped, FreshIds
    <3>3. gen'[g] = gen[g]
      BY <2>1, <2>5, <3>1, <3>2 DEF BuildRecord, Retention, HealthyActivated
    <3> QED BY <2>1, <3>3 DEF Healthy
  <2> QED BY <1>1, <2>2, <2>3, <2>4, <2>5 DEF Writes
<1>2. ASSUME NEW p \in Proc, Elsewhere(p) \/ Activates(p) PROVE Healthy' = Healthy
  BY <1>2, ElsewhereKeeps DEF Activates, InitActivate, BuildActivate, Healthy
<1>3. ASSUME NEW p \in Proc, Creates(p) PROVE Healthy' \subseteq Healthy
  BY <1>3, CreatesNew DEF Healthy
<1>4. ASSUME NEW p \in Proc, NEW g \in Id, PruneGeneration(p, g) PROVE Healthy' \subseteq Healthy
  BY <1>4 DEF PruneGeneration, Healthy
<1>5. ASSUME NEW d \in Doctors, RepairQuarantine(d) PROVE Healthy' \subseteq Healthy
  BY <1>5 DEF RepairQuarantine, Healthy
<1>6. ASSUME NEW fault \in Damages, Damage(fault) PROVE Healthy' = Healthy
  <2>1. \A g \in Id : gen'[g].recorded = gen[g].recorded /\ gen'[g].healthy = gen[g].healthy
    BY <1>6 DEF Damage, Gen
  <2> QED BY <1>6, <2>1 DEF Damage, Healthy
<1>7. CASE UNCHANGED vars \/ \E w \in Wheel : LoseArtifact(w)
  BY <1>7 DEF vars, disk, LoseArtifact, Healthy
<1> QED BY <1>1, <1>2, <1>3, <1>4, <1>5, <1>6, <1>7, Effects

\* Retention never reaches the active generation: at most one healthy one is
\* newer, and two are kept.
LEMMA ActiveStays ==
  ASSUME Inv, Lineage, [Next]_vars, current' = current, current # None
  PROVE  place'[current] \in {"generations", "quarantine"}
<1> /\ TypeOK /\ current \in Id /\ current \in activated
    /\ place \in [Id -> {"none", "generations", "quarantine", "deleted"}]
  BY DEF Inv, TypeInv, TypeOK, FreshIds
<1>1. place[current] \in {"generations", "quarantine"}
  BY DEF Lineage
<1>2. ASSUME NEW p \in Proc, NEW g \in Id, PruneGeneration(p, g)
      PROVE  place'[current] = place[current]
  <2>1. PICK h, k \in Healthy : h > g /\ k > g /\ h # k
    BY <1>2 DEF PruneGeneration, Keep
  <2>2. g # current
    BY <2>1 DEF Lineage
  <2> QED BY <1>2, <2>2 DEF PruneGeneration
<1>3. ASSUME NEW p \in Proc, Activates(p) PROVE UNCHANGED place
  BY <1>3 DEF Activates, InitActivate, BuildActivate
<1>4. ASSUME NEW d \in Doctors, RepairQuarantine(d) PROVE place'[current] = "quarantine"
  BY <1>4 DEF RepairQuarantine
<1>5. CASE \/ \E fault \in Damages : Damage(fault)
           \/ \E w \in Wheel : LoseArtifact(w)
           \/ UNCHANGED vars
  BY <1>1, <1>5 DEF Damage, LoseArtifact, vars, disk
<1>6. ASSUME NEW p \in Proc, Creates(p) PROVE place'[current] = place[current]
  BY <1>6, CreatesNew
<1> QED BY <1>1, <1>2, <1>3, <1>4, <1>5, <1>6, Effects, ElsewhereKeeps, WritesKeep

LEMMA LineageNext ==
  ASSUME OrderedClock, OnePip,
         Inv, Retention, Evidence, Lineage, [Next]_vars
  PROVE  Lineage'
<1> USE OverlayAssumption DEF Goto, Stop, Exit
<1> /\ pc \in [Proc -> Locked \union Unlocked] /\ job \in [Proc -> Job]
    /\ TypeInv /\ SingleMutator /\ TypeOK /\ FreshIds
    /\ place \in [Id -> {"none", "generations", "quarantine", "deleted"}]
    /\ current \in Id \union {None} /\ activated \subseteq Id
    /\ activated \subseteq issued /\ issued \subseteq Id
    /\ None \notin Id
  BY DEF Inv, TypeInv, TypeOK, FreshIds
<1> Doctors \subseteq Proc /\ Pips \subseteq Proc /\ Pips \intersect Doctors = {}
  BY DEF Proc
<1>h. Healthy' \subseteq Healthy \union {current} /\ Healthy \subseteq activated
  BY HealthyKept DEF Retention, HealthyActivated, Healthy
\* A new id is larger than everything that was active.
<1>n. ASSUME NEW i \in Id, NewId(i)
      PROVE  \A g \in activated : g < i /\ ~(g > i)
  <2>1. \A g \in activated : g < i
    BY <1>n, NextId
  <2> QED BY <2>1 DEF Id
<1>1. ASSUME UNCHANGED <<current, activated>>,
             \A p \in Proc : pc'[p] \in Initializing => current = None \/ pc[p] \in Initializing,
             \A p \in Pips : pc'[p] # "idle" =>
               \/ pc[p] # "idle" /\ job'[p].tx = job[p].tx
               \/ \A g \in Healthy : ~(g > job'[p].tx),
             \A d \in Doctors : pc'[d] \in Building =>
               \/ pc[d] \in Building /\ job'[d].tx = job[d].tx
               \/ \A g \in activated : g < job'[d].tx
      PROVE  Lineage'
  <2>1. current # None => place'[current] \in {"generations", "quarantine"}
    BY <1>1, ActiveStays
  <2> QED BY <1>1, <1>h, <2>1, LineageFrame
\* Steps that give no id and activate nothing.
<1>2. ASSUME NEW p \in Proc,
             UNCHANGED <<current, activated>>,
             \A q \in Proc \ {p} : pc'[q] = pc[q] /\ job'[q] = job[q],
             pc'[p] \in Initializing => current = None \/ pc[p] \in Initializing,
             pc'[p] # "idle" /\ p \in Pips => pc[p] # "idle" /\ job'[p].tx = job[p].tx,
             pc'[p] \in Building /\ p \in Doctors => pc[p] \in Building /\ job'[p].tx = job[p].tx
      PROVE  Lineage'
  BY <1>1, <1>2
<1>3. ASSUME NEW p \in Proc, Elsewhere(p), ~(p \in Pips /\ PipStart(p)) PROVE Lineage'
  <2>1. UNCHANGED <<current, activated>>
    BY <1>3, ElsewhereKeeps
  <2>2. \A q \in Proc \ {p} : pc'[q] = pc[q] /\ job'[q] = job[q]
    BY <1>3 DEF Elsewhere, Acquire, Busy, OpenExisting, OpenRefused, Opened, PipVerify,
       PipRefused, PipQuery, StoreWheel, BuildFails, RunRefused, PruneDone,
       CollectArtifact, CollectDone, DoctorPlan, RepairRetry, RepairRefused,
       RepairRecord, RepairInvalid, RepairFinish, Leave
  <2>3. pc'[p] \notin Initializing \union Building
    BY <1>3 DEF Elsewhere, Acquire, Busy, OpenExisting, OpenRefused, Opened, PipVerify,
       PipRefused, PipQuery, StoreWheel, BuildFails, RunRefused, PruneDone,
       CollectArtifact, CollectDone, DoctorPlan, RepairRetry, RepairRefused,
       RepairRecord, RepairInvalid, RepairFinish, Leave, Initializing, Building
  <2>4. pc'[p] # "idle" /\ p \in Pips => pc[p] # "idle" /\ job'[p].tx = job[p].tx
    <3> SUFFICES ASSUME pc'[p] # "idle", p \in Pips
                 PROVE  pc[p] # "idle" /\ job'[p].tx = job[p].tx
      OBVIOUS
    <3>1. \/ /\ UNCHANGED job /\ pc[p] # "idle"
          \/ /\ \E w \in Wheel : job' = [job EXCEPT ![p].wheels = @ \union {w}]
             /\ pc[p] = "resolve"
          \/ job' = [job EXCEPT ![p].seen = current] /\ pc[p] = "verify"
      BY <1>3 DEF Elsewhere, Acquire, Busy, OpenExisting, OpenRefused, PipVerify,
         PipRefused, PipQuery, StoreWheel, BuildFails, RunRefused, PruneDone,
         CollectArtifact, CollectDone, Leave
    <3> QED BY <3>1 DEF Job
  <2> QED BY <1>2, <2>1, <2>2, <2>3, <2>4
<1>4. ASSUME NEW p \in Proc, Writes(p) PROVE Lineage'
  <2>1. UNCHANGED <<current, activated>>
    BY <1>4, WritesKeep
  <2>2. /\ \A q \in Proc \ {p} : pc'[q] = pc[q]
        /\ UNCHANGED job /\ pc[p] # "idle"
        /\ pc'[p] \in Initializing => pc[p] \in Initializing
        /\ pc'[p] \in Building => pc[p] \in Building
    BY <1>4 DEF Writes, InitRecord, BuildInstall, BuildRecord, MarkHealthy, Initializing, Building
  <2> QED BY <1>2, <2>1, <2>2
<1>5. ASSUME NEW p \in Proc, NEW g \in Id, PruneGeneration(p, g) PROVE Lineage'
  BY <1>1, <1>5 DEF PruneGeneration, history
<1>6. ASSUME NEW d \in Doctors, RepairQuarantine(d) PROVE Lineage'
  BY <1>2, <1>6 DEF RepairQuarantine, history, Initializing, Building
<1>7. ASSUME \/ \E fault \in Damages : Damage(fault)
             \/ \E w \in Wheel : LoseArtifact(w)
             \/ UNCHANGED vars
      PROVE  Lineage'
  <2>1. UNCHANGED <<current, activated, pc, job>>
    BY <1>7 DEF Damage, LoseArtifact, vars, disk, history
  <2> QED BY <1>1, <2>1
\* Steps that give an id.
<1>8. ASSUME NEW p \in Pips, PipStart(p) PROVE Lineage'
  <2>1. PICK i \in Id : NewId(i) /\ job' = [job EXCEPT ![p].tx = i]
    BY <1>8 DEF PipStart
  <2>2. /\ UNCHANGED <<current, activated>> /\ pc'[p] = "pip.lock"
        /\ \A q \in Proc \ {p} : pc'[q] = pc[q] /\ job'[q] = job[q]
        /\ job'[p].tx = i
    BY <1>8, <2>1 DEF PipStart, disk, history, Job
  <2>3. \A g \in Healthy : ~(g > job'[p].tx)
    BY <2>1, <2>2, <1>h, <1>n
  <2>4. \A q \in Proc : pc'[q] \in Initializing \union Building => q # p
    BY <2>2 DEF Initializing, Building
  <2> QED BY <1>1, <2>2, <2>3, <2>4
<1>9. ASSUME NEW p \in Proc, InitCreate(p) PROVE Lineage'
  <2>1. /\ UNCHANGED <<current, activated>> /\ current = None /\ pc[p] = "open"
        /\ pc'[p] = "init.record"
        /\ \A q \in Proc \ {p} : pc'[q] = pc[q] /\ job'[q] = job[q]
        /\ job'[p].tx = job[p].tx
    BY <1>9 DEF InitCreate, history, Job
  <2> QED BY <1>2, <2>1 DEF Building
<1>10. ASSUME NEW p \in Pips, PipBuild(p) PROVE Lineage'
  <2>1. /\ UNCHANGED <<current, activated, job>> /\ pc[p] = "resolve"
        /\ pc'[p] = "install" /\ p \in Proc /\ p \notin Doctors
        /\ \A q \in Proc \ {p} : pc'[q] = pc[q]
    BY <1>10 DEF PipBuild, history
  <2> QED BY <1>2, <2>1 DEF Initializing
<1>11. ASSUME NEW d \in Doctors, RepairReplay(d) PROVE Lineage'
  <2>1. PICK i \in Id : NewId(i) /\ job' = [job EXCEPT ![d].tx = i]
    BY <1>11 DEF RepairReplay
  <2>2. /\ UNCHANGED <<current, activated>> /\ pc'[d] = "install"
        /\ \A q \in Proc \ {d} : pc'[q] = pc[q] /\ job'[q] = job[q]
        /\ job'[d].tx = i
    BY <1>11, <2>1 DEF RepairReplay, history, Job
  <2>3. \A g \in activated : g < job'[d].tx
    BY <2>1, <2>2, <1>n
  <2> QED BY <1>1, <2>2, <2>3 DEF Initializing
\* Steps that activate.
<1>12. ASSUME NEW p \in Proc, Activates(p) PROVE Lineage'
  <2>1. /\ pc[p] \in Locked /\ pc'[p] \notin Initializing \union Building
        /\ \A q \in Proc \ {p} : pc'[q] = pc[q]
        /\ UNCHANGED <<place, gen>>
        /\ activated' = activated \union {current'}
        /\ \/ /\ pc[p] = "init.activate" /\ current' = job[p].target
              /\ UNCHANGED job
           \/ /\ pc[p] = "activate" /\ current' = job[p].tx
              /\ p \in Pips \union Doctors
              /\ p \in Pips => pc'[p] = "idle"
              /\ UNCHANGED job \/ p \notin Doctors
    BY <1>12 DEF Activates, InitActivate, BuildActivate, Opened, Initializing, Building, Locked
  <2>2. \A q \in Proc \ {p} : pc[q] \notin Locked
    BY <2>1 DEF SingleMutator
  <2>3. \A q \in Proc : pc'[q] \notin Initializing \union Building
    BY <2>1, <2>2 DEF Locked, Initializing, Building
  <2>4. Healthy' = Healthy
    BY <2>1 DEF Healthy
  <2>5. current' \in Id /\ place'[current'] = "generations"
    BY <2>1 DEF TypeInv, JobTyped, Inv, DiskInv, Progress, Initializing, Building
  <2>6. \A j, k \in Id : j < k /\ k \in issued' => j \in issued'
    BY OrderKept
  <2> SUFFICES /\ \A g, h \in Healthy : g > current' /\ h > current' => g = h
               /\ \A q \in Pips : pc'[q] # "idle" =>
                    \A g \in Healthy : g > job'[q].tx => g = current'
    BY <2>3, <2>4, <2>5, <2>6 DEF Lineage
  <2>7. CASE pc[p] = "init.activate"
    <3>1. Healthy = {}
      BY <1>h, <2>7 DEF Lineage, Initializing
    <3> QED BY <3>1
  <2>8. CASE pc[p] = "activate" /\ p \in Pips
    <3>1. \A g \in Healthy : g > current' => g = current
      BY <2>1, <2>8 DEF Lineage
    <3>2. \A q \in Pips : pc'[q] = "idle"
      BY <2>1, <2>8 DEF OnePip
    <3> QED BY <3>1, <3>2
  <2>9. CASE pc[p] = "activate" /\ p \in Doctors
    <3>1. \A g \in activated : g < current'
      BY <2>1, <2>9 DEF Lineage, Building
    <3>2. \A g \in Healthy : ~(g > current')
      BY <1>h, <2>5, <3>1 DEF Id
    <3>3. current \notin Healthy
      BY <2>9 DEF Evidence, Owed, Repairing, Building, Healthy
    <3>4. ASSUME NEW q \in Pips, pc'[q] # "idle", NEW g \in Healthy, g > job'[q].tx
          PROVE  g = current'
      <4>1. q # p /\ pc[q] # "idle" /\ job'[q] = job[q]
        BY <2>1, <2>9, <3>4
      <4>2. g = current
        BY <3>4, <4>1 DEF Lineage
      <4> QED BY <3>3, <4>2
    <3> QED BY <3>2, <3>4
  <2> QED BY <2>1, <2>7, <2>8, <2>9
<1> QED
  BY <1>3, <1>4, <1>5, <1>6, <1>7, <1>8, <1>9, <1>10, <1>11, <1>12, Effects DEF Creates

\* At most one healthy generation is newer than the active one.
THEOREM LineageInvariance ==
  ASSUME OrderedClock, OnePip
  PROVE  Spec => []Lineage
<1>1. Inv /\ Retention /\ Evidence /\ Lineage /\ [Next]_vars => Lineage'
  BY LineageNext
<1> QED BY Invariance, EvidenceInvariance, LineageInit, <1>1, PTL DEF Spec

(***************************************************************************)
(* The refinement.                                                         *)
(***************************************************************************)

Served == IF current = None THEN {} ELSE gen[current].lock
Stock == artifacts \union lost

LEMMA StatusIs ==
  ASSUME Lineage
  PROVE  /\ current = None => Status = "new"
         /\ current # None /\ place[current] = "generations" => Status = "serving"
         /\ current # None /\ place[current] = "quarantine" => Status = "withdrawn"
BY DEF Status, Resolves

LEMMA StatusNext ==
  ASSUME Lineage'
  PROVE  /\ current' = None => Status' = "new"
         /\ current' # None /\ place'[current'] = "generations" => Status' = "serving"
         /\ current' # None /\ place'[current'] = "quarantine" => Status' = "withdrawn"
BY DEF Status, Resolves

\* Every step is a step of the atomic overlay or leaves it as it is.
LEMMA AtomicStep ==
  ASSUME Inv, Inv', Evidence, Lineage, Lineage', [Next]_vars
  PROVE  [Atomic!Next]_(Atomic!vars)
<1> USE OverlayAssumption DEF Served, Stock
<1> /\ TypeInv /\ TypeOK /\ SingleMutator
    /\ place \in [Id -> {"none", "generations", "quarantine", "deleted"}]
    /\ current \in Id \union {None} /\ None \notin Id
    /\ gen \in [Id -> Gen]
  BY DEF Inv, TypeInv, TypeOK
<1>c. current # None => gen'[current].lock = gen[current].lock
  BY EvidenceKept DEF Inv, FreshIds
<1>1. ASSUME current' = current, current # None => place'[current] = place[current], Stock' = Stock
      PROVE  UNCHANGED Atomic!vars
  <2>1. Status' = Status
    BY <1>1, StatusIs, StatusNext DEF Lineage
  <2>2. Served' = Served
    BY <1>1, <1>c
  <2> QED BY <1>1, <2>1, <2>2 DEF Atomic!vars
<1>2. ASSUME NEW d \in Doctors, RepairQuarantine(d) PROVE Atomic!Withdraw
  <2>1. /\ current \in Id /\ place[current] = "generations"
        /\ UNCHANGED <<current, gen, artifacts, lost>> /\ place'[current] = "quarantine"
    BY <1>2 DEF RepairQuarantine, Resolves, history
  <2> QED BY <2>1, StatusIs, StatusNext DEF Atomic!Withdraw
<1>3. ASSUME NEW p \in Proc, InitActivate(p) PROVE Atomic!Open
  <2>1. /\ current = None /\ job[p].target \in Id
        /\ place[job[p].target] = "generations" /\ gen[job[p].target].lock = {}
    BY <1>3 DEF InitActivate, Initializing, Lineage, TypeInv, JobTyped, Inv, DiskInv, Progress
  <2>2. current' = job[p].target /\ UNCHANGED <<place, gen, artifacts, lost>>
    BY <1>3 DEF InitActivate
  <2> QED BY <2>1, <2>2, StatusIs, StatusNext DEF Atomic!Open
<1>4. ASSUME NEW p \in Pips \union Doctors, BuildActivate(p)
      PROVE  Atomic!Replay \/ \E ws \in SUBSET Wheel : Atomic!Install(ws)
  <2> DEFINE t == job[p].tx
  <2>1. /\ t \in Id /\ place[t] = "generations" /\ gen[t].lock \subseteq Stock
        /\ gen[t].lock \in SUBSET Wheel
    BY <1>4 DEF BuildActivate, Building, TypeInv, JobTyped, Inv, DiskInv, Progress, Stored, Gen, Proc
  <2>2. current' = t /\ UNCHANGED <<place, gen, artifacts, lost>>
    BY <1>4 DEF BuildActivate
  <2>3. CASE p \in Pips
    <3>1. current # None /\ place[current] = "generations"
      BY <1>4, <2>3 DEF BuildActivate, Building, Inv, DiskInv, Progress, Resolves, Proc
    <3>2. Atomic!Install(gen[t].lock)
      BY <2>1, <2>2, <3>1, StatusIs, StatusNext DEF Atomic!Install
    <3> QED BY <2>1, <3>2
  <2>4. CASE p \in Doctors
    <3>1. /\ current \in Id /\ place[current] = "quarantine"
          /\ gen[t].lock = gen[current].lock
      BY <1>4, <2>4 DEF BuildActivate, Building, Evidence, Owed, Repairing, Replaying,
         TypeInv, JobTyped, Proc
    <3>2. Atomic!Replay
      BY <2>1, <2>2, <3>1, StatusIs, StatusNext DEF Atomic!Replay
    <3> QED BY <3>2
  <2> QED BY <2>3, <2>4
<1>5. ASSUME NEW p \in Proc, NEW w \in Wheel, StoreWheel(p, w) PROVE Atomic!Store(w)
  <2>1. UNCHANGED <<current, place, gen>> /\ Stock' = Stock \union {w}
    BY <1>5 DEF StoreWheel
  <2> QED BY <2>1, StatusIs, StatusNext DEF Atomic!Store, Lineage
<1>6. ASSUME NEW p \in Proc, NEW w \in Wheel, CollectArtifact(p, w)
      PROVE  Atomic!Discard(w) \/ UNCHANGED Atomic!vars
  <2>1. UNCHANGED <<current, place, gen, lost>> /\ artifacts' = artifacts \ {w}
    BY <1>6 DEF CollectArtifact, history
  <2>2. CASE w \in lost
    BY <1>1, <2>1, <2>2
  <2>3. CASE w \notin lost
    <3>1. Stock' = Stock \ {w}
      BY <2>1, <2>3
    <3>2. w \notin Served
      BY <2>1, <3>1 DEF Inv, DiskInv, ActiveReplayable, Lineage
    <3> QED BY <2>1, <3>1, <3>2, StatusIs, StatusNext DEF Atomic!Discard, Lineage
  <2> QED BY <2>2, <2>3
\* The other steps are invisible.
<1>7. ASSUME NEW p \in Proc, Elsewhere(p) \/ Writes(p) \/ Creates(p),
             \A w \in Wheel : ~StoreWheel(p, w) /\ ~CollectArtifact(p, w)
      PROVE  UNCHANGED Atomic!vars
  <2>1. UNCHANGED <<artifacts, lost>>
    BY <1>7 DEF Elsewhere, Writes, Creates, Acquire, Busy, OpenExisting, OpenRefused,
       PipStart, PipVerify, PipRefused, PipQuery, BuildFails, RunRefused, PruneDone,
       CollectDone, DoctorPlan, RepairRetry, RepairRefused, RepairRecord, RepairInvalid,
       RepairFinish, Leave, Exit, Stop, InitRecord, BuildInstall, BuildRecord, MarkHealthy,
       InitCreate, PipBuild, RepairReplay, disk, history
  <2>2. current' = current
    BY <1>7, ElsewhereKeeps, WritesKeep, CreatesNew
  <2>3. current # None => place'[current] = place[current]
    BY <1>7, ElsewhereKeeps, WritesKeep, CreatesNew DEF Inv, FreshIds
  <2> QED BY SMTT(30), <1>1, <2>1, <2>2, <2>3
<1>8. ASSUME NEW p \in Proc, NEW g \in Id, PruneGeneration(p, g) PROVE UNCHANGED Atomic!vars
  <2>1. /\ UNCHANGED <<current, artifacts, lost>>
        /\ place' = [place EXCEPT ![g] = "deleted"]
    BY <1>8 DEF PruneGeneration, history
  <2>2. current # None => g # current
    BY <2>1 DEF Lineage
  <2> QED BY <1>1, <2>1, <2>2
<1>9. ASSUME \/ \E fault \in Damages : Damage(fault)
             \/ \E w \in Wheel : LoseArtifact(w)
             \/ UNCHANGED vars
      PROVE  UNCHANGED Atomic!vars
  <2>1. UNCHANGED <<current, place>> /\ Stock' = Stock
    BY <1>9 DEF Damage, LoseArtifact, vars, disk, history
  <2> QED BY <1>1, <2>1
<1>10. ASSUME NEW p \in Proc, Elsewhere(p) \/ Writes(p) \/ Creates(p) \/ Activates(p)
       PROVE  [Atomic!Next]_(Atomic!vars)
  BY <1>3, <1>4, <1>5, <1>6, <1>7, <1>10 DEF Activates, Atomic!Next
<1> QED BY <1>2, <1>8, <1>9, <1>10, Effects DEF Atomic!Next

\* With one pip at a time and ids in order, users see one complete lock after
\* another: installs, repairs and garbage collections, with every crash between
\* their steps, implement the atomic overlay.
THEOREM Refinement ==
  ASSUME OrderedClock, OnePip
  PROVE  Spec => ImplementsAtomicOverlay
<1>1. Init => Atomic!Init
  BY LineageInit, StatusIs DEF Init, Atomic!Init
<1>2. Inv /\ Inv' /\ Evidence /\ Lineage /\ Lineage' /\ [Next]_vars
        => [Atomic!Next]_(Atomic!vars)
  BY AtomicStep
<1> QED
  BY Invariance, EvidenceInvariance, LineageInvariance, <1>1, <1>2, PTL
  DEF Spec, ImplementsAtomicOverlay, Atomic!Spec
================================================================================
