-------------------------- MODULE LocalImagesProofs --------------------------
(***************************************************************************)
(* Theorems about LocalImages, for any number of workers, versions,        *)
(* registries, images, edits, changes, losses and commands.                *)
(***************************************************************************)
EXTENDS LocalImages, SequenceTheorems, FiniteSetTheorems, TLAPS

(***************************************************************************)
(* The inductive invariant.                                                *)
(***************************************************************************)

Made == DOMAIN images
Locks == {LockOf[v] : v \in Versions} \cup {None}

\* A configuration, of images that were made or will be, and a context.
AnyCfg == [base: Ids, manifest: OrNone(Ids), digest: Ids]
ContextType == [files: Contents, config: AnyCfg]

ImageType ==
  [kind: {"base", "torch"}, rev: OrNone(Versions), locks: Locks, parent: OrNone(Ids)]
    \cup [kind: {"project"}, rev: ContextType, locks: ContextType, parent: Ids, digest: Ids]

SelType == [source: {"pull", "build"}, base: Made, torch: Made, digest: Made, quiet: BOOLEAN]
CfgType == [base: Made, manifest: OrNone(Made), digest: Made]

Building == {"base_build", "base_load", "base_loaded", "base_built",
             "torch_build", "torch_load", "torch_loaded", "torch_built"}
Choosing == {"pull", "verify", "verified"}
LocalBuild == {"base", "torch", "building", "lookup", "revalidate"}
Binding == {"bind", "bound", "configure", "created"}
Shown == {"ready", "profile", "start"}
Using == {"decide", "build", "copied", "built", "container"} \cup Shown
UserPcs == {"idle", "blocked", "fallback", "validate", "project", "context", "post"}
             \cup Choosing \cup LocalBuild \cup Binding \cup Using

UserType ==
  [pc: UserPcs, cmd: OrNone({"install", "init", "run", "repair"}),
   left: Seq(Range(Order)), kind: OrNone(Kinds), sel: OrNone(SelType),
   mismatch: BOOLEAN, cfg: OrNone(CfgType), fp: OrNone(ContextType),
   copied: OrNone(ContextType), seen: Nat,
   force: BOOLEAN, rebuild: BOOLEAN, prev: OrNone(Made), image: OrNone(Made)]

JobType ==
  [pc: BuildPcs \cup {"idle"}, rev: OrNone(Versions), locks: Locks, base: OrNone(Made),
   torch: OrNone(Made), prev: {None}, run: {None}, kind: {None},
   todo: SUBSET Made]

\* A command holds what its next step needs.
Stage(u, j) ==
  /\ u.pc \notin {"idle", "building"} => j.pc = "idle"
  /\ u.pc = "building" => j.pc \in Building
  /\ u.pc \in {"fallback", "validate"} \cup LocalBuild => u.cmd = "install"
  /\ u.pc \in Choosing => u.kind \in Kinds
  /\ u.pc \in Binding => u.cmd \in {"install", "init"} /\ u.sel \in SelType
  /\ u.pc = "revalidate" => u.sel \in SelType /\ u.sel.source = "build"
  /\ u.pc \in LocalBuild => u.seen <= edits
  /\ u.pc \in {"lookup", "ready", "container"} => u.image \in Made
  /\ u.pc \in {"context"} \cup Using => u.cfg \in CfgType
  /\ u.pc \in Using => u.fp \in ContextType
  /\ u.pc = "copied" => u.copied \in ContextType
  /\ j.pc = "torch_built" => j.torch \in Made

TypeInv ==
  /\ TypeOK
  /\ images \in Seq(ImageType)
  /\ selection \in OrNone(SelType) /\ config \in OrNone(CfgType)
  /\ edits \in Nat /\ context \in Locks
  /\ user \in [Workers -> UserType] /\ job \in [Workers -> JobType]
  /\ \A w \in Workers : Stage(user[w], job[w])

\* One installer at a time; project-init only ever binds the release.
Installing(u) == u.cmd = "install" /\ u.pc # "idle"

OneInstaller ==
  \A v, w \in Workers : Installing(user[v]) /\ Installing(user[w]) => v = w

OfRelease ==
  /\ \A i \in {1, 2} : images[i].locks = LockOf[Revision]
  /\ \A w \in Workers : user[w].pc \in Binding /\ user[w].cmd = "init" =>
       user[w].sel = ReleaseSelection

\* What the installer builds, as long as nobody edited the source since it was
\* validated: its own images are of the commit, and so is what the tags name
\* once they are loaded, unless a build of other sources overtakes the command,
\* whoever else moved or removed tags.  One edit is noticed at the end.
OfCommitIn(made, i) == i # None => made[i].locks = LockOf[Revision]
OfCommit(i) == OfCommitIn(images, i)

TorchBegun(u, j) ==
  \/ u.pc = "lookup"
  \/ u.pc = "building" /\ j.pc \in {"torch_build", "torch_load", "torch_loaded", "torch_built"}

Copied(u, j) ==
  u.pc = "building" /\ j.pc \in {"base_load", "torch_load"} => j.locks = LockOf[Revision]

TagsSound(u, j) ==
  /\ BaseDone(u, j) => OfCommit(tag["base"])
  /\ TorchDone(u, j) => OfCommit(tag["torch"])
  /\ u.pc = "building" /\ j.pc = "torch_built" => OfCommit(j.torch)
  /\ u.pc = "lookup" => OfCommit(u.image)
  /\ u.pc = "revalidate" =>
       OfCommit(u.sel.base) /\ OfCommit(u.sel.torch) /\ OfCommit(u.sel.digest)

BuildSound(v) ==
  LET u == user[v]
      j == job[v]
  IN u.pc \in LocalBuild =>
       /\ edits = u.seen + 1 => tree # Revision
       /\ edits = u.seen =>
            /\ tree = Revision /\ head = Revision
            /\ TorchBegun(u, j) => context = LockOf[Revision]
            /\ Copied(u, j)
            /\ v \notin overtaken => TagsSound(u, j)

Sourced ==
  /\ OneInstaller
  /\ OfRelease
  /\ \A w \in Workers : BuildSound(w)
  /\ SelectionTrusted

\* The project tag names project images.  Once a command has seen that it names
\* a good one, only a build that overtakes the command makes it name another.
ProjectTag == tag["project"] # None => images[tag["project"]].kind = "project"

Matches(i, u) == images[i].rev = u.fp /\ images[i].parent = u.cfg.base
OfParent(i, u) == images[i].digest = u.cfg.digest

UseSound(v) ==
  LET u == user[v]
      i == tag["project"]
  IN /\ v \notin overtaken /\ i # None =>
          /\ u.pc \in Shown => Matches(i, u)
          /\ u.pc \in {"profile", "start"} => OfParent(i, u)
     /\ u.pc = "container" =>
          /\ images[u.image].kind = "project"
          /\ v \notin overtaken => Matches(u.image, u) /\ OfParent(u.image, u)

Used == ProjectTag /\ \A w \in Workers : UseSound(w)

(***************************************************************************)
(* Steps, by what they change.                                             *)
(***************************************************************************)

\* Nothing but what the user command remembers.
Talks(w) ==
  \/ InstallStart(w) \/ InstallResumes(w) \/ ProjectInit(w) \/ RunStart(w) \/ Doctor(w)
  \/ PullFails(w) \/ Verify(w) \/ VerifyFails(w) \/ Fallback(w) \/ ValidateSource(w)
  \/ LookUp(w) \/ ParentBound(w) \/ KeepConfig(w)
  \/ RepairConfig(w) \/ Fingerprint(w) \/ Reuse(w) \/ Rebuild(w) \/ ProjectRead(w) \/ ProjectBuilt(w)
  \/ InspectProject(w) \/ LoadProfile(w) \/ StartContainer(w) \/ ContainerExits(w)
  \/ RepairDone(w) \/ UserFails(w)

\* The Docker store.
Moves(w) ==
  Pull(w) \/ RetagParent(w) \/ BindParent(w) \/ ProjectLoad(w) \/ RemoveChanged(w)

\* What is recorded.
Records(w) == RecordPulled(w) \/ RecordBuilt(w) \/ CreateConfig(w)

\* A build or a prune, for an installer or on its own.
Builds(w) ==
  \/ BuildStarts(w) \/ BuildSteps(w) \/ BuildReturned(w) \/ BuildAborted(w)
  \/ /\ UserAt(w, "idle") /\ BuildNext(w, Configured, running)
     /\ UNCHANGED <<user, projectVars>>

Outside ==
  \/ (Edit \/ Commit) /\ UNCHANGED <<user, projectVars>>
  \/ ChangeContext \/ LoseImage \/ DeleteProject \/ ReplaceConfig

LEMMA Steps ==
  ASSUME Step
  PROVE  \/ \E w \in Workers : Talks(w) \/ Moves(w) \/ Records(w) \/ Builds(w)
         \/ Outside
BY DEF Step, Acquire, Install, BuildOrReuse, Run, Repair, ProjectLock,
   Talks, Moves, Records, Builds, Outside

\* The other workers stay where they are.
LEMMA OneWorker ==
  ASSUME DOMAIN user = Workers, DOMAIN job = Workers,
         NEW w, Talks(w) \/ Moves(w) \/ Records(w) \/ Builds(w)
  PROVE  /\ DOMAIN user' = Workers /\ DOMAIN job' = Workers
         /\ \A v \in Workers \ {w} : user'[v] = user[v] /\ job'[v] = job[v]
         /\ UNCHANGED user \/ \E u : user' = [user EXCEPT ![w] = u]
         /\ UNCHANGED job \/ \E j : job' = [job EXCEPT ![w] = j]
         /\ Talks(w) \/ Moves(w) \/ Records(w) => UNCHANGED job
<1> USE DEF Goto, Stop, buildVars, Continue, Begin
<1>1. ASSUME Talks(w) PROVE UNCHANGED job /\ \E u : user' = [user EXCEPT ![w] = u]
  BY <1>1 DEF Talks, InstallStart, InstallResumes, ProjectInit, RunStart, Doctor, PullFails,
     Verify, VerifyFails, Fallback, ValidateSource, LookUp, ParentBound, KeepConfig,
     RepairConfig, Fingerprint, Reuse, Rebuild, ProjectRead, ProjectBuilt, InspectProject, LoadProfile,
     StartContainer, ContainerExits, RepairDone, UserFails
<1>2. ASSUME Moves(w) \/ Records(w)
      PROVE  UNCHANGED job /\ \E u : user' = [user EXCEPT ![w] = u]
  BY <1>2 DEF Moves, Records, Pull, RetagParent, BindParent, ProjectLoad, RemoveChanged,
     RecordPulled, RecordBuilt, CreateConfig
<1>3. ASSUME Builds(w)
      PROVE  /\ UNCHANGED user \/ \E u : user' = [user EXCEPT ![w] = u]
             /\ \E j : job' = [job EXCEPT ![w] = j]
  <2>1. UNCHANGED user \/ \E u : user' = [user EXCEPT ![w] = u]
    BY <1>3 DEF Builds, BuildStarts, BuildSteps, BuildReturned, BuildAborted
  <2>2. \/ BaseStart(w) \/ BaseRead(w) \/ BaseLoad(w) \/ BaseLoaded(w)
        \/ TorchStart(w) \/ TorchRead(w) \/ TorchLoad(w) \/ TorchLoaded(w)
        \/ BuildReturns(w) \/ BuildFails(w)
        \/ BuildNext(w, Configured, running)
    BY <1>3 DEF Builds, BuildStarts, BuildSteps, BuildReturned, BuildAborted
  <2>3. CASE \/ BaseStart(w) \/ BaseRead(w) \/ BaseLoad(w) \/ BaseLoaded(w)
             \/ TorchStart(w) \/ TorchRead(w) \/ TorchLoad(w) \/ TorchLoaded(w)
    BY <2>1, <2>3, Zenon DEF BaseStart, BaseRead, BaseLoad, BaseLoaded, TorchStart, TorchRead,
       TorchLoad, TorchLoaded
  <2>4. CASE \/ BuildReturns(w) \/ BuildFails(w) \/ PruneStart(w, Configured)
             \/ PruneSelect(w, running) \/ PruneRemove(w, running) \/ PruneDone(w)
    BY <2>1, <2>4, Zenon DEF BuildReturns, BuildFails, PruneStart, PruneSelect, PruneRemove, PruneDone
  <2> QED BY <2>2, <2>3, <2>4 DEF BuildNext
<1>4. UNCHANGED user \/ \E u : user' = [user EXCEPT ![w] = u]
  BY <1>1, <1>2, <1>3
<1>5. UNCHANGED job \/ \E j : job' = [job EXCEPT ![w] = j]
  BY <1>1, <1>2, <1>3
<1> QED BY <1>1, <1>2, <1>4, <1>5

(***************************************************************************)
(* The Docker store: images are never changed and tags name images that    *)
(* are there.                                                              *)
(***************************************************************************)

ImagesKept == /\ Made \subseteq Made'
              /\ \A i \in Made : images'[i] = images[i]

StoreTyped ==
  /\ tree \in Versions /\ head \in Versions /\ edits \in Nat /\ context \in Locks
  /\ images \in Seq(ImageType)
  /\ Made = 1 .. Len(images) /\ Len(images) \in 2 .. MaxImages
  /\ local \subseteq Made
  /\ tag \in [Tags -> OrNone(local)]
  /\ metadata \in [BuildTags -> OrNone(Made)]

LEMMA MadeIds ==
  ASSUME StoreTyped
  PROVE  /\ Made \subseteq Ids /\ None \notin Made /\ {1, 2} \subseteq Made
         /\ Len(images) \in Nat
         /\ \A t \in Tags : tag[t] # None => tag[t] \in local /\ tag[t] \in Made
<1>1. /\ Made = 1 .. Len(images) /\ Len(images) \in Nat
      /\ 2 <= Len(images) /\ Len(images) <= MaxImages
  BY ImageBuildAssumption DEF StoreTyped
<1>2. Made \subseteq Ids /\ 1 \in Made /\ 2 \in Made
  BY <1>1, ImageBuildAssumption DEF Ids
<1>3. None \notin Made
  BY <1>2, ImageBuildAssumption DEF Ids
<1> QED BY <1>1, <1>2, <1>3 DEF StoreTyped, OrNone

\* A build adds at most one image, and moves one tag to an image in the store.
LEMMA LoadKeeps ==
  ASSUME StoreTyped, NEW t \in Tags, NEW contents \in ImageType, LoadImage(t, contents)
  PROVE  /\ ImagesKept
         /\ images' \in Seq(ImageType)
         /\ Made' = 1 .. Len(images') /\ Len(images') \in 2 .. MaxImages
         /\ local' \subseteq Made' /\ local \subseteq local'
         /\ \E i \in local' : /\ images'[i] = contents
                              /\ local' = local \cup {i}
                              /\ tag' = [tag EXCEPT ![t] = i]
<1> USE DEF Made
<1>1. /\ images \in Seq(ImageType)
      /\ Len(images) \in Nat /\ DOMAIN images = 1 .. Len(images)
      /\ Len(images) \in 2 .. MaxImages /\ local \subseteq DOMAIN images
  BY ImageBuildAssumption DEF StoreTyped
<1>2. PICK i \in {k \in DOMAIN images : images[k] = contents}
                \cup ({Len(images) + 1} \cap Ids) :
        /\ images' = IF i \in DOMAIN images THEN images
                     ELSE Append(images, contents)
        /\ local' = local \cup {i}
        /\ tag' = [tag EXCEPT ![t] = i]
  BY DEF LoadImage
<1>4. CASE i \in DOMAIN images
  <2>1. images' = images /\ local' \subseteq DOMAIN images /\ images[i] = contents
    BY <1>1, <1>2, <1>4
  <2> QED BY <1>1, <1>2, <2>1 DEF ImagesKept
<1>5. CASE i \notin DOMAIN images
  <2>1. i = Len(images) + 1 /\ i \in Ids /\ images' = Append(images, contents)
    BY <1>2, <1>5
  <2>2. /\ Len(images') = Len(images) + 1
        /\ images' \in Seq(ImageType)
        /\ \A k \in 1 .. Len(images) : images'[k] = images[k]
        /\ images'[Len(images) + 1] = contents
    BY <1>1, <2>1, AppendProperties
  <2>3. DOMAIN images' = 1 .. Len(images) + 1
    BY <1>1, <2>2, LenProperties
  <2>4. ImagesKept /\ Len(images') \in 2 .. MaxImages
    BY <1>1, <2>1, <2>2, <2>3, ImageBuildAssumption DEF ImagesKept, Ids
  <2>5. i \in local' /\ images'[i] = contents
    BY <1>2, <2>1, <2>2
  <2>6. local' \subseteq DOMAIN images'
    BY <1>1, <1>2, <2>1, <2>3
  <2> QED BY <1>2, <2>2, <2>3, <2>4, <2>5, <2>6
<1> QED BY <1>4, <1>5

\* Removing an image leaves the tags of the others.
LEMMA DropKeeps ==
  ASSUME StoreTyped, NEW i, Drop(i)
  PROVE  /\ local' \subseteq local /\ tag' \in [Tags -> OrNone(local')]
         /\ \A t \in Tags : tag'[t] \in {tag[t], None}
BY DEF StoreTyped, Drop, OrNone

LEMMA BuiltTypes ==
  ASSUME TypeInv, NEW w \in Workers
  PROVE  /\ At(w, "base_load") => BaseImage(job[w]) \in ImageType
         /\ At(w, "torch_load") => TorchImage(job[w]) \in ImageType
         /\ UserAt(w, "copied") => ProjectImage(user[w]) \in ImageType
<1> StoreTyped
  BY ImageBuildAssumption DEF TypeInv, TypeOK, StoreTyped, Made
<1> /\ user[w] \in UserType /\ job[w] \in JobType /\ Stage(user[w], job[w])
    /\ Made \subseteq Ids
  BY MadeIds DEF TypeInv
<1>1. /\ BaseImage(job[w]) \in ImageType
      /\ TorchImage(job[w]) \in ImageType
  <2>1. /\ job[w].rev \in OrNone(Versions) /\ job[w].locks \in Locks
        /\ job[w].base \in OrNone(Ids)
    BY DEF JobType, OrNone
  <2> QED BY <2>1 DEF BaseImage, TorchImage, ImageType, OrNone
<1>2. ASSUME UserAt(w, "copied") PROVE ProjectImage(user[w]) \in ImageType
  <2>1. /\ user[w].cfg \in CfgType /\ user[w].fp \in ContextType
        /\ user[w].copied \in ContextType
    BY <1>2 DEF UserAt, Stage, Using
  <2>2. user[w].cfg.base \in Ids /\ user[w].cfg.digest \in Ids
    BY <2>1 DEF CfgType
  <2> QED BY <2>1, <2>2 DEF ProjectImage, ImageType
<1> QED BY <1>1, <1>2

\* A configuration that names images that were made, and a context with one.
LEMMA ContextTyped ==
  ASSUME TypeInv, StoreTyped, config # None
  PROVE  config \in CfgType /\ Context \in ContextType
<1>1. config \in CfgType /\ content \in Contents
  BY DEF TypeInv, TypeOK, OrNone
<1>2. CfgType \subseteq AnyCfg
  BY MadeIds DEF CfgType, AnyCfg, OrNone
<1> QED BY <1>1, <1>2 DEF Context, ContextType

LEMMA StoreNext ==
  ASSUME TypeInv, Step
  PROVE  StoreTyped' /\ ImagesKept /\ edits' \in Nat /\ edits <= edits'
<1> USE DEF sourceVars, storeVars, buildVars
<1>0. StoreTyped
  BY ImageBuildAssumption DEF TypeInv, TypeOK, StoreTyped, Made
<1> HIDE DEF StoreTyped
<1> DEFINE Goal == StoreTyped' /\ ImagesKept /\ edits' \in Nat /\ edits <= edits'
<1>1. ASSUME UNCHANGED <<tree, head, edits, images, local, tag>>,
             metadata' \in [BuildTags -> OrNone(Made)], context' \in Locks
      PROVE  Goal
  BY <1>0, <1>1 DEF StoreTyped, ImagesKept, Made
<1>2. ASSUME UNCHANGED <<tree, head, edits, images, context, metadata>>,
             local' \subseteq Made, tag' \in [Tags -> OrNone(local')]
      PROVE  Goal
  BY <1>0, <1>2 DEF StoreTyped, ImagesKept, Made
<1>3. ASSUME UNCHANGED <<tree, head, edits, context>>,
             NEW t \in Tags, NEW c \in ImageType, LoadImage(t, c),
             UNCHANGED metadata \/ metadata' = [metadata EXCEPT ![t] = tag'[t]]
      PROVE  Goal
  <2>1. /\ ImagesKept
        /\ images' \in Seq(ImageType)
        /\ Made' = 1 .. Len(images') /\ Len(images') \in 2 .. MaxImages
        /\ local' \subseteq Made' /\ local \subseteq local'
        /\ \E i \in local' : tag' = [tag EXCEPT ![t] = i]
    BY <1>0, <1>3, LoadKeeps
  <2>2. tag' \in [Tags -> OrNone(local')]
    BY <1>0, <2>1 DEF StoreTyped, OrNone
  <2>3. metadata' \in [BuildTags -> OrNone(Made')]
    <3>1. tag'[t] \in OrNone(Made')
      BY <1>3, <2>1, <2>2 DEF OrNone
    <3>2. metadata \in [BuildTags -> OrNone(Made')]
      BY <1>0, <2>1 DEF StoreTyped, ImagesKept, OrNone
    <3> QED BY <1>3, <3>1, <3>2
  <2> QED BY <1>0, <1>3, <2>1, <2>2, <2>3 DEF StoreTyped
<1>c. context \in Locks /\ metadata \in [BuildTags -> OrNone(Made)]
      /\ local \subseteq Made /\ tag \in [Tags -> OrNone(local)]
  BY <1>0 DEF StoreTyped
<1>t. {"base", "torch", "project"} \subseteq Tags /\ {"base", "torch"} \subseteq BuildTags
  BY DEF Tags, BuildTags
<1>4. ASSUME NEW w \in Workers, Talks(w) PROVE Goal
  <2>1. UNCHANGED buildVars
    BY <1>4 DEF Talks, InstallStart, InstallResumes, ProjectInit, RunStart, Doctor, PullFails,
     Verify, VerifyFails, Fallback, ValidateSource, LookUp, ParentBound, KeepConfig,
     RepairConfig, Fingerprint, Reuse, Rebuild, ProjectRead, ProjectBuilt, InspectProject, LoadProfile,
     StartContainer, ContainerExits, RepairDone, UserFails
  <2> QED BY SMTT(30), <1>1, <1>c, <2>1
<1>5. ASSUME NEW w \in Workers, Records(w) PROVE Goal
  <2>1. UNCHANGED buildVars
    BY <1>5 DEF Records, RecordPulled, RecordBuilt, CreateConfig
  <2> QED BY <1>1, <1>c, <2>1
<1>6. ASSUME NEW w \in Workers, Moves(w) PROVE Goal
  <2>0. user[w] \in UserType /\ Stage(user[w], job[w])
    BY DEF TypeInv
  <2>1. CASE Pull(w)
    <3>1. Release[user[w].kind] \in Made
      <4>1. user[w].kind \in Kinds
        BY <2>0, <2>1 DEF Pull, UserAt, Stage, Choosing
      <4> QED BY <1>0, <4>1, MadeIds DEF Release, Kinds
    <3>2. tag \in [Tags -> OrNone(local')] /\ UNCHANGED tag
      BY <1>c, <2>1 DEF Pull, OrNone
    <3> QED BY <1>2, <1>c, <2>1, <3>1, <3>2 DEF Pull
  <2>2. CASE RetagParent(w) \/ BindParent(w)
    <3>1. PICK t \in {user[w].kind, "torch"}, i \in local :
            tag' = [tag EXCEPT ![t] = i] /\ UNCHANGED local
      BY <2>2 DEF RetagParent, BindParent
    <3>2. tag' \in [Tags -> OrNone(local')]
      BY <1>c, <3>1 DEF OrNone
    <3> QED BY <1>2, <1>c, <2>2, <3>1, <3>2 DEF RetagParent, BindParent
  <2>3. CASE ProjectLoad(w)
    <3>1. ProjectImage(user[w]) \in ImageType
      BY <2>3, BuiltTypes DEF ProjectLoad
    <3> QED BY <1>3, <1>t, <2>3, <3>1 DEF ProjectLoad
  <2>4. CASE RemoveChanged(w)
    <3>1. UNCHANGED <<local, tag>> \/ Drop(user[w].prev)
      BY <2>4 DEF RemoveChanged, RemoveById
    <3>2. local' \subseteq Made /\ tag' \in [Tags -> OrNone(local')]
      BY <1>0, <1>c, <3>1, DropKeeps
    <3> QED BY <1>2, <2>4, <3>2 DEF RemoveChanged
  <2> QED BY <1>6, <2>1, <2>2, <2>3, <2>4 DEF Moves
<1>7. ASSUME NEW w \in Workers, Builds(w) PROVE Goal
  <2>1. CASE BaseLoad(w)
    <3>1. BaseImage(job[w]) \in ImageType
      BY <2>1, BuiltTypes DEF BaseLoad
    <3> QED BY <1>3, <1>t, <2>1, <3>1 DEF BaseLoad, Load
  <2>2. CASE TorchLoad(w)
    <3>1. TorchImage(job[w]) \in ImageType
      BY <2>2, BuiltTypes DEF TorchLoad
    <3> QED BY <1>3, <1>t, <2>2, <3>1 DEF TorchLoad, Load
  <2>3. CASE BaseStart(w) \/ TorchStart(w)
    <3>1. LockOf[tree] \in Locks
      BY <1>0 DEF StoreTyped, Locks
    <3>2. metadata' \in [BuildTags -> OrNone(Made)]
      BY <1>c, <2>3 DEF BaseStart, TorchStart, OrNone
    <3> QED BY <1>1, <1>c, <2>3, <3>1, <3>2 DEF BaseStart, TorchStart, ProfileContext
  <2>4. CASE \/ BaseRead(w) \/ BaseLoaded(w) \/ TorchRead(w) \/ TorchLoaded(w)
             \/ BuildReturns(w) \/ BuildFails(w)
             \/ PruneStart(w, Configured) \/ PruneSelect(w, running) \/ PruneDone(w)
    BY <1>1, <1>c, <2>4 DEF BaseRead, BaseLoaded, TorchRead, TorchLoaded, BuildReturns, BuildFails,
       PruneStart, PruneSelect, PruneDone
  <2>5. CASE PruneRemove(w, running)
    <3>1. Drop(Min(job[w].todo)) /\ UNCHANGED <<tree, head, edits, images, context, metadata>>
      BY <2>5 DEF PruneRemove, RemoveById
    <3> QED BY <1>0, <1>2, <1>c, <3>1, DropKeeps
  <2> QED BY <1>7, <2>1, <2>2, <2>3, <2>4, <2>5
      DEF Builds, BuildStarts, BuildSteps, BuildReturned, BuildAborted, BuildNext
<1>8. ASSUME Outside PROVE Goal
  <2>1. CASE Edit \/ Commit
    <3>1. /\ tree' \in Versions /\ head' \in Versions
          /\ edits' \in Nat /\ edits <= edits'
      BY <1>0, <2>1 DEF Edit, Commit, StoreTyped
    <3>2. UNCHANGED <<images, local, tag, metadata, context>>
      BY <2>1 DEF Edit, Commit
    <3> QED BY <1>0, <3>1, <3>2 DEF StoreTyped, ImagesKept, Made
  <2>2. CASE LoseImage
    <3>1. PICK i : Drop(i)
      BY <2>2 DEF LoseImage
    <3> QED BY <1>0, <1>2, <1>c, <2>2, <3>1, DropKeeps DEF LoseImage
  <2>3. CASE ChangeContext \/ DeleteProject \/ ReplaceConfig
    BY <1>1, <1>c, <2>3 DEF ChangeContext, DeleteProject, ReplaceConfig
  <2> QED BY <1>8, <2>1, <2>2, <2>3 DEF Outside
<1> QED BY <1>4, <1>5, <1>6, <1>7, <1>8, Steps

(***************************************************************************)
(* Type correctness.                                                       *)
(***************************************************************************)

\* What a command remembers stays well typed when images are added.
LEMMA Grows ==
  ASSUME ImagesKept, edits \in Nat, edits' \in Nat, edits <= edits',
         NEW u \in UserType, NEW j \in JobType
  PROVE  /\ u \in UserType' /\ j \in JobType'
         /\ Stage(u, j) => Stage(u, j)'
<1>1. OrNone(Made) \subseteq OrNone(Made') /\ Made \subseteq Made'
  BY DEF OrNone, ImagesKept
<1>2. SelType \subseteq SelType' /\ CfgType \subseteq CfgType'
  <2>1. CfgType' = [base : Made', manifest : OrNone(Made'), digest : Made']
    BY DEF CfgType, OrNone
  <2> QED BY <1>1, <2>1 DEF SelType, CfgType
<1>3. u \in UserType'
  BY <1>1, <1>2 DEF UserType, OrNone
<1>4. j \in JobType'
  BY <1>1 DEF JobType
<1>5. Stage(u, j) => Stage(u, j)'
  BY <1>1, <1>2 DEF Stage, UserType
<1> QED BY <1>3, <1>4, <1>5

LEMMA IdleTyped ==
  /\ IdleUser \in UserType /\ IdleUser.pc = "idle"
  /\ \A j \in JobType : j.pc = "idle" => Stage(IdleUser, j)
BY EmptySeq DEF IdleUser, UserType, OrNone, UserPcs, Stage, LocalBuild, Choosing, Binding, Using,
   Shown

LEMMA NextRegistry ==
  ASSUME NEW s \in Seq(Range(Order)), Len(s) > 1
  PROVE  Tail(s) \in Seq(Range(Order))
<1>1. s # <<>>
  BY EmptySeq
<1> QED BY <1>1, HeadTailProperties

LEMMA Registries ==
  ASSUME NEW s \in Candidates
  PROVE  /\ s \in Seq(Range(Order))
         /\ \A i \in Preferred(s) : PreferredFirst(s, i) \in Seq(Range(Order))
<1> DEFINE R == Range(Order)
<1>0. ASSUME NEW r \in R PROVE <<r>> \in Seq(R)
  BY <1>0
<1>1. s \in Seq(R)
  <2>1. s = Order \/ \E r \in R : s = <<r>>
    BY DEF Candidates, Policy
  <2>2. CASE s = Order
    BY <2>2, LocalImagesAssumption
  <2>3. CASE \E r \in R : s = <<r>>
    BY <2>3, <1>0
  <2> QED BY <2>1, <2>2, <2>3
<1>2. ASSUME NEW i \in Preferred(s) PROVE PreferredFirst(s, i) \in Seq(R)
  <2>1. i \in 1 .. Len(s) /\ Len(s) \in Nat /\ \A k \in 1 .. Len(s) : s[k] \in R
    BY <1>1, <1>2, LenProperties, ElementOfSeq DEF Preferred
  <2>2. SubSeq(s, 1, i - 1) \in Seq(R) /\ SubSeq(s, i + 1, Len(s)) \in Seq(R)
    BY <2>1, SubSeqProperties
  <2>3. <<s[i]>> \in Seq(R)
    BY <2>1, <1>0
  <2> HIDE DEF R
  <2> QED BY <2>2, <2>3, ConcatProperties DEF PreferredFirst, RemoveAt
<1> QED BY <1>1, <1>2

LEMMA ReleaseTyped ==
  ASSUME StoreTyped
  PROVE  ReleaseSelection \in SelType /\ Release.torch \in Made /\ Release.base \in Made
BY MadeIds DEF ReleaseSelection, Release, SelType

LEMMA Gone ==
  ASSUME DOMAIN user = Workers, NEW w \in Workers, NEW e, Goto(w, e)
  PROVE  user'[w] = e
BY DEF Goto

LEMMA TalksTyped ==
  ASSUME TypeInv, StoreTyped, NEW w \in Workers, Talks(w)
  PROVE  user'[w] \in UserType /\ Stage(user'[w], job[w])
<1> DEFINE u == user[w]
           j == job[w]
           i == IdleUser
           Goal == user'[w] \in UserType /\ Stage(user'[w], job[w])
<1> USE DEF UserAt, At, Free, OrNone
<1>0. /\ u \in UserType /\ j \in JobType /\ Stage(u, j) /\ DOMAIN user = Workers
      /\ selection \in OrNone(SelType) /\ config \in OrNone(CfgType)
      /\ edits \in Nat /\ changes \in Nat /\ content \in Contents
      /\ tag \in [Tags -> OrNone(local)] /\ local \subseteq Made
  BY LocalImagesAssumption DEF TypeInv, TypeOK, Made
<1>i. i \in UserType /\ (j.pc = "idle" => Stage(i, j)) /\ i.pc = "idle"
  BY <1>0, IdleTyped
<1>r. ReleaseSelection \in SelType
  BY ReleaseTyped
<1>n. "base" \in Kinds /\ "torch" \in Kinds
  BY DEF Kinds
<1> HIDE DEF u, j, i
<1>1. CASE InstallStart(w)
  <2>1. PICK s \in Candidates, pc \in {"pull", "validate"} :
          Goto(w, [IdleUser EXCEPT !.cmd = "install", !.pc = pc, !.left = s, !.kind = "base"])
    BY <1>1, Zenon DEF InstallStart
  <2>2. user'[w] = [i EXCEPT !.cmd = "install", !.pc = pc, !.left = s, !.kind = "base"]
    BY <1>0, <2>1, Gone DEF i
  <2>3. s \in Seq(Range(Order)) /\ j.pc = "idle"
    BY <1>1, Registries DEF InstallStart, j
  <2>4. user'[w] \in UserType
    BY ZenonT(60), <1>i, <1>n, <2>2, <2>3 DEF UserType, UserPcs, Choosing
  <2>5. user'[w].pc \in {"pull", "validate"} /\ user'[w].cmd = "install" /\ user'[w].kind = "base"
    BY <1>i, <2>2 DEF UserType
  <2> QED BY <1>n, <2>3, <2>4, <2>5 DEF Stage, Choosing, LocalBuild, Binding, Using, Shown, j
<1>2. CASE Fallback(w)
  <2>1. user'[w] = [u EXCEPT !.pc = "validate"] /\ u.pc = "fallback"
    BY <1>0, <1>2, Gone DEF Fallback, u
  <2>2. user'[w] \in UserType /\ user'[w].pc = "validate" /\ user'[w].cmd = u.cmd
    BY <2>1, <1>0 DEF UserType, UserPcs
  <2> QED BY <2>1, <2>2, <1>0 DEF Stage, Choosing, LocalBuild, Binding, Using, Shown, j
<1>3. CASE InstallResumes(w)
  <2>2. user'[w] = [i EXCEPT !.cmd = "install", !.pc = "bind", !.sel = selection] /\ selection \in SelType /\ j.pc = "idle"
    BY <1>0, <1>3, Gone DEF InstallResumes, u, i, j
  <2>3. user'[w] \in UserType
    BY ZenonT(60), <1>0, <1>i, <1>n, <2>2
    DEF UserType, UserPcs, Choosing, LocalBuild, Binding, Using, Shown
  <2>4. user'[w].cmd = "install" /\ user'[w].pc = "bind" /\ user'[w].sel = selection
    BY <1>0, <1>i, <2>2 DEF UserType
  <2> QED BY <1>0, <1>n, <2>2, <2>3, <2>4 DEF Stage, Choosing, LocalBuild, Binding, Using, Shown, j
<1>4. CASE ProjectInit(w)
  <2>2. user'[w] = [i EXCEPT !.cmd = "init", !.pc = "bind", !.sel = ReleaseSelection] /\ j.pc = "idle"
    BY <1>0, <1>4, Gone DEF ProjectInit, u, i, j
  <2>3. user'[w] \in UserType
    BY ZenonT(60), <1>0, <1>i, <1>n, <2>2, <1>r
    DEF UserType, UserPcs, Choosing, LocalBuild, Binding, Using, Shown
  <2>4. user'[w].cmd = "init" /\ user'[w].pc = "bind" /\ user'[w].sel = ReleaseSelection
    BY <1>0, <1>i, <2>2 DEF UserType
  <2> QED BY <1>0, <1>n, <2>2, <2>3, <2>4, <1>r DEF Stage, Choosing, LocalBuild, Binding, Using, Shown, j
<1>5. CASE RunStart(w)
  <2>1. PICK force \in BOOLEAN :
          Goto(w, [IdleUser EXCEPT !.cmd = "run", !.pc = "context", !.cfg = config,
                                   !.force = force])
    BY <1>5, Zenon DEF RunStart
  <2>2. /\ user'[w] = [i EXCEPT !.cmd = "run", !.pc = "context", !.cfg = config, !.force = force]
        /\ j.pc = "idle" /\ config \in CfgType
    BY <1>0, <1>5, <2>1, Gone DEF RunStart, u, i, j
  <2>3. user'[w] \in UserType
    BY ZenonT(60), <1>0, <1>i, <1>n, <2>2
    DEF UserType, UserPcs, Choosing, LocalBuild, Binding, Using, Shown
  <2>4. user'[w].pc = "context" /\ user'[w].cfg = config /\ j.pc = "idle"
    BY <1>0, <1>i, <2>2 DEF UserType
  <2> QED BY <2>2, <2>3, <2>4 DEF Stage, Choosing, LocalBuild, Binding, Using, Shown, j
<1>6. CASE VerifyFails(w)
  <2>2. user'[w] = [u EXCEPT !.pc = "blocked", !.mismatch = TRUE] /\ u.pc = "verify"
    BY <1>0, <1>6, Gone DEF VerifyFails, u, i, j
  <2>3. user'[w] \in UserType
    BY ZenonT(60), <1>0, <1>i, <1>n, <2>2
    DEF UserType, UserPcs, Choosing, LocalBuild, Binding, Using, Shown
  <2>4. user'[w].pc = "blocked"
    BY <1>0, <1>i, <2>2 DEF UserType
  <2> QED BY <1>0, <1>n, <2>2, <2>3, <2>4 DEF Stage, Choosing, LocalBuild, Binding, Using, Shown, j
<1>7. CASE ValidateSource(w)
  <2>2. user'[w] = [u EXCEPT !.pc = "base", !.seen = edits] /\ u.pc = "validate"
    BY <1>0, <1>7, Gone DEF ValidateSource, u, i, j
  <2>3. user'[w] \in UserType
    BY ZenonT(60), <1>0, <1>i, <1>n, <2>2
    DEF UserType, UserPcs, Choosing, LocalBuild, Binding, Using, Shown
  <2>4. user'[w].pc = "base" /\ user'[w].seen = edits /\ user'[w].cmd = u.cmd
    BY <1>0, <1>i, <2>2 DEF UserType
  <2> QED BY <1>0, <1>n, <2>2, <2>3, <2>4 DEF Stage, Choosing, LocalBuild, Binding, Using, Shown, j
<1>8. CASE ParentBound(w)
  <2>2. user'[w] = [u EXCEPT !.pc = "configure"] /\ u.pc = "bound"
    BY <1>0, <1>8, Gone DEF ParentBound, u, i, j
  <2>3. user'[w] \in UserType
    BY ZenonT(60), <1>0, <1>i, <1>n, <2>2
    DEF UserType, UserPcs, Choosing, LocalBuild, Binding, Using, Shown
  <2>4. user'[w].pc = "configure" /\ user'[w].sel = u.sel /\ user'[w].cmd = u.cmd
    BY <1>0, <1>i, <2>2 DEF UserType
  <2> QED BY <1>0, <1>n, <2>2, <2>3, <2>4 DEF Stage, Choosing, LocalBuild, Binding, Using, Shown, j
<1>9. CASE KeepConfig(w)
  <2>2. /\ user'[w] = [u EXCEPT !.pc = "context", !.sel = None, !.cfg = config]
        /\ u.pc \in {"configure", "created"} /\ config \in CfgType
    BY <1>0, <1>9, Gone DEF KeepConfig, u, i, j
  <2>3. user'[w] \in UserType
    BY ZenonT(60), <1>0, <1>i, <1>n, <2>2
    DEF UserType, UserPcs, Choosing, LocalBuild, Binding, Using, Shown
  <2>4. user'[w].pc = "context" /\ user'[w].cfg = config
    BY <1>0, <1>i, <2>2 DEF UserType
  <2> QED BY <1>0, <1>n, <2>2, <2>3, <2>4 DEF Stage, Choosing, LocalBuild, Binding, Using, Shown, j
<1>10. CASE Fingerprint(w)
  <2>1. Context \in ContextType
    BY <1>10, ContextTyped DEF Fingerprint
  <2>2. user'[w] = [u EXCEPT !.pc = "decide", !.fp = Context] /\ u.pc = "context"
    BY <1>0, <1>10, Gone DEF Fingerprint, u, i, j
  <2> HIDE DEF Context
  <2>3. user'[w] \in UserType
    BY ZenonT(60), <1>0, <1>i, <1>n, <2>1, <2>2
    DEF UserType, UserPcs, Choosing, LocalBuild, Binding, Using, Shown
  <2>4. user'[w].pc = "decide" /\ user'[w].cfg = u.cfg /\ user'[w].fp = Context
    BY <1>0, <1>i, <2>2 DEF UserType
  <2> QED BY <1>0, <1>n, <2>1, <2>2, <2>3, <2>4 DEF Stage, Choosing, LocalBuild, Binding, Using, Shown, j
<1>20. CASE RepairConfig(w)
  <2>2. /\ user'[w] = [u EXCEPT !.pc = "context", !.cfg = config]
        /\ u.pc = "project" /\ config \in CfgType
    BY <1>0, <1>20, Gone DEF RepairConfig, u, i, j
  <2>3. user'[w] \in UserType
    BY ZenonT(60), <1>0, <1>i, <1>n, <2>2
    DEF UserType, UserPcs, Choosing, LocalBuild, Binding, Using, Shown
  <2>4. user'[w].pc = "context" /\ user'[w].cfg = config
    BY <1>0, <1>i, <2>2 DEF UserType
  <2> QED BY <1>0, <1>n, <2>2, <2>3, <2>4 DEF Stage, Choosing, LocalBuild, Binding, Using, Shown, j
<1>21. CASE ProjectRead(w)
  <2>1. Context \in ContextType
    BY <1>21, ContextTyped DEF ProjectRead
  <2>2. user'[w] = [u EXCEPT !.pc = "copied", !.copied = Context] /\ u.pc = "build"
    BY <1>0, <1>21, Gone DEF ProjectRead, u, i, j
  <2> HIDE DEF Context
  <2>3. user'[w] \in UserType
    BY ZenonT(60), <1>0, <1>i, <1>n, <2>1, <2>2
    DEF UserType, UserPcs, Choosing, LocalBuild, Binding, Using, Shown
  <2>4. /\ user'[w].pc = "copied" /\ user'[w].cfg = u.cfg /\ user'[w].fp = u.fp
        /\ user'[w].copied = Context
    BY <1>0, <1>i, <2>2 DEF UserType
  <2> QED BY <1>0, <1>n, <2>1, <2>2, <2>3, <2>4 DEF Stage, Choosing, LocalBuild, Binding, Using, Shown, j
<1>11. CASE Rebuild(w)
  <2>2. user'[w] = [u EXCEPT !.pc = "build"] /\ u.pc = "decide"
    BY <1>0, <1>11, Gone DEF Rebuild, u, i, j
  <2>3. user'[w] \in UserType
    BY ZenonT(60), <1>0, <1>i, <1>n, <2>2
    DEF UserType, UserPcs, Choosing, LocalBuild, Binding, Using, Shown
  <2>4. user'[w].pc = "build" /\ user'[w].cfg = u.cfg /\ user'[w].fp = u.fp
    BY <1>0, <1>i, <2>2 DEF UserType
  <2> QED BY <1>0, <1>n, <2>2, <2>3, <2>4 DEF Stage, Choosing, LocalBuild, Binding, Using, Shown, j
<1>12. CASE InspectProject(w)
  <2>2. user'[w] = [u EXCEPT !.pc = "profile", !.image = None] /\ u.pc = "ready"
    BY <1>0, <1>12, Gone DEF InspectProject, u, i, j
  <2>3. user'[w] \in UserType
    BY ZenonT(60), <1>0, <1>i, <1>n, <2>2
    DEF UserType, UserPcs, Choosing, LocalBuild, Binding, Using, Shown
  <2>4. user'[w].pc = "profile" /\ user'[w].cfg = u.cfg /\ user'[w].fp = u.fp
    BY <1>0, <1>i, <2>2 DEF UserType
  <2> QED BY <1>0, <1>n, <2>2, <2>3, <2>4 DEF Stage, Choosing, LocalBuild, Binding, Using, Shown, j
<1>13. CASE PullFails(w)
  <2>1. user'[w] = NextCandidate(u) /\ u.pc = "pull" /\ j.pc = "idle"
    BY <1>0, <1>13, Gone DEF PullFails, u, j, Stage
  <2>2. CASE Len(u.left) > 1
    <3>1. user'[w] = [u EXCEPT !.pc = "pull", !.kind = "base", !.left = Tail(u.left)]
      BY <2>1, <2>2 DEF NextCandidate
    <3>2. Tail(u.left) \in Seq(Range(Order))
      <4>1. u.left \in Seq(Range(Order))
        BY <1>0 DEF UserType
      <4> QED BY <4>1, <2>2, NextRegistry
    <3>3. user'[w] \in UserType /\ user'[w].pc = "pull" /\ user'[w].kind = "base"
      BY ZenonT(60), <1>0, <1>n, <3>1, <3>2 DEF UserType, UserPcs, Choosing
    <3> QED BY <1>0, <1>n, <2>1, <3>3 DEF Stage, Choosing, LocalBuild, Binding, Using, Shown, j
  <2>3. CASE ~(Len(u.left) > 1) /\ u.cmd = "install"
    <3>1. user'[w] = [u EXCEPT !.pc = "fallback"]
      BY <2>1, <2>3 DEF NextCandidate
    <3>3. user'[w] \in UserType /\ user'[w].pc = "fallback" /\ user'[w].cmd = u.cmd
      BY <1>0, <3>1 DEF UserType, UserPcs
    <3> QED BY <1>0, <2>1, <2>3, <3>3 DEF Stage, Choosing, LocalBuild, Binding, Using, Shown, j
  <2>4. CASE ~(Len(u.left) > 1) /\ u.cmd # "install"
    <3>1. user'[w] = i
      BY <2>1, <2>4 DEF NextCandidate, i
    <3> QED BY <1>i, <2>1, <3>1 DEF j
  <2> QED BY <2>2, <2>3, <2>4
<1>14. CASE Verify(w)
  <2>1. u.pc = "verify" /\ user'[w] = (IF u.kind = "base"
             THEN [u EXCEPT !.pc = "pull", !.kind = "torch"]
             ELSE [u EXCEPT !.pc = "verified", !.kind = "base", !.left = <<>>])
    BY <1>0, <1>14, Gone DEF Verify, u
  <2>2. <<>> \in Seq(Range(Order))
    BY EmptySeq
  <2>3. CASE u.kind = "base"
    <3>1. user'[w] = [u EXCEPT !.pc = "pull", !.kind = "torch"]
      BY <2>1, <2>3
    <3>2. user'[w] \in UserType /\ user'[w].pc = "pull" /\ user'[w].kind = "torch"
      BY ZenonT(60), <1>0, <1>n, <3>1 DEF UserType, UserPcs, Choosing
    <3> QED BY <1>0, <1>n, <2>1, <3>2 DEF Stage, Choosing, LocalBuild, Binding, Using, Shown, j
  <2>4. CASE u.kind # "base"
    <3>1. user'[w] = [u EXCEPT !.pc = "verified", !.kind = "base", !.left = <<>>]
      BY <2>1, <2>4
    <3>2. user'[w] \in UserType /\ user'[w].pc = "verified" /\ user'[w].kind = "base"
      BY ZenonT(60), <1>0, <1>n, <2>2, <3>1 DEF UserType, UserPcs, Choosing
    <3> QED BY <1>0, <1>n, <2>1, <3>2 DEF Stage, Choosing, LocalBuild, Binding, Using, Shown, j
  <2> QED BY <2>3, <2>4
<1>15. CASE LookUp(w)
  <2>1. /\ u.pc = "lookup" /\ {tag["base"], tag["torch"]} \subseteq local
        /\ user'[w] = [u EXCEPT !.pc = "revalidate", !.image = None,
             !.sel = [source |-> "build", base |-> tag["base"], torch |-> tag["torch"],
                      digest |-> u.image, quiet |-> FALSE]]
    BY <1>0, <1>15, Gone DEF LookUp, u
  <2>2. tag["base"] \in Made /\ tag["torch"] \in Made /\ u.image \in Made
    BY <1>0, <2>1 DEF Stage
  <2>3. [source |-> "build", base |-> tag["base"], torch |-> tag["torch"],
         digest |-> u.image, quiet |-> FALSE] \in SelType
    BY <2>2 DEF SelType
  <2>4. user'[w] \in UserType
    BY ZenonT(60), <1>0, <2>1, <2>3 DEF UserType, UserPcs, LocalBuild
  <2>5. /\ user'[w].pc = "revalidate" /\ user'[w].cmd = u.cmd /\ user'[w].seen = u.seen
        /\ user'[w].sel \in SelType /\ user'[w].sel.source = "build"
    BY <1>0, <2>1, <2>3 DEF UserType
  <2> QED BY <1>0, <2>1, <2>4, <2>5 DEF Stage, Choosing, LocalBuild, Binding, Using, Shown, j
<1>16. CASE Reuse(w) \/ ProjectBuilt(w) \/ StartContainer(w)
  <2> DEFINE Took == /\ user'[w] \in UserType /\ user'[w].pc \in {"ready", "container"}
                     /\ user'[w].image \in Made
                     /\ user'[w].cfg = u.cfg /\ user'[w].fp = u.fp
                     /\ u.pc \in {"decide", "built", "start"}
  <2>1. ASSUME Reuse(w) PROVE Took
    <3>1. PICK k \in Reusable(u) : Goto(w, [user[w] EXCEPT !.pc = "ready", !.image = k])
      BY <2>1, Zenon DEF Reuse, u
    <3>2. k \in Made
      BY <1>0, <3>1 DEF Reusable, Tags
    <3>3. user'[w] = [u EXCEPT !.pc = "ready", !.image = k] /\ u.pc = "decide"
      BY <1>0, <2>1, <3>1, Gone DEF Reuse, u
    <3> QED BY ZenonT(60), <1>0, <3>2, <3>3 DEF UserType, UserPcs, Using, Shown
  <2>2. ASSUME ProjectBuilt(w) PROVE Took
    <3>1. /\ user'[w] = [u EXCEPT !.pc = "ready", !.image = tag["project"]]
          /\ u.pc = "built" /\ tag["project"] # None
      BY <1>0, <2>2, Gone DEF ProjectBuilt, u
    <3>2. tag["project"] \in Made
      BY <1>0, <3>1 DEF Tags
    <3> QED BY ZenonT(60), <1>0, <3>1, <3>2 DEF UserType, UserPcs, Using, Shown
  <2>3. ASSUME StartContainer(w) PROVE Took
    <3>1. /\ user'[w] = [u EXCEPT !.pc = "container", !.image = tag["project"]]
          /\ u.pc = "start" /\ tag["project"] # None
      BY <1>0, <2>3, Gone DEF StartContainer, u
    <3>2. tag["project"] \in Made
      BY <1>0, <3>1 DEF Tags
    <3> QED BY ZenonT(60), <1>0, <3>1, <3>2 DEF UserType, UserPcs, Using, Shown
  <2>4. Took
    BY <1>16, <2>1, <2>2, <2>3
  <2> QED BY <1>0, <2>4 DEF Stage, Choosing, LocalBuild, Binding, Using, Shown, j
<1>17. CASE LoadProfile(w)
  <2>1. u.pc = "profile" /\ user'[w] = (IF u.cmd = "run" THEN [u EXCEPT !.pc = "start"] ELSE i)
    BY <1>0, <1>17, Gone DEF LoadProfile, u, i
  <2>2. CASE u.cmd = "run"
    <3>1. user'[w] = [u EXCEPT !.pc = "start"]
      BY <2>1, <2>2
    <3>2. /\ user'[w] \in UserType /\ user'[w].pc = "start"
          /\ user'[w].cfg = u.cfg /\ user'[w].fp = u.fp
      BY <1>0, <3>1 DEF UserType, UserPcs, Using, Shown
    <3> QED BY <1>0, <2>1, <3>2 DEF Stage, Choosing, LocalBuild, Binding, Using, Shown, j
  <2>3. CASE u.cmd # "run"
    BY <1>0, <1>i, <2>1, <2>3 DEF Stage, j
  <2> QED BY <2>2, <2>3
<1>18. CASE ContainerExits(w) \/ RepairDone(w) \/ UserFails(w)
  <2>1. user'[w] = i /\ u.pc \notin {"idle", "building"}
    <3>1. Goto(w, IdleUser)
      BY <1>18 DEF ContainerExits, RepairDone, UserFails, Stop
    <3>2. user[w].pc \notin {"idle", "building"}
      BY <1>18 DEF ContainerExits, RepairDone, UserFails
    <3> QED BY <1>0, <3>1, <3>2, Gone DEF u, i
  <2> QED BY <1>0, <1>i, <2>1 DEF Stage, j
<1>19. CASE Doctor(w)
  <2>1. j.pc = "idle"
    BY <1>19 DEF Doctor, j
  <2>2. PICK rebuild \in BOOLEAN, pull \in BOOLEAN, s \in Candidates :
          \E k \in Preferred(s) : Goto(w, PlanRepair(PreferredFirst(s, k), pull, rebuild))
    <3>1. PICK torchChanged \in BOOLEAN, s \in Candidates :
            \E k \in Preferred(s) :
              Goto(w, PlanRepair(PreferredFirst(s, k), torchChanged \/ ParentDrift,
                                 torchChanged \/ ProjectChanged))
      BY <1>19, Zenon DEF Doctor
    <3>2. (torchChanged \/ ParentDrift) \in BOOLEAN /\ (torchChanged \/ ProjectChanged) \in BOOLEAN
      OBVIOUS
    <3> QED BY <3>1, <3>2, Zenon
  <2>3. PICK k \in Preferred(s) : user'[w] = PlanRepair(PreferredFirst(s, k), pull, rebuild)
    BY <1>0, <2>2, Gone
  <2>4. PreferredFirst(s, k) \in Seq(Range(Order))
    BY <2>3, Registries
  <2>5. tag["project"] \in OrNone(Made)
    BY <1>0 DEF Tags
  <2>6. user'[w] \in UserType
    BY ZenonT(60), <1>i, <1>n, <2>2, <2>3, <2>4, <2>5
    DEF UserType, UserPcs, Choosing, PlanRepair, i
  <2>7. user'[w].pc \in {"pull", "project"} /\ user'[w].kind = "base"
    BY <1>i, <2>3 DEF UserType, PlanRepair, i
  <2> QED BY <1>n, <2>1, <2>6, <2>7 DEF Stage, Choosing, LocalBuild, Binding, Using, Shown, j
<1> QED
  BY <1>1, <1>2, <1>3, <1>4, <1>5, <1>6, <1>7, <1>8, <1>9, <1>10, <1>11, <1>12, <1>13, <1>14,
     <1>15, <1>16, <1>17, <1>18, <1>19, <1>20, <1>21 DEF Talks

LEMMA MovesTyped ==
  ASSUME TypeInv, StoreTyped, NEW w \in Workers, Moves(w)
  PROVE  user'[w] \in UserType /\ Stage(user'[w], job[w])
<1> DEFINE u == user[w]
           j == job[w]
           i == IdleUser
<1> USE DEF UserAt, At, OrNone
<1>0. u \in UserType /\ j \in JobType /\ Stage(u, j) /\ DOMAIN user = Workers
  BY DEF TypeInv
<1>i. i \in UserType /\ (j.pc = "idle" => Stage(i, j)) /\ i.pc = "idle"
  BY <1>0, IdleTyped
<1>n. "base" \in Kinds /\ "torch" \in Kinds
  BY DEF Kinds
<1> HIDE DEF u, j, i
<1>1. CASE Pull(w)
  <2>1. user'[w] = [u EXCEPT !.pc = "verify"] /\ u.pc = "pull"
    BY <1>0, <1>1, Gone DEF Pull, u
  <2>2. user'[w] \in UserType /\ user'[w].pc = "verify" /\ user'[w].kind = u.kind
    BY <1>0, <2>1 DEF UserType, UserPcs, Choosing
  <2> QED BY <1>0, <2>1, <2>2 DEF Stage, Choosing, LocalBuild, Binding, Using, Shown, j
<1>2. CASE BindParent(w)
  <2>1. user'[w] = [u EXCEPT !.pc = "bound"] /\ u.pc = "bind"
    BY <1>0, <1>2, Gone DEF BindParent, u
  <2>2. /\ user'[w] \in UserType /\ user'[w].pc = "bound"
        /\ user'[w].sel = u.sel /\ user'[w].cmd = u.cmd
    BY <1>0, <2>1 DEF UserType, UserPcs, Binding
  <2> QED BY <1>0, <2>1, <2>2 DEF Stage, Choosing, LocalBuild, Binding, Using, Shown, j
<1>3. CASE ProjectLoad(w)
  <2>1. user'[w] = [u EXCEPT !.pc = "built", !.copied = None] /\ u.pc = "copied"
    BY <1>0, <1>3, Gone DEF ProjectLoad, u
  <2>2. /\ user'[w] \in UserType /\ user'[w].pc = "built"
        /\ user'[w].cfg = u.cfg /\ user'[w].fp = u.fp
    BY ZenonT(60), <1>0, <2>1 DEF UserType, UserPcs, Using
  <2> QED BY <1>0, <2>1, <2>2 DEF Stage, Choosing, LocalBuild, Binding, Using, Shown, j
<1>4. CASE RetagParent(w)
  <2>1. /\ u.pc = "verified"
        /\ user'[w] = (IF u.kind = "base" THEN [u EXCEPT !.kind = "torch"]
                       ELSE IF u.rebuild THEN [u EXCEPT !.pc = "project"]
                       ELSE [i EXCEPT !.cmd = "repair", !.pc = "post"])
    BY <1>0, <1>4, Gone DEF RetagParent, u, i
  <2>2. CASE u.kind = "base"
    <3>1. user'[w] = [u EXCEPT !.kind = "torch"]
      BY <2>1, <2>2
    <3>2. user'[w] \in UserType /\ user'[w].pc = "verified" /\ user'[w].kind = "torch"
      BY ZenonT(60), <1>0, <1>n, <2>1, <3>1 DEF UserType
    <3> QED BY <1>0, <1>n, <2>1, <3>2 DEF Stage, Choosing, LocalBuild, Binding, Using, Shown, j
  <2>3. CASE u.kind # "base" /\ u.rebuild
    <3>1. user'[w] = [u EXCEPT !.pc = "project"]
      BY <2>1, <2>3
    <3>2. user'[w] \in UserType /\ user'[w].pc = "project"
      BY <1>0, <3>1 DEF UserType, UserPcs
    <3> QED BY <1>0, <2>1, <3>2 DEF Stage, Choosing, LocalBuild, Binding, Using, Shown, j
  <2>4. CASE u.kind # "base" /\ ~u.rebuild
    <3>1. user'[w] = [i EXCEPT !.cmd = "repair", !.pc = "post"]
      BY <2>1, <2>4
    <3>2. user'[w] \in UserType /\ user'[w].pc = "post"
      BY ZenonT(60), <1>i, <3>1 DEF UserType, UserPcs
    <3> QED BY <1>0, <2>1, <3>2 DEF Stage, Choosing, LocalBuild, Binding, Using, Shown, j
  <2> QED BY <2>2, <2>3, <2>4
<1>5. CASE RemoveChanged(w)
  <2>1. user'[w] = [i EXCEPT !.cmd = "repair", !.pc = "post"] /\ u.pc = "ready"
    BY <1>0, <1>5, Gone DEF RemoveChanged, u, i
  <2>2. user'[w] \in UserType /\ user'[w].pc = "post"
    BY ZenonT(60), <1>i, <2>1 DEF UserType, UserPcs
  <2> QED BY <1>0, <2>1, <2>2 DEF Stage, Choosing, LocalBuild, Binding, Using, Shown, j
<1> QED BY <1>1, <1>2, <1>3, <1>4, <1>5 DEF Moves

LEMMA RecordsTyped ==
  ASSUME TypeInv, StoreTyped, NEW w \in Workers, Records(w)
  PROVE  /\ user'[w] \in UserType /\ Stage(user'[w], job[w])
         /\ selection' \in OrNone(SelType) /\ config' \in OrNone(CfgType)
<1> DEFINE u == user[w]
           j == job[w]
           i == IdleUser
<1> USE DEF UserAt, At, OrNone
<1>0. /\ u \in UserType /\ j \in JobType /\ Stage(u, j) /\ DOMAIN user = Workers
      /\ selection \in OrNone(SelType) /\ config \in OrNone(CfgType) /\ edits \in Nat
  BY DEF TypeInv
<1>i. i \in UserType /\ (j.pc = "idle" => Stage(i, j)) /\ i.pc = "idle"
  BY <1>0, IdleTyped
<1> HIDE DEF u, j, i
<1>1. CASE RecordPulled(w)
  <2>1. /\ user'[w] = [i EXCEPT !.cmd = "install", !.pc = "bind", !.sel = ReleaseSelection]
        /\ u.pc = "verified" /\ selection' = ReleaseSelection /\ config' = config
    BY <1>0, <1>1, Gone DEF RecordPulled, u, i
  <2>2. ReleaseSelection \in SelType
    BY ReleaseTyped
  <2>3. user'[w] \in UserType
    BY ZenonT(60), <1>i, <2>1, <2>2 DEF UserType, UserPcs, Binding
  <2>4. /\ user'[w].pc = "bind" /\ user'[w].cmd = "install"
        /\ user'[w].sel = ReleaseSelection
    BY <1>i, <2>1 DEF UserType
  <2> QED BY <1>0, <2>1, <2>2, <2>3, <2>4 DEF Stage, Choosing, LocalBuild, Binding, Using, Shown, j
<1>2. CASE RecordBuilt(w)
  <2>1. /\ user'[w] = [u EXCEPT !.pc = "bind", !.sel = selection', !.seen = 0]
        /\ u.pc = "revalidate" /\ selection' = [u.sel EXCEPT !.quiet = Quiet(w)]
        /\ config' = config
    BY <1>0, <1>2, Gone DEF RecordBuilt, u
  <2>2. u.sel \in SelType /\ u.seen \in Nat /\ u.seen <= edits /\ u.cmd = "install"
    BY <1>0, <2>1 DEF Stage, LocalBuild, UserType
  <2>3. selection' \in SelType
    <3>1. Quiet(w) \in BOOLEAN
      BY DEF Quiet
    <3> HIDE DEF Quiet
    <3> QED BY ZenonT(60), <2>1, <2>2, <3>1 DEF SelType
  <2>4. user'[w] \in UserType
    <3>1. PICK e \in OrNone(SelType), n \in Nat, p \in UserPcs :
            user'[w] = [u EXCEPT !.pc = p, !.sel = e, !.seen = n]
      <4>1. "bind" \in UserPcs /\ selection' \in OrNone(SelType) /\ 0 \in Nat
        BY <2>3 DEF UserPcs, Binding
      <4> QED BY <2>1, <4>1, Zenon
    <3> QED BY ZenonT(60), <1>0, <3>1 DEF UserType
  <2>5. user'[w].pc = "bind" /\ user'[w].cmd = "install" /\ user'[w].sel \in SelType
    BY <1>0, <2>1, <2>2, <2>3 DEF UserType
  <2> QED BY <1>0, <2>1, <2>3, <2>4, <2>5 DEF Stage, Choosing, LocalBuild, Binding, Using, Shown, j
<1>3. CASE CreateConfig(w)
  <2>1. /\ u.pc = "configure" /\ selection' = selection
        /\ user'[w] = (IF u.cmd = "install" THEN [u EXCEPT !.pc = "created"] ELSE i)
    BY <1>0, <1>3, Gone DEF CreateConfig, u, i
  <2>2. u.sel \in SelType
    BY <1>0, <2>1 DEF Stage, Binding
  <2>3. config' \in CfgType
    <3>1. PICK k \in ResolvedBase(u.sel) :
            config' = [base |-> k, manifest |-> u.sel.torch, digest |-> u.sel.digest]
      BY <1>3, Zenon DEF CreateConfig, u
    <3>2. k \in {u.sel.digest, u.sel.torch}
      BY DEF ResolvedBase
    <3> QED BY <2>2, <3>1, <3>2 DEF SelType, CfgType
  <2>4. CASE u.cmd = "install"
    <3>1. user'[w] = [u EXCEPT !.pc = "created"]
      BY <2>1, <2>4
    <3>2. /\ user'[w] \in UserType /\ user'[w].pc = "created"
          /\ user'[w].sel = u.sel /\ user'[w].cmd = u.cmd
      BY ZenonT(60), <1>0, <3>1 DEF UserType, UserPcs, Binding
    <3> QED BY <1>0, <2>1, <2>3, <3>2 DEF Stage, Choosing, LocalBuild, Binding, Using, Shown, j
  <2>5. CASE u.cmd # "install"
    <3>1. user'[w] = i /\ j.pc = "idle"
      BY <1>0, <2>1, <2>5 DEF Stage, j
    <3> QED BY <1>0, <1>i, <2>1, <2>3, <3>1 DEF j
  <2> QED BY <2>4, <2>5
<1> QED BY <1>1, <1>2, <1>3 DEF Records

\* A build of an installer or on its own, and a prune.
LEMMA JobTyped ==
  ASSUME TypeInv, StoreTyped, NEW w \in Workers, Builds(w)
  PROVE  /\ job'[w] \in JobType
         /\ job'[w].pc = "torch_built" => job'[w].torch \in Made
<1> DEFINE j == job[w]
           i == IdleJob
           Good(e) == /\ e \in JobType
                      /\ e.pc = "torch_built" => e.torch \in Made
<1> USE DEF At, OrNone
<1>0. /\ j \in JobType /\ DOMAIN job = Workers /\ head \in Versions
      /\ tag \in [Tags -> OrNone(local)] /\ local \subseteq Made
      /\ config \in OrNone(CfgType)
      /\ j.pc = "torch_built" => j.torch \in Made
      /\ context \in Locks /\ LockOf[tree] \in Locks
  BY DEF TypeInv, StoreTyped, Stage, Locks
<1>i. i \in JobType /\ i.pc = "idle"
  BY DEF i, IdleJob, JobType, Locks
<1>t. {"base", "torch", "project"} \subseteq Tags /\ BuildTags \subseteq Tags
  BY DEF Tags, BuildTags
<1>c. \A e : Continue(w, e) => job'[w] = e
  BY <1>0 DEF Continue
<1> SUFFICES Good(job'[w])
  OBVIOUS
<1> HIDE DEF j, i
<1>1. CASE BaseStart(w)
  <2>1. job'[w] = [i EXCEPT !.pc = "base_build", !.rev = head]
    BY <1>1, <1>c DEF BaseStart, Begin, i
  <2> QED BY <1>0, <1>i, <2>1 DEF JobType, BuildPcs
<1>2. CASE TorchStart(w)
  <2>1. /\ job'[w] = [i EXCEPT !.pc = "torch_build", !.rev = head, !.base = tag["base"]]
        /\ tag["base"] # None
    BY <1>2, <1>c DEF TorchStart, Begin, i
  <2>2. tag["base"] \in Made
    BY <1>0, <1>t, <2>1
  <2> QED BY ZenonT(60), <1>0, <1>i, <2>1, <2>2 DEF JobType, BuildPcs
<1>10. CASE BaseRead(w) \/ TorchRead(w)
  <2>1. PICK pc \in {"base_load", "torch_load"}, l \in Locks :
          job'[w] = [j EXCEPT !.pc = pc, !.locks = l]
    <3>1. \/ Continue(w, [job[w] EXCEPT !.pc = "base_load", !.locks = LockOf[tree]])
          \/ Continue(w, [job[w] EXCEPT !.pc = "torch_load", !.locks = context])
      BY <1>10 DEF BaseRead, TorchRead
    <3> QED BY <1>0, <3>1, <1>c, Zenon DEF j
  <2> QED BY ZenonT(60), <1>0, <2>1 DEF JobType, BuildPcs
<1>3. CASE BaseLoad(w) \/ TorchLoad(w)
  <2>1. PICK pc \in {"base_loaded", "torch_loaded"} : job'[w] = [j EXCEPT !.pc = pc]
    <3>1. \/ Continue(w, [job[w] EXCEPT !.pc = "base_loaded"])
          \/ Continue(w, [job[w] EXCEPT !.pc = "torch_loaded"])
      BY <1>3 DEF BaseLoad, TorchLoad
    <3> QED BY <3>1, <1>c, Zenon DEF j
  <2> QED BY <1>0, <2>1 DEF JobType, BuildPcs
<1>4. CASE BaseLoaded(w)
  <2>1. job'[w] = [j EXCEPT !.pc = "base_built", !.base = tag["base"]]
        /\ tag["base"] # None
    BY <1>4, <1>c DEF BaseLoaded, Loaded, j
  <2>2. tag["base"] \in Made
    BY <1>0, <1>t, <2>1
  <2> QED BY <1>0, <2>1, <2>2 DEF JobType, BuildPcs
<1>5. CASE TorchLoaded(w)
  <2>1. job'[w] = [j EXCEPT !.pc = "torch_built", !.torch = tag["torch"]]
        /\ tag["torch"] # None
    BY <1>5, <1>c DEF TorchLoaded, Loaded, j
  <2>2. tag["torch"] \in Made
    BY <1>0, <1>t, <2>1
  <2> QED BY <1>0, <2>1, <2>2 DEF JobType, BuildPcs
<1>6. CASE BuildReturns(w) \/ BuildFails(w) \/ PruneDone(w)
  <2>1. job'[w] = i
    BY <1>6, <1>c DEF BuildReturns, BuildFails, PruneDone, i
  <2> QED BY <1>i, <2>1
<1>7. CASE PruneStart(w, Configured)
  <2>1. PICK t \in SUBSET Made : job'[w] = [i EXCEPT !.pc = "prune_select", !.todo = t]
    <3>1. Configured \subseteq Made
      BY <1>0 DEF Configured, CfgType
    <3>2. {tag[t] : t \in BuildTags} \ {None} \subseteq Made
      BY <1>0, <1>t
    <3>3. Configured \cup ({tag[t] : t \in BuildTags} \ {None}) \in SUBSET Made
      BY <3>1, <3>2
    <3>4. job'[w] = [i EXCEPT !.pc = "prune_select",
                       !.todo = Configured \cup ({tag[t] : t \in BuildTags} \ {None})]
      BY <1>7, <1>c DEF PruneStart, Begin, i
    <3> QED BY <3>3, <3>4, Zenon
  <2> QED BY <1>i, <2>1 DEF JobType, BuildPcs
<1>8. CASE PruneSelect(w, running)
  <2>1. PICK t \in SUBSET Made : job'[w] = [j EXCEPT !.pc = "prune_remove", !.todo = t]
    <3>1. PICK cutoff \in Ids :
            Continue(w, [job[w] EXCEPT !.pc = "prune_remove",
                           !.todo = Prunable(job[w].todo \cup running, cutoff)])
      BY <1>8, Zenon DEF PruneSelect
    <3>2. Prunable(job[w].todo \cup running, cutoff) \in SUBSET Made
      BY <1>0 DEF Prunable
    <3> QED BY <1>c, <3>1, <3>2, Zenon DEF j
  <2> QED BY <1>0, <2>1 DEF JobType, BuildPcs
<1>9. CASE PruneRemove(w, running)
  <2>1. PICK t \in SUBSET Made : job'[w] = [j EXCEPT !.todo = t]
    <3>1. job'[w] = [j EXCEPT !.todo = @ \ {Min(j.todo)}]
      BY <1>9, <1>c DEF PruneRemove, j
    <3>2. j.todo \ {Min(j.todo)} \in SUBSET Made
      BY <1>0 DEF JobType
    <3> QED BY <3>1, <3>2, Zenon
  <2> QED BY <1>0, <2>1 DEF JobType
<1> QED
  BY <1>1, <1>2, <1>3, <1>4, <1>5, <1>6, <1>7, <1>8, <1>9, <1>10
  DEF Builds, BuildStarts, BuildSteps, BuildReturned, BuildAborted, BuildNext

LEMMA BuildsTyped ==
  ASSUME TypeInv, StoreTyped, NEW w \in Workers, Builds(w)
  PROVE  user'[w] \in UserType /\ job'[w] \in JobType /\ Stage(user'[w], job'[w])
<1> DEFINE u == user[w]
           j == job[w]
           n == job'[w]
<1> USE DEF UserAt, At, OrNone
<1>0. /\ u \in UserType /\ j \in JobType /\ Stage(u, j)
      /\ DOMAIN user = Workers /\ DOMAIN job = Workers
  BY DEF TypeInv
<1>j. /\ n \in JobType
      /\ n.pc = "torch_built" => n.torch \in Made
  BY JobTyped
<1>i. IdleUser \in UserType /\ IdleUser.pc = "idle"
  BY IdleTyped
<1>c. /\ \A e : Continue(w, e) => n = e
      /\ IdleJob.pc = "idle"
  BY <1>0 DEF Continue, IdleJob
<1> HIDE DEF u, j, n
<1>1. CASE BuildStarts(w)
  <2>1. user'[w] = [u EXCEPT !.pc = "building"] /\ u.pc \in {"base", "torch"}
    BY <1>0, <1>1, Gone DEF BuildStarts, u
  <2>2. n.pc \in {"base_build", "torch_build"}
    BY <1>1, <1>c DEF BuildStarts, BaseStart, TorchStart, Begin, IdleJob
  <2>3. /\ user'[w] \in UserType /\ user'[w].pc = "building"
        /\ user'[w].cmd = u.cmd /\ user'[w].seen = u.seen
    BY <1>0, <2>1 DEF UserType, UserPcs, LocalBuild
  <2> QED BY <1>0, <1>j, <2>1, <2>2, <2>3 DEF Stage, Choosing, LocalBuild, Binding, Using, Shown, Building, n
<1>2. CASE BuildSteps(w)
  <2>1. user'[w] = u /\ u.pc = "building"
    BY <1>2 DEF BuildSteps, u
  <2>2. n.pc \in Building
    <3>1. \/ Continue(w, [job[w] EXCEPT !.pc = "base_load", !.locks = LockOf[tree]])
          \/ Continue(w, [job[w] EXCEPT !.pc = "base_loaded"])
          \/ Continue(w, [job[w] EXCEPT !.pc = "base_built", !.base = tag["base"]])
          \/ Continue(w, [job[w] EXCEPT !.pc = "torch_load", !.locks = context])
          \/ Continue(w, [job[w] EXCEPT !.pc = "torch_loaded"])
          \/ Continue(w, [job[w] EXCEPT !.pc = "torch_built", !.torch = tag["torch"]])
      BY <1>2 DEF BuildSteps, BaseRead, BaseLoad, BaseLoaded, TorchRead, TorchLoad, TorchLoaded
    <3> QED BY <1>0, <1>c, <3>1 DEF JobType, Building, j
  <2> QED BY <1>0, <1>j, <2>1, <2>2 DEF Stage, Choosing, LocalBuild, Binding, Using, Shown, Building, n
<1>3. CASE BuildReturned(w)
  <2>1. /\ n.pc = "idle" /\ u.pc = "building" /\ j.pc \in {"base_built", "torch_built"}
        /\ user'[w] = (IF j.pc = "base_built" THEN [u EXCEPT !.pc = "torch"]
                       ELSE [u EXCEPT !.pc = "lookup", !.image = j.torch])
    BY <1>0, <1>3, <1>c, Gone DEF BuildReturned, BuildReturns, u, j
  <2>2. CASE j.pc = "base_built"
    <3>1. user'[w] = [u EXCEPT !.pc = "torch"]
      BY <2>1, <2>2
    <3>2. /\ user'[w] \in UserType /\ user'[w].pc = "torch"
          /\ user'[w].cmd = u.cmd /\ user'[w].seen = u.seen
      BY <1>0, <3>1 DEF UserType, UserPcs, LocalBuild
    <3> QED BY <1>0, <1>j, <2>1, <3>2 DEF Stage, Choosing, LocalBuild, Binding, Using, Shown, Building, n
  <2>3. CASE j.pc = "torch_built"
    <3>1. user'[w] = [u EXCEPT !.pc = "lookup", !.image = j.torch] /\ j.torch \in Made
      BY <1>0, <2>1, <2>3 DEF Stage
    <3>2. /\ user'[w] \in UserType /\ user'[w].pc = "lookup" /\ user'[w].image \in Made
          /\ user'[w].cmd = u.cmd /\ user'[w].seen = u.seen
      BY ZenonT(60), <1>0, <3>1 DEF UserType, UserPcs, LocalBuild
    <3> QED BY <1>0, <1>j, <2>1, <3>2 DEF Stage, Choosing, LocalBuild, Binding, Using, Shown, Building, n
  <2> QED BY <2>1, <2>2, <2>3
<1>4. CASE BuildAborted(w)
  <2>1. user'[w] = IdleUser /\ n.pc = "idle"
    BY <1>0, <1>4, <1>c, Gone DEF BuildAborted, BuildFails, Stop
  <2> QED BY <1>i, <1>j, <2>1 DEF Stage, Choosing, LocalBuild, Binding, Using, Shown, Building, n
<1>5. CASE UserAt(w, "idle") /\ UNCHANGED user
  <2>1. user'[w] = u /\ u.pc = "idle"
    BY <1>5 DEF u
  <2> QED BY <1>0, <1>j, <2>1 DEF Stage, Choosing, LocalBuild, Binding, Using, Shown, Building, n
<1> QED BY <1>1, <1>2, <1>3, <1>4, <1>5 DEF Builds

LEMMA UsersNext ==
  ASSUME TypeInv, Step
  PROVE  /\ user' \in [Workers -> UserType'] /\ job' \in [Workers -> JobType']
         /\ (\A w \in Workers : Stage(user[w], job[w]))'
<1>0. StoreTyped
  BY ImageBuildAssumption DEF TypeInv, TypeOK, StoreTyped, Made
<1>1. user \in [Workers -> UserType] /\ job \in [Workers -> JobType] /\ edits \in Nat
      /\ \A w \in Workers : Stage(user[w], job[w])
  BY DEF TypeInv
<1>2. ImagesKept /\ edits' \in Nat /\ edits <= edits'
  BY StoreNext
<1>3. \A x \in UserType, y \in JobType :
        x \in UserType' /\ y \in JobType' /\ (Stage(x, y) => Stage(x, y)')
  BY <1>1, <1>2, Grows
<1>4. /\ user' \in [Workers -> UserType] /\ job' \in [Workers -> JobType]
      /\ \A w \in Workers : Stage(user'[w], job'[w])
  <2>1. CASE Outside
    <3>1. user' = user /\ job' = job
      BY <2>1 DEF Outside, Edit, Commit, ChangeContext, LoseImage, DeleteProject, ReplaceConfig, buildVars
    <3> QED BY <1>1, <3>1
  <2>2. ASSUME NEW w \in Workers, Talks(w) \/ Moves(w) \/ Records(w) \/ Builds(w)
        PROVE  /\ user' \in [Workers -> UserType] /\ job' \in [Workers -> JobType]
               /\ \A v \in Workers : Stage(user'[v], job'[v])
    <3>1. user'[w] \in UserType /\ job'[w] \in JobType /\ Stage(user'[w], job'[w])
      <4>1. CASE Builds(w)
        BY <1>0, <4>1, BuildsTyped
      <4>2. CASE Talks(w) \/ Moves(w) \/ Records(w)
        <5>1. job' = job
          BY <1>1, <4>2, OneWorker
        <5>2. user'[w] \in UserType /\ Stage(user'[w], job[w])
          BY <1>0, <4>2, TalksTyped, MovesTyped, RecordsTyped
        <5> QED BY <1>1, <5>1, <5>2
      <4> QED BY <2>2, <4>1, <4>2
    <3>2. /\ DOMAIN user' = Workers /\ DOMAIN job' = Workers
          /\ \A v \in Workers \ {w} : user'[v] = user[v] /\ job'[v] = job[v]
      BY <1>1, <2>2, OneWorker
    <3>3. /\ UNCHANGED user \/ \E x : user' = [user EXCEPT ![w] = x]
          /\ UNCHANGED job \/ \E x : job' = [job EXCEPT ![w] = x]
      BY <1>1, <2>2, OneWorker
    <3>4. user' \in [Workers -> UserType]
      BY <1>1, <3>1, <3>3
    <3>5. job' \in [Workers -> JobType]
      BY <1>1, <3>1, <3>3
    <3>6. ASSUME NEW v \in Workers PROVE Stage(user'[v], job'[v])
      BY <1>1, <3>1, <3>2
    <3> QED BY <3>4, <3>5, <3>6
  <2> QED BY <2>1, <2>2, Steps
<1>5. user' \in [Workers -> UserType'] /\ job' \in [Workers -> JobType']
  BY <1>3, <1>4
<1>6. (\A w \in Workers : Stage(user[w], job[w]))'
  <2>1. ASSUME NEW w \in Workers PROVE Stage(user[w], job[w])'
    BY <1>3, <1>4 DEF Stage
  <2> QED BY <2>1
<1> QED BY <1>5, <1>6

\* Only Records and steps from outside change the project or what is recorded.
LEMMA ProjectKept ==
  ASSUME NEW w, Talks(w) \/ Moves(w) \/ Builds(w)
  PROVE  UNCHANGED projectVars
<1>1. CASE Talks(w)
  BY <1>1, Zenon DEF Talks, InstallStart, InstallResumes, ProjectInit, RunStart, Doctor, PullFails,
     Verify, VerifyFails, Fallback, ValidateSource, LookUp, ParentBound, KeepConfig,
     RepairConfig, Fingerprint, Reuse, Rebuild, ProjectRead, ProjectBuilt, InspectProject, LoadProfile,
     StartContainer, ContainerExits, RepairDone, UserFails
<1>2. CASE Moves(w)
  BY <1>2 DEF Moves, Pull, RetagParent, BindParent, ProjectLoad, RemoveChanged
<1>3. CASE Builds(w)
  BY <1>3 DEF Builds, BuildStarts, BuildSteps, BuildReturned, BuildAborted
<1> QED BY <1>1, <1>2, <1>3

\* What is recorded, and the counters.
LEMMA RecordsNext ==
  ASSUME TypeInv, Step
  PROVE  /\ selection' \in OrNone(SelType') /\ config' \in OrNone(CfgType')
         /\ content' \in Contents /\ changes' \in 0 .. MaxChanges /\ losses' \in 0 .. MaxLosses
<1>0. StoreTyped
  BY ImageBuildAssumption DEF TypeInv, TypeOK, StoreTyped, Made
<1>1. /\ selection \in OrNone(SelType) /\ config \in OrNone(CfgType)
      /\ content \in Contents /\ changes \in 0 .. MaxChanges /\ losses \in 0 .. MaxLosses
      /\ MaxChanges \in Nat /\ MaxLosses \in Nat
  BY LocalImagesAssumption DEF TypeInv, TypeOK
<1>2. OrNone(SelType) \subseteq OrNone(SelType') /\ OrNone(CfgType) \subseteq OrNone(CfgType')
  <2>1. Made \subseteq Made'
    BY StoreNext DEF ImagesKept
  <2> QED BY <2>1 DEF SelType, CfgType, OrNone
<1> DEFINE Goal == /\ selection' \in OrNone(SelType) /\ config' \in OrNone(CfgType)
                   /\ content' \in Contents /\ changes' \in 0 .. MaxChanges
                   /\ losses' \in 0 .. MaxLosses
<1>3. ASSUME UNCHANGED projectVars PROVE Goal
  BY <1>1, <1>3 DEF projectVars
<1>4. ASSUME NEW w \in Workers, Talks(w) \/ Moves(w) \/ Builds(w) PROVE Goal
  BY <1>3, <1>4, ProjectKept
<1>7. ASSUME NEW w \in Workers, Records(w) PROVE Goal
  <2>1. selection' \in OrNone(SelType) /\ config' \in OrNone(CfgType)
    BY <1>0, <1>7, RecordsTyped
  <2>2. UNCHANGED <<content, changes, losses>>
    BY <1>7 DEF Records, RecordPulled, RecordBuilt, CreateConfig
  <2> QED BY <1>1, <2>1, <2>2
<1>8. ASSUME Outside PROVE Goal
  <2>1. CASE ChangeContext
    BY <1>1, <2>1 DEF ChangeContext
  <2>2. CASE LoseImage
    BY <1>1, <2>2 DEF LoseImage
  <2>3. CASE DeleteProject
    BY <1>1, <2>3 DEF DeleteProject, OrNone, Contents
  <2>5. CASE ReplaceConfig
    <3>1. PICK i \in Made :
            \E manifest \in {None, i} :
              config' = [base |-> i, manifest |-> manifest, digest |-> i]
      BY <2>5 DEF ReplaceConfig, Made
    <3>2. config' \in CfgType
      BY <3>1 DEF CfgType, OrNone
    <3>3. UNCHANGED <<selection, content, changes>> /\ losses' = losses + 1 /\ losses < MaxLosses
      BY <2>5 DEF ReplaceConfig
    <3> QED BY <1>1, <3>2, <3>3 DEF OrNone
  <2>4. UNCHANGED projectVars \/ ChangeContext \/ LoseImage \/ DeleteProject \/ ReplaceConfig
    BY <1>8 DEF Outside
  <2> QED BY <1>3, <2>1, <2>2, <2>3, <2>4, <2>5
<1>9. Goal
  BY <1>4, <1>7, <1>8, Steps
<1> QED BY <1>2, <1>9

LEMMA CommandsNext ==
  ASSUME TypeInv, Next
  PROVE  commands' \in 0 .. MaxCommands
<1> DEFINE S == {w \in Workers : ~Busy(w) /\ Busy(w)'}
<1>1. Cardinality(S) \in Nat
  <2>1. IsFiniteSet(S)
    BY ImageBuildAssumption, FS_Subset
  <2> QED BY <2>1, FS_CardinalityType
<1>2. commands' = commands + Cardinality(S) /\ commands' <= MaxCommands
  BY DEF Next
<1>3. commands \in Nat /\ MaxCommands \in Nat
  BY LocalImagesAssumption DEF TypeInv, TypeOK
<1> HIDE DEF S
<1> QED BY <1>1, <1>2, <1>3

LEMMA TypeInit ==
  ASSUME Init
  PROVE  TypeInv
<1> USE DEF Init, BuildInit
<1>1. /\ tree = 0 /\ head = 0 /\ edits = 0 /\ images = ReleaseImages /\ local = {}
      /\ tag = [t \in Tags |-> None] /\ metadata = [t \in BuildTags |-> None]
      /\ context = None /\ job = [w \in Workers |-> IdleJob]
      /\ user = [w \in Workers |-> IdleUser]
      /\ selection = None /\ config = None /\ content = 0 /\ changes = 0 /\ losses = 0
      /\ commands = 0 /\ overtaken = {}
  OBVIOUS
<1>2. 0 \in Versions /\ MaxImages \in Nat /\ MaxImages >= 2 /\ MaxChanges \in Nat
      /\ MaxLosses \in Nat /\ MaxCommands \in Nat
  BY ImageBuildAssumption, LocalImagesAssumption
<1>3. ReleaseImages \in Seq(ImageType) /\ Len(ReleaseImages) = 2
  <2>1. LockOf[0] \in Locks /\ 1 \in Ids
    BY <1>2 DEF Locks, Ids
  <2>2. /\ [kind |-> "base", rev |-> None, locks |-> LockOf[0], parent |-> None] \in ImageType
        /\ [kind |-> "torch", rev |-> None, locks |-> LockOf[0], parent |-> 1] \in ImageType
    BY <2>1 DEF ImageType, OrNone
  <2> HIDE DEF ImageType
  <2> QED BY <2>2 DEF ReleaseImages
<1>4. DOMAIN images = 1 .. Len(images) /\ Len(images) = 2
  BY <1>1, <1>3, LenProperties
<1>5. IdleJob \in JobType /\ IdleJob.pc = "idle"
  BY DEF IdleJob, JobType, OrNone, Locks
<1>6. IdleUser \in UserType /\ Stage(IdleUser, IdleJob)
  BY <1>5, IdleTyped
<1>7. IdleUser.left \in Seq(Range(Order)) /\ IdleUser.image \in OrNone(DOMAIN images)
  BY <1>6 DEF UserType, Made
<1> QED BY <1>1, <1>2, <1>3, <1>4, <1>5, <1>6, <1>7
        DEF TypeInv, TypeOK, OrNone, Locks, Contents

LEMMA TypeNext ==
  ASSUME TypeInv, [Next]_vars
  PROVE  TypeInv'
<1>1. CASE Next
  <2>1. StoreTyped' /\ edits' \in Nat
    BY <1>1, StoreNext DEF Next
  <2>2. /\ user' \in [Workers -> UserType'] /\ job' \in [Workers -> JobType']
        /\ (\A w \in Workers : Stage(user[w], job[w]))'
    BY <1>1, UsersNext DEF Next
  <2>3. /\ selection' \in OrNone(SelType') /\ config' \in OrNone(CfgType')
        /\ content' \in Contents /\ changes' \in 0 .. MaxChanges /\ losses' \in 0 .. MaxLosses
    BY <1>1, RecordsNext DEF Next
  <2>4. commands' \in 0 .. MaxCommands
    BY <1>1, CommandsNext
  <2>5. TypeOK'
    <3>1. (selection # None =>
             /\ selection.source \in {"pull", "build"}
             /\ {selection.base, selection.torch, selection.digest} \subseteq Made)'
      BY <2>3 DEF OrNone, SelType
    <3>2. (config # None => /\ {config.base, config.digest} \subseteq Made
                            /\ config.manifest \in OrNone(Made))'
      BY <2>3 DEF OrNone, CfgType
    <3>4. overtaken' \subseteq Workers
      BY <1>1 DEF Next
    <3>3. (\A w \in Workers : /\ user[w].left \in Seq(Range(Order))
                              /\ user[w].image \in OrNone(Made))'
      BY <2>2 DEF UserType
    <3> QED BY <2>1, <2>3, <2>4, <3>1, <3>2, <3>3, <3>4 DEF TypeOK, StoreTyped, Made
  <2> QED BY <2>1, <2>2, <2>3, <2>5 DEF TypeInv, StoreTyped
<1>2. CASE UNCHANGED vars
  BY ZenonT(60), <1>2
  DEF vars, buildVars, projectVars, TypeInv, TypeOK, Stage, UserType, JobType, SelType,
     CfgType, Made
<1> QED BY <1>1, <1>2

\* Whatever command runs beside another, every variable keeps its type, tags and
\* recorded images name images that were made, and a tag one that is in the
\* store: TypeOK holds in every reachable state.
THEOREM TypeCorrect == Spec => []TypeOK
<1>1. Init => TypeInv
  BY TypeInit
<1>2. TypeInv /\ [Next]_vars => TypeInv'
  BY TypeNext
<1>3. TypeInv => TypeOK
  BY DEF TypeInv
<1> QED BY <1>1, <1>2, <1>3, PTL DEF Spec

(***************************************************************************)
(* A repair removes what it recorded, and keeps what it built.             *)
(***************************************************************************)

\* The step that ends the rebuild of a repair.
LEMMA EndOfRebuild ==
  ASSUME TypeInv, Step, NEW w \in Workers,
         UserAt(w, "ready"), user[w].cmd = "repair", user'[w].pc = "post"
  PROVE  RemoveChanged(w)
<1> USE DEF UserAt
<1>0. user \in [Workers -> UserType] /\ DOMAIN user = Workers /\ DOMAIN job = Workers
  BY DEF TypeInv
<1>1. PICK v \in Workers : Talks(v) \/ Moves(v) \/ Records(v) \/ Builds(v)
  <2>1. ~Outside
    <3>1. Outside => user' = user
      BY DEF Outside, ChangeContext, LoseImage, DeleteProject, ReplaceConfig
    <3> QED BY <3>1
  <2> QED BY <2>1, Steps
<1>2. v = w
  BY <1>0, <1>1, OneWorker
<1>3. IdleUser.pc = "idle"
  BY DEF IdleUser
<1>4. ~Talks(w)
  <2>1. Talks(w) => InspectProject(w) \/ UserFails(w)
    BY DEF Talks, InstallStart, InstallResumes, ProjectInit, RunStart, Doctor, PullFails,
     Verify, VerifyFails, Fallback, ValidateSource, LookUp, ParentBound, KeepConfig,
     RepairConfig, Fingerprint, Reuse, Rebuild, ProjectRead, ProjectBuilt, InspectProject, LoadProfile,
     StartContainer, ContainerExits, RepairDone, UserFails, Free
  <2>2. ~InspectProject(w)
    BY DEF InspectProject
  <2>3. ~UserFails(w)
    BY <1>0, <1>3 DEF UserFails, Stop, Goto
  <2> QED BY <2>1, <2>2, <2>3
<1>5. ~Records(w)
  BY DEF Records, RecordPulled, RecordBuilt, CreateConfig
<1>6. ~Builds(w)
  BY DEF Builds, BuildStarts, BuildSteps, BuildReturned, BuildAborted
<1>7. Moves(w) => RemoveChanged(w)
  BY DEF Moves, Pull, RetagParent, BindParent, ProjectLoad
<1> QED BY <1>1, <1>2, <1>4, <1>5, <1>6, <1>7

\* doctor --repair removes the project image it recorded before the rebuild, by
\* its id, and never the image it has just built nor a tag of it: not when the
\* build gave the recorded image again, and whatever other commands did to tags
\* and images meanwhile.
THEOREM RepairKeepsBuilt == Spec => RepairKeepsImage
<1> DEFINE Safe(w) == LET i == user[w].image
                      IN /\ i \in local => i \in local'
                         /\ \A t \in Tags : tag[t] = i => tag'[t] = i
           Ends(w) == UserAt(w, "ready") /\ user[w].cmd = "repair" /\ user'[w].pc = "post"
<1>1. Init => TypeInv
  BY TypeInit
<1>2. TypeInv /\ [Next]_vars => TypeInv'
  BY TypeNext
<1>3. TypeInv /\ [Next]_vars => [\A w \in Workers : Ends(w) => Safe(w)]_vars
  <2> SUFFICES ASSUME TypeInv, Next, NEW w \in Workers, Ends(w)
               PROVE  Safe(w)
    OBVIOUS
  <2>1. RemoveChanged(w)
    BY EndOfRebuild DEF Next
  <2>2. user[w].image \in Made
    BY DEF TypeInv, Stage, UserAt
  <2>3. user[w].image # None
    <3>1. StoreTyped
      BY ImageBuildAssumption DEF TypeInv, TypeOK, StoreTyped, Made
    <3> QED BY <2>2, <3>1, MadeIds
  <2>4. CASE UNCHANGED <<local, tag>>
    BY <2>4
  <2>5. CASE ~Kept(user[w]) /\ Drop(user[w].prev)
    <3>1. user[w].prev # user[w].image /\ user[w].prev # None
      BY <2>5 DEF Kept
    <3>2. DOMAIN tag = Tags
      BY DEF TypeInv, TypeOK
    <3> QED BY <2>3, <2>5, <3>1, <3>2 DEF Drop
  <2> QED BY <2>1, <2>4, <2>5 DEF RemoveChanged, RemoveById
<1> QED BY <1>1, <1>2, <1>3, PTL DEF Spec, RepairKeepsImage

(***************************************************************************)
(* What a step of a command makes of the command.                          *)
(***************************************************************************)

Turned(u, x) ==
  /\ x.mismatch => x.pc = "blocked" \/ (u.mismatch /\ u.pc # "blocked")
  /\ Installing(x) => Installing(u) \/ \A v \in Workers : user[v].cmd # "install"
  /\ x.pc \in Binding /\ x.cmd = "init" =>
       \/ x.sel = ReleaseSelection
       \/ u.pc \in Binding /\ u.cmd = "init" /\ x.sel = u.sel

\* The steps that lead into a local build or stay in it, and those that lead
\* into the use of a project image or stay in it.
BuildsOn(w) == ValidateSource(w) \/ LookUp(w) \/ Builds(w)
UsesOn(w) ==
  \/ Fingerprint(w) \/ Reuse(w) \/ Rebuild(w) \/ ProjectRead(w) \/ ProjectLoad(w)
  \/ ProjectBuilt(w) \/ InspectProject(w) \/ LoadProfile(w) \/ StartContainer(w)

LEMMA Turns ==
  ASSUME TypeInv, NEW w \in Workers, Talks(w) \/ Moves(w) \/ Records(w) \/ Builds(w)
  PROVE  /\ Turned(user[w], user'[w])
         /\ user'[w].pc \in LocalBuild => BuildsOn(w)
         /\ user'[w].pc \in Using => UsesOn(w)
<1> DEFINE u == user[w]
           x == user'[w]
           i == IdleUser
           Goal == /\ Turned(u, x)
                   /\ x.pc \in LocalBuild => BuildsOn(w)
                   /\ x.pc \in Using => UsesOn(w)
<1> USE DEF UserAt, Free
<1>0. u \in UserType /\ DOMAIN user = Workers
  BY DEF TypeInv
<1>i. i \in UserType /\ i.pc = "idle" /\ i.mismatch = FALSE
  BY IdleTyped DEF IdleUser
<1>l. u.pc \in {"fallback", "validate"} \cup LocalBuild => u.cmd = "install"
  BY DEF TypeInv, Stage
<1> SUFFICES Goal
  OBVIOUS
<1>p. /\ LocalBuild = {"base", "torch", "building", "lookup", "revalidate"}
      /\ Binding = {"bind", "bound", "configure", "created"}
      /\ Using = {"decide", "build", "copied", "built", "container", "ready", "profile", "start"}
  BY DEF LocalBuild, Binding, Using, Shown
<1> HIDE DEF u, x, i
<1>1. CASE InstallResumes(w)
  <2>1. x = [i EXCEPT !.cmd = "install", !.pc = "bind", !.sel = selection] /\ \A v \in Workers : user[v].cmd # "install"
    BY <1>0, <1>1, Gone DEF InstallResumes, u, x, i
  <2>2. x.mismatch = FALSE /\ x.pc = "bind" /\ x.cmd = "install"
    BY <1>i, <2>1 DEF UserType
  <2> QED BY <1>p, <2>1, <2>2 DEF Turned, Installing
<1>2. CASE ProjectInit(w)
  <2>1. x = [i EXCEPT !.cmd = "init", !.pc = "bind", !.sel = ReleaseSelection]
    BY <1>0, <1>2, Gone DEF ProjectInit, u, x, i
  <2>2. x.mismatch = FALSE /\ x.pc = "bind" /\ x.cmd = "init" /\ x.sel = ReleaseSelection
    BY <1>i, <2>1 DEF UserType
  <2> QED BY <1>p, <2>1, <2>2 DEF Turned, Installing
<1>3. CASE RecordPulled(w)
  <2>1. x = [i EXCEPT !.cmd = "install", !.pc = "bind", !.sel = ReleaseSelection] /\ u.cmd = "install" /\ u.pc = "verified"
    BY <1>0, <1>3, Gone DEF RecordPulled, u, x, i
  <2>2. x.mismatch = FALSE /\ x.pc = "bind" /\ x.cmd = "install"
    BY <1>i, <2>1 DEF UserType
  <2> QED BY <1>p, <2>1, <2>2 DEF Turned, Installing
<1>4. CASE RemoveChanged(w)
  <2>1. x = [i EXCEPT !.cmd = "repair", !.pc = "post"]
    BY <1>0, <1>4, Gone DEF RemoveChanged, u, x, i
  <2>2. x.mismatch = FALSE /\ x.pc = "post" /\ x.cmd = "repair"
    BY <1>i, <2>1 DEF UserType
  <2> QED BY <1>p, <2>1, <2>2 DEF Turned, Installing
<1>5. CASE Fallback(w)
  <2>1. x = [u EXCEPT !.pc = "validate"] /\ u.pc = "fallback"
    BY <1>0, <1>5, Gone DEF Fallback, u, x
  <2>2. x.pc = "validate" /\ x.cmd = u.cmd /\ x.mismatch = u.mismatch
    BY <1>0, <2>1 DEF UserType
  <2> QED BY <1>p, <1>l, <1>5, <2>1, <2>2 DEF Turned, Installing
<1>6. CASE ValidateSource(w)
  <2>1. x = [u EXCEPT !.pc = "base", !.seen = edits] /\ u.pc = "validate"
    BY <1>0, <1>6, Gone DEF ValidateSource, u, x
  <2>2. x.pc = "base" /\ x.cmd = u.cmd /\ x.mismatch = u.mismatch
    BY <1>0, <2>1 DEF UserType
  <2> QED BY <1>p, <1>l, <1>6, <2>1, <2>2 DEF Turned, Installing, BuildsOn
<1>7. CASE LookUp(w)
  <2>1. x = [u EXCEPT !.pc = "revalidate", !.image = None,
             !.sel = [source |-> "build", base |-> tag["base"], torch |-> tag["torch"],
                      digest |-> u.image, quiet |-> FALSE]] /\ u.pc = "lookup"
    BY <1>0, <1>7, Gone DEF LookUp, u, x
  <2>2. x.pc = "revalidate" /\ x.cmd = u.cmd /\ x.mismatch = u.mismatch
    BY <1>0, <2>1 DEF UserType
  <2> QED BY <1>p, <1>l, <1>7, <2>1, <2>2 DEF Turned, Installing, BuildsOn
<1>8. CASE ParentBound(w)
  <2>1. x = [u EXCEPT !.pc = "configure"] /\ u.pc = "bound"
    BY <1>0, <1>8, Gone DEF ParentBound, u, x
  <2>2. x.pc = "configure" /\ x.cmd = u.cmd /\ x.mismatch = u.mismatch /\ x.sel = u.sel
    BY <1>0, <2>1 DEF UserType
  <2> QED BY <1>p, <1>l, <1>8, <2>1, <2>2 DEF Turned, Installing
<1>9. CASE BindParent(w)
  <2>1. x = [u EXCEPT !.pc = "bound"] /\ u.pc = "bind"
    BY <1>0, <1>9, Gone DEF BindParent, u, x
  <2>2. x.pc = "bound" /\ x.cmd = u.cmd /\ x.mismatch = u.mismatch /\ x.sel = u.sel
    BY <1>0, <2>1 DEF UserType
  <2> QED BY <1>p, <1>l, <1>9, <2>1, <2>2 DEF Turned, Installing
<1>10. CASE KeepConfig(w)
  <2>1. /\ x = [u EXCEPT !.pc = "context", !.sel = None, !.cfg = config]
        /\ u.pc \in {"configure", "created"}
    BY <1>0, <1>10, Gone DEF KeepConfig, u, x
  <2>2. x.pc = "context" /\ x.cmd = u.cmd /\ x.mismatch = u.mismatch
    BY <1>0, <2>1 DEF UserType
  <2> QED BY <1>p, <1>l, <1>10, <2>1, <2>2 DEF Turned, Installing
<1>11. CASE Pull(w)
  <2>1. x = [u EXCEPT !.pc = "verify"] /\ u.pc = "pull"
    BY <1>0, <1>11, Gone DEF Pull, u, x
  <2>2. x.pc = "verify" /\ x.cmd = u.cmd /\ x.mismatch = u.mismatch
    BY <1>0, <2>1 DEF UserType
  <2> QED BY <1>p, <1>l, <1>11, <2>1, <2>2 DEF Turned, Installing
<1>12. CASE RecordBuilt(w)
  <2>1. x = [u EXCEPT !.pc = "bind", !.sel = selection', !.seen = 0] /\ u.pc = "revalidate"
    BY <1>0, <1>12, Gone DEF RecordBuilt, u, x
  <2>2. x.pc = "bind" /\ x.cmd = u.cmd /\ x.mismatch = u.mismatch
    BY <1>0, <2>1 DEF UserType
  <2> QED BY <1>p, <1>l, <1>12, <2>1, <2>2 DEF Turned, Installing
<1>13. CASE Fingerprint(w)
  <2>1. x = [u EXCEPT !.pc = "decide", !.fp = Context] /\ u.pc = "context"
    BY <1>0, <1>13, Gone DEF Fingerprint, u, x
  <2>2. x.pc = "decide" /\ x.cmd = u.cmd /\ x.mismatch = u.mismatch
    BY <1>0, <2>1 DEF UserType
  <2> QED BY <1>p, <1>l, <1>13, <2>1, <2>2 DEF Turned, Installing, UsesOn
<1>14. CASE Rebuild(w)
  <2>1. x = [u EXCEPT !.pc = "build"] /\ u.pc = "decide"
    BY <1>0, <1>14, Gone DEF Rebuild, u, x
  <2>2. x.pc = "build" /\ x.cmd = u.cmd /\ x.mismatch = u.mismatch
    BY <1>0, <2>1 DEF UserType
  <2> QED BY <1>p, <1>l, <1>14, <2>1, <2>2 DEF Turned, Installing, UsesOn
<1>15. CASE ProjectLoad(w)
  <2>1. x = [u EXCEPT !.pc = "built", !.copied = None] /\ u.pc = "copied"
    BY <1>0, <1>15, Gone DEF ProjectLoad, u, x
  <2>2. x.pc = "built" /\ x.cmd = u.cmd /\ x.mismatch = u.mismatch
    BY <1>0, <2>1 DEF UserType
  <2> QED BY <1>p, <1>l, <1>15, <2>1, <2>2 DEF Turned, Installing, UsesOn
<1>16. CASE ProjectBuilt(w)
  <2>1. x = [u EXCEPT !.pc = "ready", !.image = tag["project"]] /\ u.pc = "built"
    BY <1>0, <1>16, Gone DEF ProjectBuilt, u, x
  <2>2. x.pc = "ready" /\ x.cmd = u.cmd /\ x.mismatch = u.mismatch
    BY <1>0, <2>1 DEF UserType
  <2> QED BY <1>p, <1>l, <1>16, <2>1, <2>2 DEF Turned, Installing, UsesOn
<1>17. CASE InspectProject(w)
  <2>1. x = [u EXCEPT !.pc = "profile", !.image = None] /\ u.pc = "ready"
    BY <1>0, <1>17, Gone DEF InspectProject, u, x
  <2>2. x.pc = "profile" /\ x.cmd = u.cmd /\ x.mismatch = u.mismatch
    BY <1>0, <2>1 DEF UserType
  <2> QED BY <1>p, <1>l, <1>17, <2>1, <2>2 DEF Turned, Installing, UsesOn
<1>18. CASE StartContainer(w)
  <2>1. x = [u EXCEPT !.pc = "container", !.image = tag["project"]] /\ u.pc = "start"
    BY <1>0, <1>18, Gone DEF StartContainer, u, x
  <2>2. x.pc = "container" /\ x.cmd = u.cmd /\ x.mismatch = u.mismatch
    BY <1>0, <2>1 DEF UserType
  <2> QED BY <1>p, <1>l, <1>18, <2>1, <2>2 DEF Turned, Installing, UsesOn
<1>19. CASE ContainerExits(w) \/ RepairDone(w) \/ UserFails(w) \/ BuildAborted(w)
  <2>1. Goto(w, IdleUser)
    BY <1>19 DEF ContainerExits, RepairDone, UserFails, BuildAborted, Stop
  <2>2. x = i
    BY <1>0, <2>1, Gone DEF x, i
  <2> QED BY <1>p, <1>i, <2>2 DEF Turned, Installing
<1>20. CASE BuildSteps(w) \/ (UserAt(w, "idle") /\ UNCHANGED user)
  <2>1. x = u /\ ((u.pc \in {"building", "idle"} /\ Builds(w)) \/ u.pc = "idle")
    BY <1>20 DEF BuildSteps, Builds, u, x
  <2> QED BY <1>p, <1>20, <2>1 DEF Turned, Installing, BuildsOn
<1>21. CASE InstallStart(w)
  <2>1. PICK s \in Candidates, pc \in {"pull", "validate"} :
          Goto(w, [IdleUser EXCEPT !.cmd = "install", !.pc = pc, !.left = s, !.kind = "base"])
    BY <1>21, Zenon DEF InstallStart
  <2>2. /\ x = [i EXCEPT !.cmd = "install", !.pc = pc, !.left = s, !.kind = "base"]
        /\ \A v \in Workers : user[v].cmd # "install"
    BY <1>0, <1>21, <2>1, Gone DEF InstallStart, x, i
  <2>3. x.pc \in {"pull", "validate"} /\ x.cmd = "install" /\ x.mismatch = FALSE
    BY <1>i, <2>2 DEF UserType
  <2> QED BY <1>p, <2>2, <2>3 DEF Turned, Installing
<1>22. CASE RunStart(w)
  <2>1. PICK f \in BOOLEAN :
          Goto(w, [IdleUser EXCEPT !.cmd = "run", !.pc = "context", !.cfg = config,
                                   !.force = f])
    BY <1>22, Zenon DEF RunStart
  <2>2. x = [i EXCEPT !.cmd = "run", !.pc = "context", !.cfg = config, !.force = f]
    BY <1>0, <2>1, Gone DEF x, i
  <2>3. x.pc = "context" /\ x.cmd = "run" /\ x.mismatch = FALSE
    BY <1>i, <2>2 DEF UserType
  <2> QED BY <1>p, <2>3 DEF Turned, Installing
<1>23. CASE Doctor(w)
  <2>1. PICK left, pull, rebuild : Goto(w, PlanRepair(left, pull, rebuild))
    BY <1>23, Zenon DEF Doctor
  <2>2. x = PlanRepair(left, pull, rebuild)
    BY <1>0, <2>1, Gone DEF x
  <2>3. x.pc \in {"pull", "project"} /\ x.cmd = "repair" /\ x.mismatch = FALSE
    BY <1>i, <2>2 DEF UserType, PlanRepair, i
  <2> QED BY <1>p, <2>3 DEF Turned, Installing
<1>24. CASE PullFails(w)
  <2>1. x = NextCandidate(u) /\ u.pc = "pull"
    BY <1>0, <1>24, Gone DEF PullFails, u, x
  <2>2. CASE Len(u.left) > 1
    <3>1. x = [u EXCEPT !.pc = "pull", !.kind = "base", !.left = Tail(u.left)]
      BY <2>1, <2>2 DEF NextCandidate
    <3>2. x.pc = "pull" /\ x.cmd = u.cmd /\ x.mismatch = u.mismatch
      BY <1>0, <3>1 DEF UserType
    <3> QED BY <1>p, <2>1, <3>2 DEF Turned, Installing
  <2>3. CASE ~(Len(u.left) > 1) /\ u.cmd = "install"
    <3>1. x = [u EXCEPT !.pc = "fallback"]
      BY <2>1, <2>3 DEF NextCandidate
    <3>2. x.pc = "fallback" /\ x.cmd = u.cmd /\ x.mismatch = u.mismatch
      BY <1>0, <3>1 DEF UserType
    <3> QED BY <1>p, <2>1, <3>2 DEF Turned, Installing
  <2>4. CASE ~(Len(u.left) > 1) /\ u.cmd # "install"
    <3>1. x = i
      BY <2>1, <2>4 DEF NextCandidate, i
    <3> QED BY <1>i, <1>p, <3>1 DEF Turned, Installing
  <2> QED BY <2>2, <2>3, <2>4
<1>25. CASE Verify(w)
  <2>1. /\ u.pc = "verify"
        /\ \/ x = [u EXCEPT !.pc = "pull", !.kind = "torch"]
           \/ x = [u EXCEPT !.pc = "verified", !.kind = "base", !.left = <<>>]
    BY <1>0, <1>25, Gone DEF Verify, u, x
  <2>2. x.pc \in {"pull", "verified"} /\ x.cmd = u.cmd /\ x.mismatch = u.mismatch
    BY <1>0, <2>1 DEF UserType
  <2> QED BY <1>p, <2>1, <2>2 DEF Turned, Installing
<1>26. CASE VerifyFails(w)
  <2>1. x = [u EXCEPT !.pc = "blocked", !.mismatch = TRUE] /\ u.pc = "verify"
    BY <1>0, <1>26, Gone DEF VerifyFails, u, x
  <2>2. x.pc = "blocked" /\ x.cmd = u.cmd
    BY <1>0, <2>1 DEF UserType
  <2> QED BY <1>p, <2>1, <2>2 DEF Turned, Installing
<1>27. CASE Reuse(w)
  <2>1. PICK k : Goto(w, [user[w] EXCEPT !.pc = "ready", !.image = k])
    BY <1>27, Zenon DEF Reuse
  <2>2. x = [u EXCEPT !.pc = "ready", !.image = k] /\ u.pc = "decide"
    BY <1>0, <1>27, <2>1, Gone DEF Reuse, u, x
  <2>3. x.pc = "ready" /\ x.cmd = u.cmd /\ x.mismatch = u.mismatch
    BY <1>0, <2>2 DEF UserType
  <2> QED BY <1>p, <1>27, <2>2, <2>3 DEF Turned, Installing, UsesOn
<1>28. CASE LoadProfile(w)
  <2>1. u.pc = "profile" /\ (x = [u EXCEPT !.pc = "start"] \/ x = i)
    BY <1>0, <1>28, Gone DEF LoadProfile, u, x, i
  <2>2. \/ x.pc = "start" /\ x.cmd = u.cmd /\ x.mismatch = u.mismatch
        \/ x = i
    BY <1>0, <2>1 DEF UserType
  <2> QED BY <1>i, <1>p, <1>28, <2>1, <2>2 DEF Turned, Installing, UsesOn
<1>29. CASE CreateConfig(w)
  <2>1. u.pc = "configure" /\ (x = [u EXCEPT !.pc = "created"] \/ x = i)
    BY <1>0, <1>29, Gone DEF CreateConfig, u, x, i
  <2>2. \/ x.pc = "created" /\ x.cmd = u.cmd /\ x.mismatch = u.mismatch /\ x.sel = u.sel
        \/ x = i
    BY <1>0, <2>1 DEF UserType
  <2> QED BY <1>i, <1>p, <2>1, <2>2 DEF Turned, Installing
<1>30. CASE RetagParent(w)
  <2>1. /\ u.pc = "verified"
        /\ \/ x = [u EXCEPT !.kind = "torch"]
           \/ x = [u EXCEPT !.pc = "project"]
           \/ x = [i EXCEPT !.cmd = "repair", !.pc = "post"]
    BY <1>0, <1>30, Gone DEF RetagParent, u, x, i
  <2>2. \/ x.pc \in {"verified", "project"} /\ x.cmd = u.cmd /\ x.mismatch = u.mismatch
        \/ x.pc = "post" /\ x.cmd = "repair" /\ x.mismatch = FALSE
    BY ZenonT(60), <1>0, <1>i, <2>1 DEF UserType
  <2> QED BY <1>i, <1>p, <2>1, <2>2 DEF Turned, Installing
<1>33. CASE RepairConfig(w)
  <2>1. x = [u EXCEPT !.pc = "context", !.cfg = config] /\ u.pc = "project"
    BY <1>0, <1>33, Gone DEF RepairConfig, u, x
  <2>2. x.pc = "context" /\ x.cmd = u.cmd /\ x.mismatch = u.mismatch
    BY <1>0, <2>1 DEF UserType
  <2> QED BY <1>p, <1>l, <1>33, <2>1, <2>2 DEF Turned, Installing
<1>34. CASE ProjectRead(w)
  <2>1. x = [u EXCEPT !.pc = "copied", !.copied = Context] /\ u.pc = "build"
    BY <1>0, <1>34, Gone DEF ProjectRead, u, x
  <2>2. x.pc = "copied" /\ x.cmd = u.cmd /\ x.mismatch = u.mismatch
    BY <1>0, <2>1 DEF UserType
  <2> QED BY <1>p, <1>l, <1>34, <2>1, <2>2 DEF Turned, Installing, UsesOn
<1>31. CASE BuildStarts(w)
  <2>1. x = [u EXCEPT !.pc = "building"] /\ u.pc \in {"base", "torch"}
    BY <1>0, <1>31, Gone DEF BuildStarts, u, x
  <2>2. x.pc = "building" /\ x.cmd = u.cmd /\ x.mismatch = u.mismatch
    BY <1>0, <2>1 DEF UserType
  <2> QED BY <1>p, <1>31, <2>1, <2>2 DEF Turned, Installing, BuildsOn, Builds
<1>32. CASE BuildReturned(w)
  <2>1. /\ u.pc = "building"
        /\ \/ x = [u EXCEPT !.pc = "torch"]
           \/ x = [u EXCEPT !.pc = "lookup", !.image = job[w].torch]
    BY <1>0, <1>32, Gone DEF BuildReturned, u, x
  <2>2. x.pc \in {"torch", "lookup"} /\ x.cmd = u.cmd /\ x.mismatch = u.mismatch
    BY <1>0, <2>1 DEF UserType
  <2> QED BY <1>p, <1>32, <2>1, <2>2 DEF Turned, Installing, BuildsOn, Builds
<1> QED
  BY <1>1, <1>2, <1>3, <1>4, <1>5, <1>6, <1>7, <1>8, <1>9, <1>10, <1>11, <1>12, <1>13, <1>14,
     <1>15, <1>16, <1>17, <1>18, <1>19, <1>20, <1>21, <1>22, <1>23, <1>24, <1>25, <1>26, <1>27,
     <1>28, <1>29, <1>30, <1>31, <1>32, <1>33, <1>34
  DEF Talks, Moves, Records, Builds

(***************************************************************************)
(* What the installer records is the release, or was built from the commit *)
(* it was started with.                                                    *)
(***************************************************************************)

\* A build that ends is one that may overtake another command.
LEMMA Ends ==
  ASSUME TypeInv, NEW w \in Workers
  PROVE  /\ BaseLoad(w) => BaseEnds(w) /\ ~TorchLoad(w)
         /\ TorchLoad(w) => TorchEnds(w)
         /\ ProjectLoad(w) => ProjectEnds(w)
<1>0. /\ job[w] \in JobType /\ user[w] \in UserType
      /\ DOMAIN job = Workers /\ DOMAIN user = Workers
  BY DEF TypeInv
<1>1. BaseLoad(w) => At(w, "base_load") /\ job'[w] = [job[w] EXCEPT !.pc = "base_loaded"]
  BY <1>0 DEF BaseLoad, Continue
<1>2. TorchLoad(w) => At(w, "torch_load") /\ job'[w] = [job[w] EXCEPT !.pc = "torch_loaded"]
  BY <1>0 DEF TorchLoad, Continue
<1>3. ProjectLoad(w) =>
        /\ UserAt(w, "copied")
        /\ user'[w] = [user[w] EXCEPT !.pc = "built", !.copied = None]
  BY <1>0 DEF ProjectLoad, Goto
<1> QED BY <1>0, <1>1, <1>2, <1>3
        DEF BaseEnds, TorchEnds, ProjectEnds, At, UserAt, JobType, UserType

\* A command that is not overtaken was not before.
LEMMA StaysAhead ==
  ASSUME Next, NEW v \in Workers, user'[v].pc # "idle", v \notin overtaken'
  PROVE  v \notin overtaken /\ ~Overtaken(v)
BY Zenon DEF Next

\* While the source stays as it was validated, only the end of a build that read
\* other sources puts an image of other sources behind a friendly tag.
LEMMA StoreSound ==
  ASSUME TypeInv, OneInstaller, OfRelease, Step, edits' = edits,
         tree = Revision, head = Revision,
         NEW v \in Workers, user[v].pc \in LocalBuild
  PROVE  /\ tree' = Revision /\ head' = Revision
         /\ \A i \in Made : OfCommitIn(images, i) => OfCommitIn(images', i)
         /\ context = LockOf[Revision] => context' = LockOf[Revision]
         /\ TorchStart(v) => context' = LockOf[Revision]
         /\ OfCommitIn(images, tag["base"]) =>
              \/ OfCommitIn(images', tag'["base"])
              \/ \E w \in Workers : BaseLoad(w) /\ job[w].locks # LockOf[Revision]
         /\ OfCommitIn(images, tag["torch"]) =>
              \/ OfCommitIn(images', tag'["torch"])
              \/ \E w \in Workers : TorchLoad(w) /\ job[w].locks # LockOf[Revision]
         /\ BaseLoad(v) /\ job[v].locks = LockOf[Revision] => OfCommitIn(images', tag'["base"])
         /\ TorchLoad(v) /\ job[v].locks = LockOf[Revision] => OfCommitIn(images', tag'["torch"])
<1> USE DEF buildVars, sourceVars, storeVars
<1> DEFINE B == OfCommitIn(images, tag["base"])
           T == OfCommitIn(images, tag["torch"])
           C == context = LockOf[Revision]
           Bn == OfCommitIn(images', tag'["base"])
           Tn == OfCommitIn(images', tag'["torch"])
           Cn == context' = LockOf[Revision]
           Source == tree' = Revision /\ head' = Revision
           OtherBase == \E w \in Workers : BaseLoad(w) /\ job[w].locks # LockOf[Revision]
           OtherTorch == \E w \in Workers : TorchLoad(w) /\ job[w].locks # LockOf[Revision]
           Goal == Source /\ (C => Cn) /\ (B => Bn \/ OtherBase) /\ (T => Tn \/ OtherTorch)
<1>0. StoreTyped
  BY ImageBuildAssumption DEF TypeInv, TypeOK, StoreTyped, Made
<1>1. /\ local \subseteq Made /\ tag \in [Tags -> OrNone(local)] /\ "base" \in Tags
      /\ "torch" \in Tags /\ "project" \in Tags /\ Made \subseteq Ids /\ None \notin Made
      /\ \A t \in Tags : tag[t] # None => tag[t] \in Made
  BY <1>0, MadeIds DEF StoreTyped, Tags, BuildTags
<1>2. ImagesKept
  BY StoreNext
<1>3. \A i \in Made : OfCommitIn(images, i) => OfCommitIn(images', i)
  BY <1>2 DEF ImagesKept, OfCommitIn
\* A tag stays, or the image goes.
<1>4. ASSUME NEW t \in {"base", "torch"}, tag'[t] \in {tag[t], None},
             OfCommitIn(images, tag[t])
      PROVE  OfCommitIn(images', tag'[t])
  BY <1>1, <1>3, <1>4 DEF OfCommitIn
<1>5. ASSUME UNCHANGED <<tree, head>>, Cn \/ UNCHANGED context,
             \A t \in {"base", "torch"} : tag'[t] \in {tag[t], None}
      PROVE  Goal
  BY <1>4, <1>5
<1>d. ASSUME NEW k, Drop(k) PROVE \A t \in {"base", "torch"} : tag'[t] \in {tag[t], None}
  BY <1>0, <1>1, <1>d, DropKeeps
<1>v. /\ user[v].cmd = "install" /\ user[v].pc # "idle"
      /\ user[v].pc \notin Binding /\ "bind" \in Binding
  BY DEF TypeInv, Stage, LocalBuild, Binding
\* The builds.
<1>b. ASSUME NEW w \in Workers, BaseLoad(w), job[w].locks = LockOf[Revision] PROVE Bn
  <2>1. LoadImage("base", BaseImage(job[w])) /\ At(w, "base_load")
    BY <1>b DEF BaseLoad, Load
  <2>2. PICK k \in local' : /\ images'[k] = BaseImage(job[w])
                            /\ tag' = [tag EXCEPT !["base"] = k]
    BY <1>0, <1>1, <2>1, LoadKeeps, BuiltTypes
  <2> QED BY <1>1, <1>b, <2>2 DEF BaseImage, OfCommitIn
<1>t. ASSUME NEW w \in Workers, TorchLoad(w), job[w].locks = LockOf[Revision] PROVE Tn
  <2>1. LoadImage("torch", TorchImage(job[w])) /\ At(w, "torch_load")
    BY <1>t DEF TorchLoad, Load
  <2>2. PICK k \in local' : /\ images'[k] = TorchImage(job[w])
                            /\ tag' = [tag EXCEPT !["torch"] = k]
    BY <1>0, <1>1, <2>1, LoadKeeps, BuiltTypes
  <2> QED BY <1>1, <1>t, <2>2 DEF TorchImage, OfCommitIn
<1>s. ASSUME NEW w \in Workers, TorchStart(w) PROVE Cn
  BY <1>s DEF TorchStart, ProfileContext
<1> HIDE DEF B, T, C, Bn, Tn, Cn, OtherBase, OtherTorch
<1>6. ASSUME NEW w \in Workers, Talks(w) \/ Records(w) PROVE Goal
  <2>1. UNCHANGED buildVars
    <3>1. CASE Talks(w)
      BY <3>1, Zenon DEF Talks, InstallStart, InstallResumes, ProjectInit, RunStart, Doctor,
       PullFails, Verify, VerifyFails, Fallback, ValidateSource, LookUp, ParentBound, KeepConfig,
       RepairConfig, Fingerprint, Reuse, Rebuild, ProjectRead, ProjectBuilt, InspectProject, LoadProfile,
       StartContainer, ContainerExits, RepairDone, UserFails
    <3>2. CASE Records(w)
      BY <3>2 DEF Records, RecordPulled, RecordBuilt, CreateConfig
    <3> QED BY <1>6, <3>1, <3>2
  <2> QED BY <1>5, <2>1
<1>7. ASSUME NEW w \in Workers, Moves(w) PROVE Goal
  <2>0. UNCHANGED <<tree, head, context>>
    BY <1>7 DEF Moves, Pull, RetagParent, BindParent, ProjectLoad, RemoveChanged
  <2>1. CASE Pull(w)
    BY <1>5, <2>0, <2>1 DEF Pull
  <2>2. CASE ProjectLoad(w)
    <3>1. PICK i : tag' = [tag EXCEPT !["project"] = i]
      BY <2>2 DEF ProjectLoad, LoadImage
    <3> QED BY <1>1, <1>5, <2>0, <3>1
  <2>3. CASE RemoveChanged(w)
    <3>1. UNCHANGED tag \/ Drop(user[w].prev)
      BY <2>3 DEF RemoveChanged, RemoveById
    <3> QED BY <1>5, <1>d, <2>0, <3>1
  <2>4. CASE RetagParent(w) \/ BindParent(w)
    <3>1. PICK k \in {"base", "torch"} :
            tag' = [tag EXCEPT ![k] = Release[k]] /\ UNCHANGED images
      <4>1. CASE RetagParent(w)
        <5>1. user[w].kind \in {"base", "torch"}
          BY <4>1 DEF RetagParent, UserAt, TypeInv, Stage, Choosing, Kinds
        <5> QED BY <4>1, <5>1 DEF RetagParent
      <4>2. CASE BindParent(w)
        <5>1. user[w].pc = "bind" /\ user[w].cmd \in {"install", "init"}
          BY <1>v, <4>2 DEF BindParent, UserAt, TypeInv, Stage
        <5>2. user[w].cmd # "install"
          BY <1>v, <5>1 DEF OneInstaller, Installing
        <5>3. user[w].sel = ReleaseSelection
          BY <1>v, <5>1, <5>2 DEF OfRelease
        <5>4. user[w].sel.torch = Release["torch"]
          BY <5>3 DEF ReleaseSelection, Release
        <5> QED BY <4>2, <5>4 DEF BindParent
      <4> QED BY <2>4, <4>1, <4>2
    <3>2. Release[k] \in {1, 2} /\ images[Release[k]].locks = LockOf[Revision]
      BY DEF Release, OfRelease
    <3>3. OfCommitIn(images', tag'[k])
      BY <1>1, <3>1, <3>2 DEF OfCommitIn
    <3>4. \A t \in {"base", "torch"} \ {k} : tag'[t] = tag[t]
      BY <1>1, <3>1
    <3>5. (B => Bn) /\ (T => Tn)
      BY <1>4, <3>3, <3>4 DEF B, T, Bn, Tn
    <3>6. (C => Cn) /\ Source
      BY <2>0 DEF C, Cn
    <3> QED BY <3>5, <3>6
  <2> QED BY <1>7, <2>1, <2>2, <2>3, <2>4 DEF Moves
<1>8. ASSUME NEW w \in Workers, Builds(w) PROVE Goal
  <2>1. CASE \/ BaseStart(w) \/ BaseRead(w) \/ BaseLoaded(w) \/ TorchRead(w) \/ TorchLoaded(w)
             \/ BuildReturns(w) \/ BuildFails(w)
    <3>1. UNCHANGED <<tree, head, context, tag>>
      BY <2>1, Zenon DEF BaseStart, BaseRead, BaseLoaded, TorchRead, TorchLoaded, BuildReturns,
         BuildFails
    <3> QED BY <1>5, <3>1
  <2>2. CASE BaseLoad(w)
    <3>1. UNCHANGED <<tree, head, context>> /\ \E k : tag' = [tag EXCEPT !["base"] = k]
      BY <2>2 DEF BaseLoad, Load, LoadImage
    <3>2. tag'["torch"] = tag["torch"]
      BY <1>1, <3>1
    <3>3. Bn \/ OtherBase
      BY <1>b, <2>2, Zenon DEF OtherBase
    <3> QED BY <1>4, <3>1, <3>2, <3>3 DEF T, Tn, C, Cn
  <2>3. CASE TorchLoad(w)
    <3>1. UNCHANGED <<tree, head, context>> /\ \E k : tag' = [tag EXCEPT !["torch"] = k]
      BY <2>3 DEF TorchLoad, Load, LoadImage
    <3>2. tag'["base"] = tag["base"]
      BY <1>1, <3>1
    <3>3. Tn \/ OtherTorch
      BY <1>t, <2>3, Zenon DEF OtherTorch
    <3> QED BY <1>4, <3>1, <3>2, <3>3 DEF B, Bn, C, Cn
  <2>4. CASE TorchStart(w)
    BY <1>5, <1>s, <2>4 DEF TorchStart
  <2>5. CASE PruneStart(w, Configured) \/ PruneSelect(w, running) \/ PruneDone(w)
    <3>1. UNCHANGED <<tree, head, context, tag>>
      BY <2>5, Zenon DEF PruneStart, PruneSelect, PruneDone
    <3> QED BY <1>5, <3>1
  <2>6. CASE PruneRemove(w, running)
    <3>1. UNCHANGED <<tree, head, context>> /\ Drop(Min(job[w].todo))
      BY <2>6 DEF PruneRemove, RemoveById
    <3> QED BY <1>5, <1>d, <3>1
  <2> QED BY <1>8, <2>1, <2>2, <2>3, <2>4, <2>5, <2>6
      DEF Builds, BuildStarts, BuildSteps, BuildReturned, BuildAborted, BuildNext
<1>9. ASSUME Outside PROVE Goal
  <2>1. CASE Edit
    <3>1. edits' = edits + 1 /\ edits \in Nat
      BY <2>1 DEF Edit, TypeInv
    <3> QED BY <3>1
  <2>2. CASE Commit
    BY <2>2 DEF Commit
  <2>3. CASE LoseImage
    <3>1. PICK k : Drop(k)
      BY <2>3 DEF LoseImage
    <3> QED BY <1>5, <1>d, <2>3, <3>1 DEF LoseImage
  <2>4. CASE ChangeContext \/ DeleteProject \/ ReplaceConfig
    BY <1>5, <2>4 DEF ChangeContext, DeleteProject, ReplaceConfig
  <2> QED BY <1>9, <2>1, <2>2, <2>3, <2>4 DEF Outside
<1>10. Goal
  BY <1>6, <1>7, <1>8, <1>9, Steps
<1> QED BY <1>3, <1>10, <1>b, <1>t, <1>s, Zenon DEF B, T, C, Bn, Tn, Cn, OtherBase, OtherTorch

LEMMA TreeStays ==
  ASSUME Step
  PROVE  UNCHANGED <<tree, edits>> \/ (Edit /\ UNCHANGED user)
<1> USE DEF buildVars, sourceVars, storeVars
<1>1. ASSUME NEW w \in Workers, Talks(w) PROVE UNCHANGED <<tree, edits>>
  <2>1. UNCHANGED buildVars
    BY <1>1, Zenon DEF Talks, InstallStart, InstallResumes, ProjectInit, RunStart, Doctor,
       PullFails, Verify, VerifyFails, Fallback, ValidateSource, LookUp, ParentBound, KeepConfig,
       RepairConfig, Fingerprint, Reuse, Rebuild, ProjectRead, ProjectBuilt, InspectProject, LoadProfile,
       StartContainer, ContainerExits, RepairDone, UserFails
  <2> QED BY <2>1
<1>2. ASSUME NEW w \in Workers, Moves(w) \/ Records(w) PROVE UNCHANGED <<tree, edits>>
  BY <1>2 DEF Moves, Records, Pull, RetagParent, BindParent, ProjectLoad,
     RemoveChanged, RecordPulled, RecordBuilt, CreateConfig
<1>3. ASSUME NEW w \in Workers, Builds(w) PROVE UNCHANGED <<tree, edits>>
  <2>1. CASE \/ BaseStart(w) \/ BaseRead(w) \/ BaseLoad(w) \/ BaseLoaded(w) \/ TorchStart(w)
             \/ TorchRead(w)
    BY <2>1, Zenon DEF BaseStart, BaseRead, BaseLoad, BaseLoaded, TorchStart, TorchRead
  <2>2. CASE TorchLoad(w) \/ TorchLoaded(w) \/ BuildReturns(w) \/ BuildFails(w)
    BY <2>2, Zenon DEF TorchLoad, TorchLoaded, BuildReturns, BuildFails
  <2>3. CASE \/ PruneStart(w, Configured) \/ PruneSelect(w, running)
             \/ PruneRemove(w, running) \/ PruneDone(w)
    BY <2>3, Zenon DEF PruneStart, PruneSelect, PruneRemove, PruneDone
  <2> QED BY <1>3, <2>1, <2>2, <2>3
      DEF Builds, BuildStarts, BuildSteps, BuildReturned, BuildAborted, BuildNext
<1>4. ASSUME Outside PROVE UNCHANGED <<tree, edits>> \/ (Edit /\ UNCHANGED user)
  BY <1>4 DEF Outside, Commit, ChangeContext, LoseImage, DeleteProject, ReplaceConfig
<1> QED BY <1>1, <1>2, <1>3, <1>4, Steps

LEMMA BuildSoundNext ==
  ASSUME TypeInv, Sourced, Next, NEW v \in Workers
  PROVE  BuildSound(v)'
<1> DEFINE u == user[v]
           j == job[v]
           x == user'[v]
           n == job'[v]
           Base == OfCommitIn(images, tag["base"])
           Torch == OfCommitIn(images, tag["torch"])
           BaseNext == OfCommitIn(images', tag'["base"])
           TorchNext == OfCommitIn(images', tag'["torch"])
           Tags1 == /\ BaseDone(u, j) => Base
                    /\ TorchDone(u, j) => Torch
                    /\ u.pc = "building" /\ j.pc = "torch_built" => OfCommitIn(images, j.torch)
                    /\ u.pc = "lookup" => OfCommitIn(images, u.image)
                    /\ u.pc = "revalidate" =>
                         /\ OfCommitIn(images, u.sel.base) /\ OfCommitIn(images, u.sel.torch)
                         /\ OfCommitIn(images, u.sel.digest)
           Tags2 == /\ BaseDone(x, n) => BaseNext
                    /\ TorchDone(x, n) => TorchNext
                    /\ x.pc = "building" /\ n.pc = "torch_built" => OfCommitIn(images', n.torch)
                    /\ x.pc = "lookup" => OfCommitIn(images', x.image)
                    /\ x.pc = "revalidate" =>
                         /\ OfCommitIn(images', x.sel.base) /\ OfCommitIn(images', x.sel.torch)
                         /\ OfCommitIn(images', x.sel.digest)
           Clean == /\ tree = Revision /\ head = Revision
                    /\ TorchBegun(u, j) => context = LockOf[Revision]
                    /\ Copied(u, j)
                    /\ v \notin overtaken => Tags1
           Next1 == /\ tree' = Revision /\ head' = Revision
                    /\ TorchBegun(x, n) => context' = LockOf[Revision]
                    /\ Copied(x, n)
                    /\ v \notin overtaken' => Tags2
           Goal == x.pc \in LocalBuild =>
                     /\ edits' = x.seen + 1 => tree' # Revision
                     /\ edits' = x.seen => Next1
<1>s. Step
  BY DEF Next
<1>0. /\ u \in UserType /\ j \in JobType /\ Stage(u, j) /\ edits \in Nat
      /\ DOMAIN user = Workers /\ DOMAIN job = Workers
      /\ u.seen \in Nat
  BY DEF TypeInv, UserType
<1>1. u.pc \in LocalBuild => /\ edits = u.seen + 1 => tree # Revision
                             /\ edits = u.seen => Clean
                             /\ u.seen <= edits
  BY <1>0 DEF Sourced, BuildSound, TagsSound, OfCommit, Stage
<1>2. OneInstaller /\ OfRelease
  BY DEF Sourced
<1>g. SUFFICES Goal
  BY DEF BuildSound, TagsSound, OfCommit, BaseDone, TorchBegun, TorchDone, Copied
<1> SUFFICES ASSUME x.pc \in LocalBuild
             PROVE  /\ edits' = x.seen + 1 => tree' # Revision
                    /\ edits' = x.seen => Next1
  OBVIOUS
<1>o. v \notin overtaken' => v \notin overtaken /\ ~Overtaken(v)
  <2>1. x.pc # "idle"
    BY DEF LocalBuild
  <2> QED BY <2>1, StaysAhead
<1>3. CASE Edit /\ UNCHANGED user
  <2>1. /\ edits' = edits + 1 /\ tree' # tree /\ x = u
    BY <1>3 DEF Edit
  <2>2. edits' # u.seen /\ (edits' = u.seen + 1 => tree = Revision)
    BY <1>0, <1>1, <2>1
  <2> HIDE DEF Next1
  <2> QED BY <1>0, <1>1, <2>1, <2>2
<1>4. CASE UNCHANGED <<tree, edits>>
  \* A command that was in the build already sees what StoreSound says.
  <2> DEFINE Before == u.pc \in LocalBuild /\ edits = u.seen
  <2>1. ASSUME Before
        PROVE  /\ tree' = Revision /\ head' = Revision /\ tree = Revision
               /\ TorchBegun(u, j) => context = LockOf[Revision] /\ context' = LockOf[Revision]
               /\ Copied(u, j)
               /\ \A i \in Made : OfCommitIn(images, i) => OfCommitIn(images', i)
               /\ TorchStart(v) => context' = LockOf[Revision]
               /\ BaseLoad(v) /\ j.locks = LockOf[Revision] => BaseNext
               /\ TorchLoad(v) /\ j.locks = LockOf[Revision] => TorchNext
    <3>1. Clean
      BY <1>1, <2>1
    <3> QED BY <1>2, <1>4, <1>s, <2>1, <3>1, StoreSound
  <2>2. ASSUME Before, v \notin overtaken'
        PROVE  Tags1 /\ (BaseDone(u, j) => BaseNext) /\ (TorchDone(u, j) => TorchNext)
    <3>1. Tags1 /\ tree = Revision /\ head = Revision
      BY <1>1, <1>o, <2>2
    <3>2. ~Overtaken(v)
      BY <1>o, <2>2
    <3>3. u.pc \in {"torch", "lookup"} => j.pc = "idle"
      BY <1>0 DEF Stage
    <3>4. ASSUME BaseDone(u, j) PROVE BaseNext
      <4>1. BaseNext \/ \E w \in Workers : BaseLoad(w) /\ job[w].locks # LockOf[Revision]
        BY <1>2, <1>4, <1>s, <2>2, <3>1, <3>4, StoreSound
      <4>2. ASSUME NEW w \in Workers, BaseLoad(w), job[w].locks # LockOf[Revision]
            PROVE  FALSE
        <5>1. BaseEnds(w)
          BY <4>2, Ends
        <5>2. w # v
          BY <3>3, <3>4, <5>1 DEF BaseDone, BaseEnds, At
        <5> QED BY <3>2, <3>4, <4>2, <5>1, <5>2 DEF Overtaken
      <4> QED BY <4>1, <4>2
    <3>5. ASSUME TorchDone(u, j) PROVE TorchNext
      <4>1. TorchNext \/ \E w \in Workers : TorchLoad(w) /\ job[w].locks # LockOf[Revision]
        BY <1>2, <1>4, <1>s, <2>2, <3>1, <3>5, StoreSound
      <4>2. ASSUME NEW w \in Workers, TorchLoad(w), job[w].locks # LockOf[Revision]
            PROVE  FALSE
        <5>1. TorchEnds(w)
          BY <4>2, Ends
        <5>2. w # v
          BY <3>3, <3>5, <5>1 DEF TorchDone, TorchEnds, At
        <5> QED BY <3>2, <3>5, <4>2, <5>1, <5>2 DEF Overtaken
      <4> QED BY <4>1, <4>2
    <3> QED BY <3>1, <3>4, <3>5
  <2>i. /\ \A e : Continue(v, e) => n = e
        /\ IdleJob.pc = "idle"
    BY <1>0 DEF Continue, IdleJob
  <2> HIDE DEF u, j, x, n, Clean, Tags1, Tags2, Next1, Base, Torch, BaseNext, TorchNext
  \* The command stays in the build with what it validated.
  <2>s. ASSUME u.pc \in LocalBuild, x.seen = u.seen, Before => Next1
        PROVE  /\ edits' = x.seen + 1 => tree' # Revision
               /\ edits' = x.seen => Next1
    BY <1>1, <1>4, <2>s
  <2>3. CASE x = u /\ n = j
    <3>1. u.pc \in {"lookup", "ready", "container"} => u.image \in Made
      BY <1>0 DEF Stage
    <3>2. u.pc = "revalidate" => u.sel.base \in Made /\ u.sel.torch \in Made /\ u.sel.digest \in Made
      BY <1>0 DEF Stage, SelType
    <3>3. u.pc = "building" /\ j.pc = "torch_built" => j.torch \in Made
      BY <1>0 DEF Stage
    <3>4. ASSUME Before PROVE Next1
      <4>1. ASSUME v \notin overtaken' PROVE Tags2
        <5>1. Tags1 /\ (BaseDone(u, j) => BaseNext) /\ (TorchDone(u, j) => TorchNext)
          BY <2>2, <3>4, <4>1
        <5> QED BY <2>1, <2>3, <3>1, <3>2, <3>3, <3>4, <5>1 DEF Tags1, Tags2
      <4> QED BY <2>1, <2>3, <3>4, <4>1 DEF Next1
    <3> QED BY <2>3, <2>s, <3>4
  <2>4. CASE ValidateSource(v)
    <3>1. x = [u EXCEPT !.pc = "base", !.seen = edits] /\ SourceValid /\ UNCHANGED buildVars
      BY <1>0, <2>4, Gone DEF ValidateSource, u, x
    <3>2. x.pc = "base" /\ x.seen = edits
      BY <1>0, <3>1 DEF UserType
    <3>3. tree' = Revision /\ head' = Revision /\ edits' = edits
      BY <3>1 DEF SourceValid, buildVars
    <3>4. Next1
      BY <3>2, <3>3 DEF Next1, Tags2, BaseDone, TorchBegun, TorchDone, Copied
    <3>5. edits' # x.seen + 1
      BY <1>0, <3>2, <3>3
    <3> QED BY <3>4, <3>5
  <2>5. CASE LookUp(v)
    <3>1. /\ u.pc = "lookup" /\ UNCHANGED buildVars
          /\ x = [u EXCEPT !.pc = "revalidate", !.image = None,
               !.sel = [source |-> "build", base |-> tag["base"], torch |-> tag["torch"],
                        digest |-> u.image, quiet |-> FALSE]]
      BY <1>0, <2>5, Gone DEF LookUp, UserAt, u, x
    <3>2. /\ x.pc = "revalidate" /\ x.seen = u.seen
          /\ x.sel.base = tag["base"] /\ x.sel.torch = tag["torch"] /\ x.sel.digest = u.image
      BY <1>0, <3>1 DEF UserType
    <3>3. u.pc \in LocalBuild
      BY <3>1 DEF LocalBuild
    <3>4. ASSUME Before PROVE Next1
      <4>1. ASSUME v \notin overtaken' PROVE Tags2
        <5>1. Tags1 /\ BaseDone(u, j) /\ TorchDone(u, j)
          BY <2>2, <3>1, <3>4, <4>1 DEF BaseDone, TorchDone
        <5>2. /\ OfCommitIn(images, tag["base"]) /\ OfCommitIn(images, tag["torch"])
              /\ OfCommitIn(images, u.image)
          BY <3>1, <5>1 DEF Tags1, Base, Torch
        <5>3. images' = images
          BY <3>1 DEF buildVars
        <5> QED BY <3>2, <5>2, <5>3 DEF Tags2, BaseDone, TorchDone
      <4> QED BY <2>1, <3>2, <3>4, <4>1 DEF Next1, TorchBegun, Copied
    <3> QED BY <2>s, <3>2, <3>3, <3>4
  <2>6. CASE Builds(v)
    <3>2. CASE BuildStarts(v)
      <4>1. x = [u EXCEPT !.pc = "building"] /\ u.pc \in {"base", "torch"}
        BY <1>0, <3>2, Gone DEF BuildStarts, UserAt, u, x
      <4>2. x.pc = "building" /\ x.seen = u.seen /\ u.pc \in LocalBuild
        BY <1>0, <4>1 DEF UserType, LocalBuild
      <4>3. \/ n.pc = "base_build"
            \/ u.pc = "torch" /\ TorchStart(v) /\ n.pc = "torch_build"
        BY <2>i, <3>2 DEF BuildStarts, BaseStart, TorchStart, Begin, IdleJob, UserAt, u
      <4>4. ASSUME Before PROVE Next1
        <5>1. CASE n.pc = "base_build"
          BY <2>1, <4>2, <4>4, <5>1 DEF Next1, Tags2, BaseDone, TorchBegun, TorchDone, Copied
        <5>2. CASE u.pc = "torch" /\ TorchStart(v) /\ n.pc = "torch_build"
          <6>1. v \notin overtaken' => BaseNext
            BY <2>2, <4>4, <5>2 DEF BaseDone
          <6> QED BY <2>1, <4>2, <4>4, <5>2, <6>1
                  DEF Next1, Tags2, BaseDone, TorchBegun, TorchDone, Copied
        <5> QED BY <4>3, <5>1, <5>2
      <4> QED BY <2>s, <4>2, <4>4
    <3>3. CASE BuildSteps(v)
      <4>1. x = u /\ u.pc = "building" /\ u.pc \in LocalBuild
        BY <3>3 DEF BuildSteps, UserAt, LocalBuild, u, x
      <4>2. \/ BaseRead(v) /\ n.pc = "base_load" /\ n.locks = LockOf[tree]
            \/ BaseLoad(v) /\ n.pc = "base_loaded" /\ j.pc = "base_load"
            \/ BaseLoaded(v) /\ n.pc = "base_built" /\ j.pc = "base_loaded"
            \/ /\ TorchRead(v) /\ n.pc = "torch_load" /\ n.locks = context
               /\ j.pc = "torch_build"
            \/ TorchLoad(v) /\ n.pc = "torch_loaded" /\ j.pc = "torch_load"
            \/ TorchLoaded(v) /\ n.pc = "torch_built" /\ n.torch = tag["torch"] /\ j.pc = "torch_loaded"
        <5>1. CASE BaseRead(v)
          <6>1. n = [j EXCEPT !.pc = "base_load", !.locks = LockOf[tree]]
            BY <2>i, <5>1 DEF BaseRead, j
          <6> QED BY <1>0, <5>1, <6>1 DEF JobType
        <5>2. CASE BaseLoad(v)
          <6>1. n = [j EXCEPT !.pc = "base_loaded"] /\ j.pc = "base_load"
            BY <2>i, <5>2 DEF BaseLoad, At, j
          <6> QED BY <1>0, <5>2, <6>1 DEF JobType
        <5>3. CASE BaseLoaded(v)
          <6>1. n = [j EXCEPT !.pc = "base_built", !.base = tag["base"]] /\ j.pc = "base_loaded"
            BY <2>i, <5>3 DEF BaseLoaded, At, j
          <6> QED BY <1>0, <5>3, <6>1 DEF JobType
        <5>4. CASE TorchRead(v)
          <6>1. n = [j EXCEPT !.pc = "torch_load", !.locks = context] /\ j.pc = "torch_build"
            BY <2>i, <5>4 DEF TorchRead, At, j
          <6> QED BY <1>0, <5>4, <6>1 DEF JobType
        <5>5. CASE TorchLoad(v)
          <6>1. n = [j EXCEPT !.pc = "torch_loaded"] /\ j.pc = "torch_load"
            BY <2>i, <5>5 DEF TorchLoad, At, j
          <6> QED BY <1>0, <5>5, <6>1 DEF JobType
        <5>6. CASE TorchLoaded(v)
          <6>1. n = [j EXCEPT !.pc = "torch_built", !.torch = tag["torch"]] /\ j.pc = "torch_loaded"
            BY <2>i, <5>6 DEF TorchLoaded, At, j
          <6> QED BY <1>0, <5>6, <6>1 DEF JobType
        <5> QED BY <3>3, <5>1, <5>2, <5>3, <5>4, <5>5, <5>6 DEF BuildSteps
      <4>3. ASSUME Before PROVE Next1
        <5>1. CASE BaseRead(v) /\ n.pc = "base_load" /\ n.locks = LockOf[tree]
          BY <2>1, <4>1, <4>3, <5>1 DEF Next1, Tags2, BaseDone, TorchBegun, TorchDone, Copied
        <5>2. CASE BaseLoad(v) /\ n.pc = "base_loaded" /\ j.pc = "base_load"
          <6>1. BaseNext
            BY <2>1, <4>1, <4>3, <5>2 DEF Copied
          <6> QED BY <2>1, <4>1, <4>3, <5>2, <6>1
                  DEF Next1, Tags2, BaseDone, TorchBegun, TorchDone, Copied
        <5>3. CASE BaseLoaded(v) /\ n.pc = "base_built" /\ j.pc = "base_loaded"
          <6>1. v \notin overtaken' => BaseNext
            BY <2>2, <4>1, <4>3, <5>3 DEF BaseDone
          <6> QED BY <2>1, <4>1, <4>3, <5>3, <6>1
                  DEF Next1, Tags2, BaseDone, TorchBegun, TorchDone, Copied
        <5>4. CASE /\ TorchRead(v) /\ n.pc = "torch_load" /\ n.locks = context
                   /\ j.pc = "torch_build"
          <6>1. context = LockOf[Revision] /\ context' = LockOf[Revision]
            BY <2>1, <4>1, <4>3, <5>4 DEF TorchBegun
          <6>2. v \notin overtaken' => BaseNext
            BY <2>2, <4>1, <4>3, <5>4 DEF BaseDone
          <6> QED BY <2>1, <4>1, <4>3, <5>4, <6>1, <6>2
                  DEF Next1, Tags2, BaseDone, TorchBegun, TorchDone, Copied
        <5>5. CASE TorchLoad(v) /\ n.pc = "torch_loaded" /\ j.pc = "torch_load"
          <6>1. TorchNext /\ context' = LockOf[Revision]
            BY <2>1, <4>1, <4>3, <5>5 DEF Copied, TorchBegun
          <6>2. v \notin overtaken' => BaseNext
            BY <2>2, <4>1, <4>3, <5>5 DEF BaseDone
          <6> QED BY <2>1, <4>1, <4>3, <5>5, <6>1, <6>2
                  DEF Next1, Tags2, BaseDone, TorchBegun, TorchDone, Copied
        <5>6. CASE /\ TorchLoaded(v) /\ n.pc = "torch_built" /\ n.torch = tag["torch"]
                   /\ j.pc = "torch_loaded"
          <6>1. context' = LockOf[Revision]
            BY <2>1, <4>1, <4>3, <5>6 DEF TorchBegun
          <6>2. v \notin overtaken' => BaseNext /\ TorchNext /\ Torch
            BY <2>2, <4>1, <4>3, <5>6 DEF BaseDone, TorchDone, Tags1
          <6>3. images' = images
            BY <5>6 DEF TorchLoaded, storeVars
          <6>4. v \notin overtaken' => OfCommitIn(images', n.torch)
            BY <5>6, <6>2, <6>3 DEF Torch
          <6> QED BY <2>1, <4>1, <4>3, <5>6, <6>1, <6>2, <6>4
                  DEF Next1, Tags2, BaseDone, TorchBegun, TorchDone, Copied
        <5> QED BY <4>2, <5>1, <5>2, <5>3, <5>4, <5>5, <5>6
      <4> QED BY <2>s, <4>1, <4>3
    <3>4. CASE BuildReturned(v)
      <4>1. /\ u.pc = "building" /\ images' = images
            /\ \/ j.pc = "base_built" /\ x = [u EXCEPT !.pc = "torch"]
               \/ j.pc = "torch_built" /\ x = [u EXCEPT !.pc = "lookup", !.image = j.torch]
        BY <1>0, <3>4, Gone DEF BuildReturned, BuildReturns, UserAt, At, storeVars, u, x, j
      <4>2. /\ x.seen = u.seen /\ u.pc \in LocalBuild
            /\ \/ j.pc = "base_built" /\ x.pc = "torch"
               \/ j.pc = "torch_built" /\ x.pc = "lookup" /\ x.image = j.torch
        BY <1>0, <4>1 DEF UserType, LocalBuild
      <4>3. ASSUME Before PROVE Next1
        <5>1. v \notin overtaken' => BaseNext
          BY <2>2, <4>1, <4>2, <4>3 DEF BaseDone
        <5>2. CASE j.pc = "base_built" /\ x.pc = "torch"
          BY <2>1, <4>3, <5>1, <5>2 DEF Next1, Tags2, BaseDone, TorchBegun, TorchDone, Copied
        <5>3. CASE j.pc = "torch_built" /\ x.pc = "lookup" /\ x.image = j.torch
          <6>1. context' = LockOf[Revision]
            BY <2>1, <4>1, <4>3, <5>3 DEF TorchBegun
          <6>2. v \notin overtaken' => TorchNext /\ OfCommitIn(images', j.torch)
            BY <2>2, <4>1, <4>3, <5>3 DEF TorchDone, Tags1
          <6> QED BY <2>1, <4>3, <5>1, <5>3, <6>1, <6>2
                  DEF Next1, Tags2, BaseDone, TorchBegun, TorchDone, Copied
        <5> QED BY <4>2, <5>2, <5>3
      <4> QED BY <2>s, <4>2, <4>3
    <3>5. CASE BuildAborted(v) \/ (UserAt(v, "idle") /\ UNCHANGED user)
      <4>1. x.pc = "idle"
        BY <1>0, <3>5, Gone, IdleTyped DEF BuildAborted, Stop, UserAt, x
      <4> QED BY <4>1 DEF LocalBuild
    <3> QED BY <2>6, <3>2, <3>3, <3>4, <3>5 DEF Builds
  <2>7. (x = u /\ n = j) \/ BuildsOn(v)
    <3>1. CASE Outside
      BY <3>1 DEF Outside, Edit, Commit, ChangeContext, LoseImage, DeleteProject, ReplaceConfig,
         buildVars, u, j, x, n
    <3>2. ASSUME NEW w \in Workers, Talks(w) \/ Moves(w) \/ Records(w) \/ Builds(w)
          PROVE  (x = u /\ n = j) \/ BuildsOn(v)
      BY <1>0, <3>2, OneWorker, Turns DEF u, j, x, n
    <3> QED BY <1>s, <3>1, <3>2, Steps
  <2> QED BY <2>3, <2>4, <2>5, <2>6, <2>7 DEF BuildsOn
<1> QED BY <1>3, <1>4, <1>s, TreeStays

LEMMA OneInstallerNext ==
  ASSUME TypeInv, OneInstaller, Step
  PROVE  OneInstaller'
<1>0. DOMAIN user = Workers /\ DOMAIN job = Workers
  BY DEF TypeInv
<1>1. CASE Outside
  BY <1>1 DEF Outside, ChangeContext, LoseImage, DeleteProject, ReplaceConfig, OneInstaller, Installing
<1>2. ASSUME NEW w \in Workers, Talks(w) \/ Moves(w) \/ Records(w) \/ Builds(w)
      PROVE  OneInstaller'
  <2>1. \A v \in Workers \ {w} : user'[v] = user[v]
    BY <1>0, <1>2, OneWorker
  <2>2. \/ Installing(user'[w]) => Installing(user[w])
        \/ \A v \in Workers : user[v].cmd # "install"
    BY <1>2, Turns DEF Turned
  <2> QED BY <2>1, <2>2 DEF OneInstaller, Installing
<1> QED BY <1>1, <1>2, Steps

LEMMA OfReleaseNext ==
  ASSUME TypeInv, OfRelease, Step
  PROVE  OfRelease'
<1>0. DOMAIN user = Workers /\ DOMAIN job = Workers /\ StoreTyped
  BY ImageBuildAssumption DEF TypeInv, TypeOK, StoreTyped, Made
<1>1. \A i \in {1, 2} : images'[i].locks = LockOf[Revision]
  BY <1>0, MadeIds, StoreNext DEF OfRelease, ImagesKept
<1>2. ASSUME NEW v \in Workers, user'[v].pc \in Binding, user'[v].cmd = "init"
      PROVE  user'[v].sel = ReleaseSelection
  <2>1. CASE user'[v] = user[v]
    BY <1>2, <2>1 DEF OfRelease
  <2>2. CASE Talks(v) \/ Moves(v) \/ Records(v) \/ Builds(v)
    BY <1>2, <2>2, Turns DEF Turned, OfRelease
  <2>3. CASE Outside
    BY <2>1, <2>3 DEF Outside, ChangeContext, LoseImage, DeleteProject, ReplaceConfig
  <2> QED BY <1>0, <2>1, <2>2, <2>3, Steps, OneWorker
<1> QED BY <1>1, <1>2 DEF OfRelease

LEMMA SelectionNext ==
  ASSUME TypeInv, Sourced, Step
  PROVE  SelectionTrusted'
<1>0. /\ DOMAIN user = Workers /\ DOMAIN job = Workers /\ StoreTyped
      /\ selection \in OrNone(SelType) /\ ImagesKept
  BY ImageBuildAssumption, StoreNext DEF TypeInv, TypeOK, StoreTyped, Made
<1>1. ASSUME NEW v \in Workers, user'[v].mismatch
      PROVE  user'[v].pc = "blocked"
  <2>1. CASE user'[v] = user[v]
    BY <1>1, <2>1 DEF Sourced, SelectionTrusted, UserAt
  <2>2. CASE Talks(v) \/ Moves(v) \/ Records(v) \/ Builds(v)
    BY <1>1, <2>2, Turns DEF Turned, Sourced, SelectionTrusted, UserAt
  <2>3. CASE Outside
    BY <2>1, <2>3 DEF Outside, ChangeContext, LoseImage, DeleteProject, ReplaceConfig
  <2> QED BY <1>0, <2>1, <2>2, <2>3, Steps, OneWorker
<1> DEFINE Good(s) == s # None =>
             IF s.source = "pull"
             THEN {s.base, s.torch} = {Release.base, Release.torch}
             ELSE s.quiet => \A i \in {s.base, s.torch, s.digest} :
                               images'[i].locks = LockOf[Revision]
<1>2. CASE selection' = selection
  <2>1. selection # None => {selection.base, selection.torch, selection.digest} \subseteq Made
    BY <1>0 DEF OrNone, SelType
  <2>2. Good(selection)
    BY <1>0, <2>1 DEF Sourced, SelectionTrusted, ImagesKept
  <2> HIDE DEF Good
  <2> QED BY <1>1, <1>2, <2>2 DEF SelectionTrusted, UserAt, Good
<1>3. CASE selection' = None
  BY <1>1, <1>3 DEF SelectionTrusted, UserAt
<1>4. ASSUME NEW w \in Workers, RecordPulled(w) PROVE SelectionTrusted'
  <2>1. selection' = ReleaseSelection
    BY <1>4 DEF RecordPulled
  <2> QED BY <1>1, <2>1 DEF SelectionTrusted, UserAt, ReleaseSelection
<1>5. ASSUME NEW w \in Workers, RecordBuilt(w) PROVE SelectionTrusted'
  <2> DEFINE u == user[w]
  <2>1. /\ u.pc = "revalidate" /\ tree = Revision /\ images' = images
        /\ selection' = [u.sel EXCEPT !.quiet = Quiet(w)]
    BY <1>5 DEF RecordBuilt, UserAt, SourceValid, buildVars
  <2>2. /\ u.sel \in SelType /\ u.sel.source = "build" /\ u.seen <= edits
        /\ u.seen \in Nat /\ edits \in Nat /\ u.pc \in LocalBuild
    BY <2>1 DEF TypeInv, Stage, LocalBuild, UserType
  <2>3. /\ selection'.source = "build" /\ selection'.quiet = Quiet(w)
        /\ selection'.base = u.sel.base /\ selection'.torch = u.sel.torch
        /\ selection'.digest = u.sel.digest
    BY <2>1, <2>2 DEF SelType
  <2>4. BuildSound(w)
    BY DEF Sourced
  <2>5. edits # u.seen + 1
    BY <2>1, <2>2, <2>4 DEF BuildSound
  <2>6. ASSUME selection'.quiet
        PROVE  \A i \in {u.sel.base, u.sel.torch, u.sel.digest} : images[i].locks = LockOf[Revision]
    <3>0. w \notin overtaken /\ edits - u.seen < 2
      BY <2>3, <2>6 DEF Quiet
    <3>1. edits = u.seen
      BY <2>2, <2>5, <3>0
    <3>2. OfCommit(u.sel.base) /\ OfCommit(u.sel.torch) /\ OfCommit(u.sel.digest)
      BY <2>1, <2>2, <2>4, <3>0, <3>1 DEF BuildSound, TagsSound
    <3>3. u.sel.base # None /\ u.sel.torch # None /\ u.sel.digest # None
      BY <1>0, <2>2, MadeIds DEF SelType
    <3> QED BY <3>2, <3>3 DEF OfCommit, OfCommitIn
  <2> QED BY <1>1, <2>1, <2>3, <2>6 DEF SelectionTrusted, UserAt
<1>6. ASSUME NEW w \in Workers, CreateConfig(w) PROVE selection' = selection
  BY <1>6 DEF CreateConfig
<1>7. ASSUME Outside PROVE selection' = selection \/ selection' = None
  BY <1>7 DEF Outside, ChangeContext, LoseImage, DeleteProject, ReplaceConfig, projectVars
<1>8. ASSUME NEW w \in Workers, Talks(w) \/ Moves(w) \/ Builds(w) PROVE selection' = selection
  BY <1>8, ProjectKept DEF projectVars
<1> QED BY <1>2, <1>3, <1>4, <1>5, <1>6, <1>7, <1>8, Steps DEF Records

LEMMA SourcedInit ==
  ASSUME Init
  PROVE  Sourced
<1>1. /\ user = [w \in Workers |-> IdleUser] /\ selection = None
      /\ images = ReleaseImages
  BY DEF Init, BuildInit
<1>2. \A w \in Workers : user[w].pc = "idle" /\ user[w].mismatch = FALSE
  BY <1>1 DEF IdleUser
<1>3. images[1].locks = LockOf[Revision] /\ images[2].locks = LockOf[Revision]
  BY <1>1 DEF ReleaseImages, Revision
<1> QED BY <1>1, <1>2, <1>3
        DEF Sourced, OneInstaller, Installing, OfRelease, BuildSound, SelectionTrusted, UserAt,
            Binding, LocalBuild

LEMMA SourcedNext ==
  ASSUME TypeInv, Sourced, [Next]_vars
  PROVE  Sourced'
<1>1. CASE Next
  <2>1. (\A w \in Workers : BuildSound(w))'
    BY <1>1, BuildSoundNext
  <2>2. Step
    BY <1>1 DEF Next
  <2> QED BY <2>1, <2>2, OneInstallerNext, OfReleaseNext, SelectionNext DEF Sourced
<1>2. CASE UNCHANGED vars
  BY <1>2 DEF vars, buildVars, projectVars, Sourced, OneInstaller, OfRelease, BuildSound,
     TagsSound, SelectionTrusted, UserAt, OfCommit, OfCommitIn
<1> QED BY <1>1, <1>2

\* An image whose identity does not match is never used; what the installer
\* records is the release, or was built from the commit the installer was
\* started with, although the checkout may be edited and committed and other
\* commands may build, move and remove the same tags meanwhile: of all they do,
\* only a build of other sources that ends after a build of the installer and
\* before its look-up can put another image in the place of the one it built.
THEOREM SelectionOfSource == Spec => []SelectionTrusted
<1>1. Init => TypeInv /\ Sourced
  BY TypeInit, SourcedInit
<1>2. TypeInv /\ Sourced /\ [Next]_vars => (TypeInv /\ Sourced)'
  BY TypeNext, SourcedNext
<1>3. Sourced => SelectionTrusted
  BY DEF Sourced
<1> QED BY <1>1, <1>2, <1>3, PTL DEF Spec

(***************************************************************************)
(* A container runs an image made for the configured parent and the        *)
(* context.                                                                *)
(***************************************************************************)

\* Only a build of the project makes the project tag name another image.
LEMMA ProjectTagMoves ==
  ASSUME TypeInv, Step
  PROVE  \/ tag'["project"] \in {tag["project"], None}
         \/ \E w \in Workers : ProjectLoad(w)
<1> USE DEF buildVars, storeVars
<1> DEFINE Goal == tag'["project"] \in {tag["project"], None}
<1>0. StoreTyped
  BY ImageBuildAssumption DEF TypeInv, TypeOK, StoreTyped, Made
<1>1. "project" \in DOMAIN tag
  BY <1>0 DEF StoreTyped, Tags
<1>d. ASSUME NEW k, Drop(k) PROVE Goal
  BY <1>1, <1>d DEF Drop
<1>e. ASSUME NEW t, t # "project", \E k : tag' = [tag EXCEPT ![t] = k] PROVE Goal
  BY <1>1, <1>e
<1>2. ASSUME NEW w \in Workers, Talks(w) PROVE Goal
  <2>1. UNCHANGED buildVars
    BY <1>2, Zenon DEF Talks, InstallStart, InstallResumes, ProjectInit, RunStart, Doctor, PullFails,
       Verify, VerifyFails, Fallback, ValidateSource, LookUp, ParentBound, KeepConfig,
       RepairConfig, Fingerprint, Reuse, Rebuild, ProjectRead, ProjectBuilt, InspectProject, LoadProfile,
       StartContainer, ContainerExits, RepairDone, UserFails
  <2> QED BY <2>1
<1>3. ASSUME NEW w \in Workers, Records(w) PROVE Goal
  BY <1>3 DEF Records, RecordPulled, RecordBuilt, CreateConfig
<1>4. ASSUME NEW w \in Workers, Pull(w) PROVE Goal
  BY <1>4 DEF Pull
<1>5. ASSUME NEW w \in Workers, RetagParent(w) PROVE Goal
  <2>1. user[w].kind # "project"
    BY <1>5 DEF RetagParent, UserAt, TypeInv, Stage, Choosing, Kinds
  <2> QED BY <1>e, <1>5, <2>1 DEF RetagParent
<1>6. ASSUME NEW w \in Workers, BindParent(w) PROVE Goal
  BY <1>e, <1>6 DEF BindParent
<1>7. ASSUME NEW w \in Workers, RemoveChanged(w) PROVE Goal
  BY <1>d, <1>7 DEF RemoveChanged, RemoveById
<1>8. ASSUME NEW w \in Workers, Builds(w) PROVE Goal
  <2>1. CASE BaseLoad(w) \/ TorchLoad(w)
    <3>1. \E t \in {"base", "torch"} : \E k : tag' = [tag EXCEPT ![t] = k]
      BY <2>1 DEF BaseLoad, TorchLoad, Load, LoadImage
    <3> QED BY <1>e, <3>1
  <2>2. CASE \/ BaseStart(w) \/ BaseRead(w) \/ BaseLoaded(w)
             \/ TorchStart(w) \/ TorchRead(w) \/ TorchLoaded(w)
             \/ BuildReturns(w) \/ BuildFails(w)
    <3>1. UNCHANGED tag
      BY <2>2, Zenon DEF BaseStart, BaseRead, BaseLoaded, TorchStart, TorchRead, TorchLoaded,
         BuildReturns, BuildFails
    <3> QED BY <3>1
  <2>3. CASE PruneStart(w, Configured) \/ PruneSelect(w, running) \/ PruneDone(w)
    <3>1. UNCHANGED tag
      BY <2>3, Zenon DEF PruneStart, PruneSelect, PruneDone
    <3> QED BY <3>1
  <2>4. CASE PruneRemove(w, running)
    BY <1>d, <2>4 DEF PruneRemove, RemoveById
  <2> QED BY <1>8, <2>1, <2>2, <2>3, <2>4
      DEF Builds, BuildStarts, BuildSteps, BuildReturned, BuildAborted, BuildNext
<1>9. ASSUME Outside PROVE Goal
  <2>1. CASE LoseImage
    BY <1>d, <2>1 DEF LoseImage
  <2> QED BY <1>9, <2>1 DEF Outside, Edit, Commit, ChangeContext, DeleteProject, ReplaceConfig
<1> QED BY <1>2, <1>3, <1>4, <1>5, <1>6, <1>7, <1>8, <1>9, Steps DEF Moves

LEMMA ProjectTagNext ==
  ASSUME TypeInv, ProjectTag, Step
  PROVE  ProjectTag'
<1>0. StoreTyped
  BY ImageBuildAssumption DEF TypeInv, TypeOK, StoreTyped, Made
<1>1. "project" \in Tags
  BY DEF Tags
<1>2. CASE tag'["project"] \in {tag["project"], None}
  BY <1>0, <1>1, <1>2, MadeIds, StoreNext DEF ProjectTag, ImagesKept
<1>3. ASSUME NEW w \in Workers, ProjectLoad(w) PROVE ProjectTag'
  <2>1. PICK k \in local' : images'[k] = ProjectImage(user[w]) /\ tag' = [tag EXCEPT !["project"] = k]
    BY <1>0, <1>1, <1>3, LoadKeeps, BuiltTypes DEF ProjectLoad
  <2>2. tag'["project"] = k
    BY <1>0, <1>1, <2>1 DEF StoreTyped
  <2> QED BY <2>1, <2>2 DEF ProjectTag, ProjectImage
<1> QED BY <1>2, <1>3, ProjectTagMoves

LEMMA UseSoundNext ==
  ASSUME TypeInv, Used, Next, NEW v \in Workers
  PROVE  UseSound(v)'
<1> DEFINE u == user[v]
           x == user'[v]
           k == tag["project"]
           kn == tag'["project"]
           MatchesNext(i, y) == images'[i].rev = y.fp /\ images'[i].parent = y.cfg.base
           ParentNext(i, y) == images'[i].digest = y.cfg.digest
           Goal == /\ v \notin overtaken' /\ kn # None =>
                        /\ x.pc \in Shown => MatchesNext(kn, x)
                        /\ x.pc \in {"profile", "start"} => ParentNext(kn, x)
                   /\ x.pc = "container" =>
                        /\ images'[x.image].kind = "project"
                        /\ v \notin overtaken' => MatchesNext(x.image, x) /\ ParentNext(x.image, x)
<1>s. Step
  BY DEF Next
<1>0. /\ StoreTyped /\ u \in UserType /\ DOMAIN user = Workers /\ DOMAIN job = Workers
      /\ ImagesKept /\ "project" \in Tags /\ Stage(u, job[v])
  BY <1>s, ImageBuildAssumption, StoreNext DEF TypeInv, TypeOK, StoreTyped, Made, Tags
<1>g. SUFFICES Goal
  BY DEF UseSound, Matches, OfParent
<1>1. UseSound(v) /\ ProjectTag
  BY DEF Used
<1>2. \A i \in Made : images'[i] = images[i]
  BY <1>0 DEF ImagesKept
<1>3. k # None => k \in Made
  BY <1>0, MadeIds
<1>o. ASSUME x.pc # "idle", v \notin overtaken' PROVE v \notin overtaken /\ ~Overtaken(v)
  BY <1>o, StaysAhead
\* Once the tag names a good image, only a build that overtakes the command
\* makes it name another.
<1>4. ASSUME v \notin overtaken, ~Overtaken(v), kn # None, u.pc \in Shown
      PROVE  MatchesNext(kn, u) /\ (u.pc \in {"profile", "start"} => ParentNext(kn, u))
  <2>1. CASE kn = k
    <3>1. /\ Matches(k, u) /\ (u.pc \in {"profile", "start"} => OfParent(k, u))
          /\ k \in Made
      BY <1>1, <1>3, <1>4, <2>1 DEF UseSound
    <3> QED BY <1>2, <2>1, <3>1 DEF Matches, OfParent
  <2>2. ASSUME NEW w \in Workers, ProjectLoad(w)
        PROVE  MatchesNext(kn, u) /\ (u.pc \in {"profile", "start"} => ParentNext(kn, u))
    <3>1. PICK i \in local' : images'[i] = ProjectImage(user[w]) /\ tag' = [tag EXCEPT !["project"] = i]
      BY <1>0, <2>2, LoadKeeps, BuiltTypes DEF ProjectLoad
    <3>2. kn = i
      BY <1>0, <3>1 DEF StoreTyped
    <3>3. ProjectEnds(w) /\ UserAt(w, "copied")
      BY <2>2, Ends DEF ProjectLoad
    <3>4. w # v /\ u.pc \in {"ready", "profile", "start"}
      BY <1>4, <3>3 DEF UserAt, Shown
    <3>5. /\ user[w].fp = u.fp /\ user[w].cfg.base = u.cfg.base
          /\ u.pc \in {"profile", "start"} => user[w].cfg.digest = u.cfg.digest
      BY <1>4, <3>3, <3>4 DEF Overtaken
    <3> QED BY <3>1, <3>2, <3>5 DEF ProjectImage
  <2> QED BY <1>4, <1>s, <2>1, <2>2, ProjectTagMoves
<1>5. ASSUME x.pc = u.pc \/ x.pc \in Shown, x.cfg = u.cfg, x.fp = u.fp, u.pc \in Shown,
             v \notin overtaken', kn # None
      PROVE  MatchesNext(kn, x) /\ (u.pc \in {"profile", "start"} => ParentNext(kn, x))
  <2>1. x.pc # "idle"
    BY <1>5 DEF Shown
  <2> QED BY <1>4, <1>5, <1>o, <2>1
<1>u. /\ "idle" \notin Using /\ "container" \in Using /\ Shown \subseteq Using
      /\ Shown = {"ready", "profile", "start"}
      /\ Using = {"decide", "build", "copied", "built", "container", "ready", "profile", "start"}
  BY DEF Using, Shown
<1> HIDE DEF u, x, k, kn, MatchesNext, ParentNext
<1>6. CASE x = u
  <2>1. ASSUME u.pc = "container"
        PROVE  /\ images'[x.image].kind = "project"
               /\ v \notin overtaken' => MatchesNext(x.image, x) /\ ParentNext(x.image, x)
    <3>1. u.image \in Made
      BY <1>0, <2>1 DEF Stage
    <3>2. /\ images[u.image].kind = "project"
          /\ v \notin overtaken => Matches(u.image, u) /\ OfParent(u.image, u)
      BY <1>1, <2>1 DEF UseSound, u
    <3>3. v \notin overtaken' => v \notin overtaken
      BY <1>6, <1>o, <2>1
    <3> QED BY <1>2, <1>6, <3>1, <3>2, <3>3 DEF MatchesNext, ParentNext, Matches, OfParent
  <2> QED BY <1>5, <1>6, <1>u, <2>1
<1>7. CASE x.pc \notin Using
  BY <1>7, <1>u
<1>8. CASE Fingerprint(v) \/ Rebuild(v) \/ ProjectRead(v) \/ ProjectLoad(v)
  <2>1. \/ x = [u EXCEPT !.pc = "decide", !.fp = Context]
        \/ x = [u EXCEPT !.pc = "build"]
        \/ x = [u EXCEPT !.pc = "copied", !.copied = Context]
        \/ x = [u EXCEPT !.pc = "built", !.copied = None]
    BY <1>0, <1>8, Gone DEF Fingerprint, Rebuild, ProjectRead, ProjectLoad, u, x
  <2>2. x.pc \in {"decide", "build", "copied", "built"}
    BY <1>0, <2>1 DEF UserType
  <2> QED BY <1>u, <2>2
<1>9. CASE InspectProject(v)
  <2>1. /\ x = [u EXCEPT !.pc = "profile", !.image = None] /\ u.pc = "ready"
        /\ k # None /\ images[k].digest = u.cfg.digest /\ kn = k
    BY <1>0, <1>9, Gone DEF InspectProject, UserAt, u, x, k, kn, buildVars
  <2>2. x.pc = "profile" /\ x.cfg = u.cfg /\ x.fp = u.fp
    BY <1>0, <2>1 DEF UserType
  <2>3. ParentNext(kn, x)
    BY <1>2, <1>3, <2>1, <2>2 DEF ParentNext
  <2> QED BY <1>5, <1>u, <2>1, <2>2, <2>3
<1>10. CASE LoadProfile(v)
  <2>1. (x = [u EXCEPT !.pc = "start"] \/ x = IdleUser) /\ u.pc = "profile"
    BY <1>0, <1>10, Gone DEF LoadProfile, UserAt, u, x
  <2>2. (x.pc = "start" /\ x.cfg = u.cfg /\ x.fp = u.fp) \/ x.pc = "idle"
    BY <1>0, <2>1, IdleTyped DEF UserType
  <2> QED BY <1>5, <1>u, <2>1, <2>2
<1>11. CASE StartContainer(v)
  <2>1. /\ x = [u EXCEPT !.pc = "container", !.image = k] /\ u.pc = "start"
        /\ k # None /\ kn = k
    BY <1>0, <1>11, Gone DEF StartContainer, UserAt, u, x, k, kn, buildVars
  <2>2. x.pc = "container" /\ x.image = k /\ x.cfg = u.cfg /\ x.fp = u.fp
    BY <1>0, <2>1 DEF UserType
  <2>3. images'[k].kind = "project"
    BY <1>1, <1>2, <1>3, <2>1 DEF ProjectTag, k
  <2>4. v \notin overtaken' => MatchesNext(k, x) /\ ParentNext(k, x)
    <3>1. ASSUME v \notin overtaken' PROVE MatchesNext(k, u) /\ ParentNext(k, u)
      BY <1>4, <1>o, <1>u, <2>1, <2>2, <3>1
    <3> QED BY <2>2, <3>1 DEF MatchesNext, ParentNext
  <2> QED BY <1>u, <2>2, <2>3, <2>4
<1>12. CASE Reuse(v) \/ ProjectBuilt(v)
  <2>1. /\ x = [u EXCEPT !.pc = "ready", !.image = k]
        /\ kn = k /\ k # None /\ Fresh(k, u) /\ Contract(k, u)
    <3>1. CASE Reuse(v)
      <4>1. PICK i \in Reusable(u) :
              Contract(i, u) /\ Goto(v, [u EXCEPT !.pc = "ready", !.image = i])
        BY <3>1, Zenon DEF Reuse, u
      <4>2. i = k /\ k # None /\ Fresh(k, u)
        BY <4>1 DEF Reusable, k
      <4>3. kn = k
        BY <3>1 DEF Reuse, buildVars, k, kn
      <4>4. x = [u EXCEPT !.pc = "ready", !.image = i]
        BY <1>0, <4>1, Gone DEF x
      <4> QED BY <4>1, <4>2, <4>3, <4>4
    <3>2. CASE ProjectBuilt(v)
      BY <1>0, <3>2, Gone DEF ProjectBuilt, u, x, k, kn, buildVars
    <3> QED BY <1>12, <3>1, <3>2
  <2>2. x.pc = "ready" /\ x.cfg = u.cfg /\ x.fp = u.fp
    BY <1>0, <2>1 DEF UserType
  <2>3. MatchesNext(kn, x)
    BY <1>2, <1>3, <2>1, <2>2 DEF MatchesNext, Fresh, Contract
  <2> QED BY <1>u, <2>2, <2>3
<1>13. x = u \/ x.pc \notin Using \/ UsesOn(v)
  <2>1. CASE Outside
    BY <2>1 DEF Outside, ChangeContext, LoseImage, DeleteProject, ReplaceConfig, u, x
  <2>2. ASSUME NEW w \in Workers, Talks(w) \/ Moves(w) \/ Records(w) \/ Builds(w)
        PROVE  x = u \/ x.pc \notin Using \/ UsesOn(v)
    BY <1>0, <2>2, OneWorker, Turns DEF u, x
  <2> QED BY <1>s, <2>1, <2>2, Steps
<1> QED BY <1>6, <1>7, <1>8, <1>9, <1>10, <1>11, <1>12, <1>13 DEF UsesOn

LEMMA UsedInit ==
  ASSUME Init
  PROVE  Used
<1>1. /\ user = [w \in Workers |-> IdleUser] /\ tag = [t \in Tags |-> None]
  BY DEF Init, BuildInit
<1>2. tag["project"] = None /\ \A w \in Workers : user[w].pc = "idle"
  BY <1>1 DEF IdleUser, Tags
<1> QED BY <1>2 DEF Used, ProjectTag, UseSound, Using, Shown

LEMMA UsedNext ==
  ASSUME TypeInv, Used, [Next]_vars
  PROVE  Used'
<1>1. CASE Next
  <2>1. (\A w \in Workers : UseSound(w))'
    BY <1>1, UseSoundNext
  <2>2. ProjectTag'
    BY <1>1, ProjectTagNext DEF Used, Next
  <2> QED BY <2>1, <2>2 DEF Used
<1>2. CASE UNCHANGED vars
  BY <1>2 DEF vars, buildVars, projectVars, Used, ProjectTag, UseSound, Matches, OfParent
<1> QED BY <1>1, <1>2

\* The container that project run starts is of a project image; it was made for
\* the configuration that the command loaded and the context it took the
\* fingerprint of, whatever tags were moved, images removed and projects edited,
\* deleted and replaced between its steps.  Of all that others do, only a build
\* for another configuration or context that ends after the last check changes it.
THEOREM ContainerOfConfig == Spec => []ContainerMatchesConfig
<1>1. Init => TypeInv /\ Used
  BY TypeInit, UsedInit
<1>2. TypeInv /\ Used /\ [Next]_vars => (TypeInv /\ Used)'
  BY TypeNext, UsedNext
<1>3. Used => ContainerMatchesConfig
  BY DEF Used, UseSound, Matches, OfParent, ContainerMatchesConfig, UserAt
<1> QED BY <1>1, <1>2, <1>3, PTL DEF Spec
==============================================================================
