----------------------- MODULE ReleasePublicationProofs -----------------------
(***************************************************************************)
(* Theorems about ImageBuild and ReleasePublication, for any number of     *)
(* builders and maintainers, of versions, images, edits, qualification     *)
(* runs and faults.                                                        *)
(***************************************************************************)
EXTENDS ReleasePublication, SequenceTheorems, TLAPS

(***************************************************************************)
(* The inductive invariant.                                                *)
(***************************************************************************)

Fields == {"pc", "rev", "locks", "base", "torch", "prev", "run", "kind", "todo"}

Undoable == {"release_check", "release_sbom", "release_record", "rollback"}
ReleasePcs == {"release", "release_tag"} \cup Undoable
StablePcs == {"anonymous", "stable_write"}
PublishPcs == {"pub_tag", "pub_push", "pub_observe", "pub_write"} \cup StablePcs

\* What a command carries is of the type that its next step needs.
CommandTyped(w) ==
  /\ DOMAIN job[w] = Fields
  /\ job[w].pc \in {"base_build", "base_load", "torch_build", "torch_load"} =>
       job[w].rev \in Versions
  /\ job[w].pc \in {"base_load", "torch_load"} => job[w].locks \in Locks
  /\ job[w].pc \in {"torch_build", "torch_load"} => job[w].base \in Ids
  /\ job[w].pc = "torch_build" => context \in Locks
  /\ job[w].pc = "qualify" => /\ job[w].torch \in DOMAIN images
                              /\ job[w].rev \in Locks
  /\ job[w].pc \in ReleasePcs =>
       /\ w \in Maintainers
       /\ job[w].run \in Report /\ job[w].run.run \in 1 .. runs
       /\ job[w].torch \in DOMAIN images
  /\ job[w].pc \in ReleasePcs \ {"release"} => job[w].rev \in Versions
  /\ job[w].pc \in Undoable => job[w].prev \in OrNone(DOMAIN images)
  /\ job[w].pc \in PublishPcs =>
       /\ job[w].rev \in Versions /\ job[w].run \in 1 .. MaxRuns
       /\ job[w].kind \in Kinds
       /\ {job[w].base, job[w].torch} \subseteq DOMAIN images
  /\ job[w].pc = "pub_observe" => release[job[w].kind] # None

JobTyped ==
  /\ DOMAIN job = Workers
  /\ context \in OrNone(Locks)
  /\ report # None => report.run \in 1 .. runs
  /\ \A w \in Workers : CommandTyped(w)

TypeInv == TypeOK /\ JobTyped

\* The reports that a file, a record or a running release tool holds.
Known(a) ==
  \/ report # None /\ a = report
  \/ \E r \in DOMAIN records : records[r] # None /\ a = records[r].report
  \/ \E w \in Workers : job[w].pc \in ReleasePcs /\ a = job[w].run

\* The number of a run identifies its report; one that passed is about an image
\* that did.
ReportsFiled ==
  /\ \A a \in Report : Known(a) => /\ a.run <= runs
                                   /\ a.passed => a.image \in qualified
  /\ \A a, b \in Report : Known(a) /\ Known(b) /\ a.run = b.run => a = b

\* A record, and a release tool past its check, are about the image of the
\* report they hold.
RecordsSound ==
  /\ \A r \in DOMAIN records : records[r] # None =>
       /\ records[r].report.run = r
       /\ records[r].report.passed
       /\ records[r].report.image = records[r].image
  /\ \A w \in Workers : job[w].pc \in ReleasePcs \ {"release"} =>
       job[w].run.passed /\ job[w].run.image = job[w].torch

\* A publication in progress holds the evidence that the manifest is to name,
\* although files, tags and images have changed since it was read.
Evidenced(r, t) == t \in qualified /\ records[r] # None /\ records[r].image = t

PublicationSound(w) ==
  /\ job[w].pc \in PublishPcs =>
       /\ Evidenced(job[w].run, job[w].torch)
       /\ \A i \in {job[w].base, job[w].torch} :
            Carries(i, job[w].rev, LockOf[job[w].rev])
  /\ \/ job[w].pc = "stable_write"
     \/ job[w].pc = "anonymous" /\ job[w].kind = "torch"
     => job[w].base \in pushed["base"] /\ "base" \in public
  /\ job[w].pc = "stable_write" =>
       job[w].torch \in pushed["torch"] /\ "torch" \in public

PublishSound == \A w \in Workers : PublicationSound(w)

\* What the verified tag names, and what a rollback would put back, passed.
TagQualified ==
  /\ tag["verified"] \in OrNone(qualified)
  /\ \A w \in Workers : job[w].pc \in Undoable => job[w].prev \in OrNone(qualified)

\* With one maintainer, the tag is only ahead of the records while its release
\* tool has not finished, or when the tool could not put it back; what a rollback
\* puts back has a record, or was left so by an earlier release.
Recorded(i) == \E r \in 1 .. runs : records[r] # None /\ records[r].image = i

Accounted(i) == i = None \/ Recorded(i) \/ i \in stray

TagRecorded ==
  /\ Accounted(tag["verified"]) \/ Releasing(tag["verified"])
  /\ \A w \in Workers : job[w].pc \in Undoable => Accounted(job[w].prev)

Evidence == ReportsFiled /\ RecordsSound /\ PublishSound /\ TagQualified

(***************************************************************************)
(* What no step takes back.                                                *)
(***************************************************************************)

ImagesKept == /\ DOMAIN images \subseteq DOMAIN images'
              /\ \A i \in DOMAIN images : images'[i] = images[i]

Forward ==
  /\ ImagesKept
  /\ context \in Locks => context' \in Locks
  /\ qualified \subseteq qualified' /\ 1 .. runs \subseteq 1 .. runs'
  /\ stray \subseteq stray'
  /\ public \subseteq public'
  /\ \A k \in Kinds : /\ pushed[k] \subseteq pushed'[k]
                      /\ release[k] # None => release'[k] # None

\* A build adds at most one image, and moves one tag to an image in the store.
LEMMA LoadKeeps ==
  ASSUME TypeOK, NEW t, NEW contents, LoadImage(t, contents)
  PROVE  /\ ImagesKept
         /\ Len(images') <= MaxImages
         /\ contents \in Images => images' \in Seq(Images)
         /\ local' \subseteq DOMAIN images'
         /\ local \subseteq local'
         /\ \E i \in local' : tag' = [tag EXCEPT ![t] = i]
<1> DEFINE Any == Images \cup {contents}
<1>1. /\ images \in Seq(Images) /\ images \in Seq(Any)
      /\ Len(images) \in Nat /\ DOMAIN images = 1 .. Len(images)
      /\ Len(images) <= MaxImages /\ local \subseteq DOMAIN images
  BY SeqMonotonic DEF TypeOK
<1>2. PICK i \in {k \in DOMAIN images : images[k] = contents}
                \cup ({Len(images) + 1} \cap Ids) :
        /\ images' = IF i \in DOMAIN images THEN images
                     ELSE Append(images, contents)
        /\ local' = local \cup {i}
        /\ tag' = [tag EXCEPT ![t] = i]
  BY DEF LoadImage
<1>3. i \in local' /\ tag' = [tag EXCEPT ![t] = i] /\ local \subseteq local'
  BY <1>2
<1>4. CASE i \in DOMAIN images
  <2>1. images' = images /\ local' \subseteq DOMAIN images
    BY <1>1, <1>2, <1>4
  <2> QED BY <1>1, <1>3, <2>1 DEF ImagesKept
<1>5. CASE i \notin DOMAIN images
  <2>1. i = Len(images) + 1 /\ i \in Ids /\ images' = Append(images, contents)
    BY <1>2, <1>5
  <2>2. /\ Len(images') = Len(images) + 1
        /\ images' \in Seq(Any)
        /\ \A k \in 1 .. Len(images) : images'[k] = images[k]
    BY <1>1, <2>1, AppendProperties
  <2>3. DOMAIN images' = 1 .. Len(images) + 1
    BY <1>1, <2>2, LenProperties
  <2>4. ImagesKept /\ Len(images') <= MaxImages
    BY <1>1, <2>1, <2>2, <2>3, ImageBuildAssumption DEF ImagesKept, Ids
  <2>5. contents \in Images => images' \in Seq(Images)
    BY <1>1, <2>1, AppendProperties
  <2>6. local' \subseteq DOMAIN images'
    BY <1>1, <1>2, <2>1, <2>3
  <2> QED BY <1>3, <2>4, <2>5, <2>6
<1> QED BY <1>4, <1>5

\* Removing an image or a tag leaves the tags of images that are still there.
LEMMA DropKeeps ==
  ASSUME TypeOK, NEW i, Drop(i)
  PROVE  /\ local' \subseteq local /\ tag' \in [Tags -> OrNone(local')]
         /\ \A t \in Tags : tag'[t] \in {tag[t], None}
BY DEF TypeOK, Drop, OrNone

LEMMA RemoveTagKeeps ==
  ASSUME TypeOK, NEW t \in Tags, RemoveTag(t)
  PROVE  /\ local' \subseteq local /\ tag' \in [Tags -> OrNone(local')]
         /\ tag'[t] = None
BY DEF TypeOK, RemoveTag, TagsOf, OrNone

LEMMA ForwardNext == TypeOK /\ [Next]_vars => Forward
<1> USE DEF Forward, ImagesKept, sourceVars, storeVars, evidence, registry, failures
<1> SUFFICES ASSUME TypeOK, [Next]_vars PROVE Forward
  OBVIOUS
<1>1. runs \in Nat /\ DOMAIN pushed = Kinds /\ DOMAIN release = Kinds
      /\ tree \in Versions
  BY PublicationAssumption DEF TypeOK
<1>2. CASE UNCHANGED <<images, context, qualified, runs, stray, public, pushed, release>>
  BY <1>1, <1>2
<1>3. CASE BuildOrEdit
  <2>1. UNCHANGED <<qualified, runs, stray, public, pushed, release>>
    BY <1>3 DEF BuildOrEdit
  <2>2. CASE Edit \/ Commit
    BY <1>1, <2>1, <2>2 DEF Edit, Commit
  <2>3. ASSUME NEW w, BuildNext(w, {}, {}) PROVE Forward
    <3>1. CASE BaseLoad(w) \/ TorchLoad(w)
      <4>1. ImagesKept
        BY <3>1, LoadKeeps DEF BaseLoad, TorchLoad, Load
      <4> QED BY <1>1, <2>1, <3>1, <4>1 DEF BaseLoad, TorchLoad
    <3>2. CASE TorchStart(w)
      BY <1>1, <2>1, <3>2 DEF TorchStart, ProfileContext, Locks
    <3>3. CASE UNCHANGED <<images, context>>
      BY <1>1, <2>1, <3>3
    <3> QED BY <2>3, <3>1, <3>2, <3>3
        DEF BuildNext, BaseStart, BaseRead, BaseLoaded, TorchRead, TorchLoaded,
            BuildReturns, PruneStart, PruneSelect, PruneRemove, PruneDone, BuildFails
  <2> QED BY <1>3, <2>2, <2>3 DEF BuildOrEdit
<1>4. ASSUME NEW w, Qualification(w) PROVE Forward
  <2>1. CASE QualifyStart(w)
    BY <1>2, <2>1 DEF QualifyStart
  <2>2. ASSUME NEW passed, QualifyReport(w, passed) PROVE Forward
    BY <1>1, <2>2 DEF QualifyReport
  <2> QED BY <1>4, <2>1, <2>2 DEF Qualification
<1>5. ASSUME NEW w, GpuRelease(w) PROVE Forward
  BY <1>1, <1>5 DEF GpuRelease, ReleaseStart, ReleaseVerify, ReleaseTag, ReleaseCheck,
     ReleaseUnchecked, ReleaseSbom, ReleaseRecord, ReleaseFails, ReleaseRollback,
     RollbackFails, ReleaseKilled, Leave
<1>6. ASSUME NEW w, Publish(w) PROVE Forward
  <2>1. CASE PublishPush(w)
    <3> DEFINE k == job[w].kind
               i == tag[GhcrTag[k]]
    <3>1. /\ i # None
          /\ pushed' = [pushed EXCEPT ![k] = @ \cup {i}]
          /\ release' = [release EXCEPT ![k] = i]
          /\ UNCHANGED <<images, context, qualified, runs, stray, public>>
      BY SMTT(30), <2>1 DEF PublishPush
    <3> HIDE DEF k, i
    <3> QED BY <1>1, <3>1
  <2>2. CASE \/ PublishStart(w) \/ PublishTag(w) \/ PublishObserve(w) \/ PublishWrite(w)
             \/ StableStart(w) \/ AnonymousVerify(w) \/ StableWrite(w) \/ PublishFails(w)
    BY <1>2, <2>2 DEF PublishStart, PublishTag, PublishObserve, PublishWrite, StableStart,
       AnonymousVerify, StableWrite, PublishFails
  <2> QED BY <1>6, <2>1, <2>2 DEF Publish
<1>7. ASSUME NEW k, MakePublic(k) PROVE Forward
  BY <1>1, <1>7 DEF MakePublic, buildVars
<1> QED BY <1>2, <1>3, <1>4, <1>5, <1>6, <1>7 DEF Next, vars, buildVars

(***************************************************************************)
(* Type correctness.                                                       *)
(***************************************************************************)

LEMMA TagsNameIds ==
  ASSUME TypeOK
  PROVE  /\ DOMAIN images \subseteq Ids /\ local \subseteq DOMAIN images
         /\ \A t \in Tags : tag[t] # None => tag[t] \in local
<1>1. DOMAIN images = 1 .. Len(images) /\ Len(images) \in Nat /\ Len(images) <= MaxImages
  BY LenProperties DEF TypeOK
<1> QED BY <1>1, ImageBuildAssumption DEF TypeOK, Ids, OrNone

LEMMA IdleFields ==
  /\ DOMAIN IdleJob = Fields /\ IdleJob.pc = "idle"
BY DEF IdleJob, Fields

LEMMA IdleTyped ==
  ASSUME NEW w, job'[w] = IdleJob
  PROVE  CommandTyped(w)'
BY IdleFields DEF CommandTyped, ReleasePcs, Undoable, PublishPcs, StablePcs

\* A step of one command leaves what the others carry well typed.
LEMMA OtherCommands ==
  ASSUME JobTyped, Forward, context' \in OrNone(Locks),
         report' # None => report'.run \in 1 .. runs',
         NEW w \in Workers, NEW j, job' = [job EXCEPT ![w] = j], CommandTyped(w)'
  PROVE  JobTyped'
<1>1. DOMAIN job' = Workers
  BY DEF JobTyped
<1>2. ASSUME NEW v \in Workers \ {w} PROVE CommandTyped(v)'
  <2>1. job'[v] = job[v] /\ CommandTyped(v)
    BY DEF JobTyped
  <2>2. DOMAIN images \subseteq DOMAIN images'
    BY DEF Forward, ImagesKept
  <2>3. \A k \in Kinds : release[k] # None => release'[k] # None
    BY DEF Forward
  <2> QED BY <2>1, <2>2, <2>3
      DEF CommandTyped, Forward, OrNone, ReleasePcs, Undoable, PublishPcs, StablePcs
<1> QED BY <1>1, <1>2 DEF JobTyped

\* All commands go on with what they carry when nothing they name changes.
LEMMA TypeIdleStep ==
  ASSUME JobTyped, Forward, context' \in OrNone(Locks), UNCHANGED job,
         report' # None => report'.run \in 1 .. runs'
  PROVE  JobTyped'
<1>1. ASSUME NEW v \in Workers PROVE CommandTyped(v)'
  <2>1. job'[v] = job[v] /\ CommandTyped(v)
    BY DEF JobTyped
  <2>2. DOMAIN images \subseteq DOMAIN images'
    BY DEF Forward, ImagesKept
  <2>3. \A k \in Kinds : release[k] # None => release'[k] # None
    BY DEF Forward
  <2> QED BY <2>1, <2>2, <2>3
      DEF CommandTyped, Forward, OrNone, ReleasePcs, Undoable, PublishPcs, StablePcs
<1> QED BY <1>1 DEF JobTyped

LEMMA TypeInit == Init => TypeInv
<1> SUFFICES ASSUME Init PROVE TypeInv
  OBVIOUS
<1> USE ImageBuildAssumption, PublicationAssumption
<1>1. TypeOK
  <2>1. images = <<>> /\ images \in Seq(Images) /\ Len(images) = 0
    BY EmptySeq DEF Init, BuildInit
  <2> QED BY <2>1 DEF Init, BuildInit, TypeOK, OrNone, Tags, BuildTags, Kinds
<1>2. JobTyped
  BY IdleFields DEF Init, BuildInit, JobTyped, CommandTyped, OrNone, ReleasePcs, Undoable,
                    PublishPcs, StablePcs
<1> QED BY <1>1, <1>2 DEF TypeInv

\* A build that loads an image leaves the store typed.
LEMMA LoadTyped ==
  ASSUME TypeOK, NEW t \in BuildTags, NEW i \in local', ImagesKept,
         images' \in Seq(Images), Len(images') <= MaxImages,
         local \subseteq local', local' \subseteq DOMAIN images',
         tag' = [tag EXCEPT ![t] = i], metadata' = [metadata EXCEPT ![t] = tag'[t]],
         UNCHANGED <<tree, head, evidence, registry, observed, manifest, failures>>
  PROVE  TypeOK'
<1> USE DEF OrNone
<1>1. t \in Tags /\ DOMAIN images \subseteq DOMAIN images'
  BY DEF Tags, ImagesKept
<1>2. tag' \in [Tags -> OrNone(local')]
  BY <1>1 DEF TypeOK
<1>3. metadata' \in [BuildTags -> OrNone(DOMAIN images')]
  <2>1. tag'[t] = i
    BY <1>1 DEF TypeOK
  <2> QED BY <1>1, <2>1 DEF TypeOK
<1>4. pushed' \in [Kinds -> SUBSET DOMAIN images'] /\ qualified' \subseteq DOMAIN images'
      /\ stray' \subseteq DOMAIN images'
  BY <1>1 DEF TypeOK, evidence, registry, failures
<1>5. /\ tree' \in Versions /\ head' \in Versions
      /\ report' \in OrNone(Report) /\ runs' \in 0 .. MaxRuns
      /\ sboms' \subseteq 1 .. runs' /\ records' \in [1 .. MaxRuns -> OrNone(Record)]
      /\ observed' \in OrNone(Published) /\ manifest' \in OrNone(Published)
      /\ faults' \in 0 .. MaxFaults
  BY DEF TypeOK, evidence, registry, failures
<1>6. /\ DOMAIN release' = Kinds /\ \A k \in Kinds : release'[k] \in OrNone(pushed'[k])
      /\ public' \subseteq Kinds
  BY DEF TypeOK, evidence, registry
<1> QED BY <1>2, <1>3, <1>4, <1>5, <1>6 DEF TypeOK

\* The commands of ImageBuild.
LEMMA TypeBuild ==
  ASSUME TypeInv, Forward, NEW w \in Workers, BuildNext(w, {}, {}),
         UNCHANGED <<evidence, registry, observed, manifest, failures>>
  PROVE  TypeInv'
<1> USE DEF sourceVars, storeVars, evidence, registry, failures, At, Begin, Continue, OrNone
<1> DEFINE j == job[w]
<1>0. TypeOK /\ JobTyped /\ CommandTyped(w) /\ DOMAIN job = Workers
  BY DEF TypeInv, JobTyped
<1>1. ASSUME UNCHANGED <<sourceVars, storeVars, metadata, context>>,
             NEW k, Continue(w, k), CommandTyped(w)'
      PROVE  TypeInv'
  BY <1>0, <1>1, OtherCommands DEF TypeInv, TypeOK, JobTyped
<1>2. CASE BaseStart(w)
  <2>1. CommandTyped(w)'
    BY <1>0, <1>2, IdleFields
    DEF BaseStart, CommandTyped, Fields, TypeOK, ReleasePcs, Undoable, PublishPcs, StablePcs
  <2>2. TypeOK'
    BY <1>0, <1>2 DEF BaseStart, TypeOK
  <2> QED BY <1>0, <1>2, <2>1, <2>2, OtherCommands DEF BaseStart, TypeInv, JobTyped
<1>3. CASE BaseRead(w) \/ TorchRead(w)
  <2>1. LockOf[tree] \in Locks
    BY <1>0 DEF TypeOK, Locks
  <2>2. CASE BaseRead(w)
    <3>1. CommandTyped(w)'
      BY <1>0, <2>1, <2>2 DEF BaseRead, CommandTyped, Fields, ReleasePcs, Undoable, PublishPcs,
         StablePcs
    <3> QED BY <1>1, <2>2, <3>1 DEF BaseRead
  <2>3. CASE TorchRead(w)
    <3>1. CommandTyped(w)'
      BY <1>0, <2>3 DEF TorchRead, CommandTyped, Fields, ReleasePcs, Undoable, PublishPcs,
         StablePcs
    <3> QED BY <1>1, <2>3, <3>1 DEF TorchRead
  <2> QED BY <1>3, <2>2, <2>3
<1>10. CASE BaseLoad(w)
  <2>1. BaseImage(j) \in Images
    BY <1>0, <1>10 DEF BaseLoad, CommandTyped, BaseImage, Images, BuildTags
  <2>2. TypeOK'
    <3>1. LoadImage("base", BaseImage(j)) /\ metadata' = [metadata EXCEPT !["base"] = tag'["base"]]
      BY <1>10 DEF BaseLoad, Load
    <3>2. /\ images' \in Seq(Images) /\ Len(images') <= MaxImages
          /\ local \subseteq local' /\ local' \subseteq DOMAIN images' /\ ImagesKept
          /\ \E i \in local' : tag' = [tag EXCEPT !["base"] = i]
      BY <1>0, <2>1, <3>1, LoadKeeps
    <3>3. "base" \in BuildTags /\ UNCHANGED <<tree, head>>
      BY <1>10 DEF BaseLoad, BuildTags
    <3> QED BY <1>0, <3>1, <3>2, <3>3, LoadTyped
  <2>3. CommandTyped(w)'
    BY <1>0, <1>10 DEF BaseLoad, CommandTyped, Fields, ReleasePcs, Undoable, PublishPcs,
       StablePcs
  <2> QED BY <1>0, <1>10, <2>2, <2>3, OtherCommands DEF BaseLoad, TypeInv, JobTyped
<1>4. CASE TorchStart(w)
  <2>1. tag["base"] \in Ids /\ LockOf[tree] \in Locks
    BY <1>0, <1>4, TagsNameIds DEF TorchStart, TypeOK, Tags, BuildTags, Locks
  <2>2. CommandTyped(w)'
    BY <1>0, <1>4, <2>1, IdleFields
    DEF TorchStart, ProfileContext, CommandTyped, Fields, TypeOK, ReleasePcs, Undoable,
        PublishPcs, StablePcs
  <2>3. TypeOK'
    BY <1>0, <1>4 DEF TorchStart, TypeOK
  <2> QED BY <1>0, <1>4, <2>1, <2>2, <2>3, OtherCommands
      DEF TorchStart, ProfileContext, TypeInv, JobTyped
<1>5. CASE TorchLoad(w)
  <2>1. TorchImage(j) \in Images
    BY <1>0, <1>5 DEF TorchLoad, CommandTyped, TorchImage, Images, BuildTags
  <2>2. TypeOK'
    <3>1. LoadImage("torch", TorchImage(j)) /\ metadata' = [metadata EXCEPT !["torch"] = tag'["torch"]]
      BY <1>5 DEF TorchLoad, Load
    <3>2. /\ images' \in Seq(Images) /\ Len(images') <= MaxImages
          /\ local \subseteq local' /\ local' \subseteq DOMAIN images' /\ ImagesKept
          /\ \E i \in local' : tag' = [tag EXCEPT !["torch"] = i]
      BY <1>0, <2>1, <3>1, LoadKeeps
    <3>3. "torch" \in BuildTags /\ UNCHANGED <<tree, head>>
      BY <1>5 DEF TorchLoad, BuildTags
    <3> QED BY <1>0, <3>1, <3>2, <3>3, LoadTyped
  <2>3. CommandTyped(w)'
    BY <1>0, <1>5 DEF TorchLoad, CommandTyped, Fields, ReleasePcs, Undoable, PublishPcs,
       StablePcs
  <2> QED BY <1>0, <1>5, <2>2, <2>3, OtherCommands DEF TorchLoad, TypeInv, JobTyped
<1>6. CASE BaseLoaded(w) \/ TorchLoaded(w) \/ PruneSelect(w, {})
  <2>1. CommandTyped(w)'
    <3>1. /\ DOMAIN job'[w] = Fields
          /\ job'[w].pc \in {"base_built", "torch_built", "prune_remove"}
      BY ZenonT(60), <1>0, <1>6
      DEF BaseLoaded, TorchLoaded, PruneSelect, CommandTyped, Fields
    <3> QED BY <3>1 DEF CommandTyped, ReleasePcs, Undoable, PublishPcs, StablePcs
  <2> QED BY <1>1, <1>6, <2>1 DEF BaseLoaded, TorchLoaded, PruneSelect
<1>7. CASE BuildReturns(w) \/ PruneDone(w) \/ BuildFails(w)
  <2>1. job'[w] = IdleJob
    BY <1>0, <1>7 DEF BuildReturns, PruneDone, BuildFails
  <2> QED BY <1>1, <1>7, <2>1, IdleTyped DEF BuildReturns, PruneDone, BuildFails
<1>8. CASE PruneStart(w, {})
  <2>1. CommandTyped(w)'
    BY <1>0, <1>8, IdleFields DEF PruneStart, CommandTyped, Fields, ReleasePcs, Undoable,
       PublishPcs, StablePcs
  <2> QED BY <1>1, <1>8, <2>1 DEF PruneStart
<1>9. CASE PruneRemove(w, {})
  <2>1. CommandTyped(w)'
    BY <1>0, <1>9 DEF PruneRemove, CommandTyped, Fields, ReleasePcs, Undoable, PublishPcs,
       StablePcs
  <2>2. TypeOK'
    BY <1>0, <1>9, DropKeeps DEF PruneRemove, RemoveById, TypeOK
  <2> QED BY <1>0, <1>9, <2>1, <2>2, OtherCommands DEF PruneRemove, TypeInv, JobTyped
<1> QED BY <1>2, <1>3, <1>4, <1>5, <1>6, <1>7, <1>8, <1>9, <1>10 DEF BuildNext

\* The qualification and release commands.
LEMMA TypeRelease ==
  ASSUME TypeInv, Forward, NEW w \in Maintainers, Qualification(w) \/ GpuRelease(w)
  PROVE  TypeInv'
<1> USE DEF sourceVars, storeVars, evidence, registry, failures, At, Begin, Continue, OrNone
<1> DEFINE j == job[w]
<1>0. /\ TypeOK /\ JobTyped /\ CommandTyped(w) /\ DOMAIN job = Workers /\ w \in Workers
      /\ DOMAIN images \subseteq DOMAIN images'
  BY PublicationAssumption DEF TypeInv, JobTyped, Forward, ImagesKept
<1>1. ASSUME UNCHANGED <<sourceVars, storeVars, metadata, context,
                         evidence, registry, observed, manifest, failures>>,
             NEW k, Continue(w, k), CommandTyped(w)'
      PROVE  TypeInv'
  BY <1>0, <1>1, OtherCommands DEF TypeInv, TypeOK, JobTyped
<1>2. faults \in 0 .. MaxFaults /\ stray \subseteq DOMAIN images
  BY <1>0 DEF TypeOK
<1>3. CASE QualifyStart(w)
  <2>1. tag["torch"] \in DOMAIN images /\ LockOf[tree] \in Locks
    BY <1>0, <1>3, TagsNameIds DEF QualifyStart, TypeOK, Tags, BuildTags, Locks
  <2>2. CommandTyped(w)'
    BY <1>0, <1>3, <2>1, IdleFields DEF QualifyStart, CommandTyped, Fields, ReleasePcs,
       Undoable, PublishPcs, StablePcs
  <2> QED BY <1>1, <1>2, <1>3, <2>2 DEF QualifyStart
<1>4. ASSUME NEW passed \in BOOLEAN, QualifyReport(w, passed) PROVE TypeInv'
  <2>1. CommandTyped(w)'
    BY <1>0, <1>4, IdleTyped DEF QualifyReport
  <2>3. runs \in 0 .. MaxRuns /\ MaxRuns \in Nat /\ runs < MaxRuns /\ runs' = runs + 1
    BY <1>0, <1>4, PublicationAssumption DEF QualifyReport, TypeOK
  <2>2. JobTyped'
    <3>1. report'.run \in 1 .. runs'
      BY <1>4, <2>3 DEF QualifyReport
    <3> QED BY <1>0, <1>4, <2>1, <3>1, OtherCommands DEF QualifyReport, JobTyped
  <2>4. report' \in Report
    BY <1>0, <1>4, <2>3, TagsNameIds DEF QualifyReport, CommandTyped, Report
  <2>5. sboms' \subseteq 1 .. runs'
    BY <1>0, <1>4, <2>3 DEF QualifyReport, TypeOK
  <2>6. qualified' \subseteq DOMAIN images
    BY <1>0, <1>4 DEF QualifyReport, CommandTyped, TypeOK
  <2>7. TypeOK'
    BY <1>0, <1>4, <2>3, <2>4, <2>5, <2>6 DEF QualifyReport, TypeOK
  <2> QED BY <2>2, <2>7 DEF TypeInv
<1>5. CASE ReleaseStart(w)
  <2>1. tag["torch"] \in DOMAIN images /\ report \in Report
    BY <1>0, <1>5, TagsNameIds DEF ReleaseStart, TypeOK, Tags, BuildTags
  <2>2. CommandTyped(w)'
    <3>1. /\ DOMAIN job'[w] = Fields /\ job'[w].pc = "release" /\ UNCHANGED <<runs, images>>
          /\ job'[w].run = report /\ job'[w].torch = tag["torch"] /\ report.run \in 1 .. runs
      BY <1>0, <1>5, IdleFields DEF ReleaseStart, Fields, JobTyped
    <3> QED BY <2>1, <3>1 DEF CommandTyped, ReleasePcs, Undoable, PublishPcs, StablePcs
  <2> QED BY <1>1, <1>2, <1>5, <2>2 DEF ReleaseStart
<1>6. CASE ReleaseVerify(w)
  <2>1. CommandTyped(w)'
    BY <1>0, <1>6 DEF ReleaseVerify, CommandTyped, TypeOK, Fields, ReleasePcs, Undoable,
       PublishPcs, StablePcs
  <2> QED BY <1>1, <1>2, <1>6, <2>1 DEF ReleaseVerify
<1>7. CASE ReleaseTag(w)
  <2>1. tag["verified"] \in {None} \cup DOMAIN images
    BY <1>0, TagsNameIds DEF Tags
  <2>2. CommandTyped(w)'
    BY <1>0, <1>7, <2>1 DEF ReleaseTag, CommandTyped, Fields, ReleasePcs, Undoable,
       PublishPcs, StablePcs
  <2>3. TypeOK'
    BY <1>0, <1>7 DEF ReleaseTag, TypeOK
  <2> QED BY <1>0, <1>7, <2>2, <2>3, OtherCommands DEF ReleaseTag, TypeInv, JobTyped
<1>13. CASE ReleaseCheck(w)
  <2>1. CommandTyped(w)'
    BY <1>0, <1>13 DEF ReleaseCheck, CommandTyped, Fields, ReleasePcs, Undoable,
       PublishPcs, StablePcs
  <2> QED BY <1>1, <1>13, <2>1 DEF ReleaseCheck
<1>8. CASE ReleaseSbom(w)
  <2>1. CommandTyped(w)'
    BY <1>0, <1>8 DEF ReleaseSbom, CommandTyped, Fields, ReleasePcs, Undoable,
       PublishPcs, StablePcs
  <2>2. TypeOK'
    BY <1>0, <1>8 DEF ReleaseSbom, TypeOK, CommandTyped, ReleasePcs, Undoable
  <2> QED BY <1>0, <1>8, <2>1, <2>2, OtherCommands DEF ReleaseSbom, TypeInv, JobTyped
<1>9. CASE ReleaseRecord(w)
  <2>1. [image |-> j.torch, rev |-> j.rev, report |-> j.run] \in Record
    BY <1>0, <1>9, TagsNameIds DEF ReleaseRecord, CommandTyped, Record, ReleasePcs, Undoable
  <2>2. TypeOK'
    BY <1>0, <1>9, <2>1 DEF ReleaseRecord, TypeOK
  <2>3. CommandTyped(w)'
    BY <1>0, <1>9, IdleTyped DEF ReleaseRecord
  <2> QED BY <1>0, <1>9, <2>2, <2>3, OtherCommands DEF ReleaseRecord, TypeInv, JobTyped
<1>10. CASE ReleaseFails(w)
  <2>1. CommandTyped(w)'
    BY <1>0, <1>10 DEF ReleaseFails, CommandTyped, Fields, ReleasePcs, Undoable,
       PublishPcs, StablePcs
  <2> QED BY <1>1, <1>2, <1>10, <2>1 DEF ReleaseFails
<1>11. ASSUME RestoreTag(j), images' = images
       PROVE  local' \subseteq DOMAIN images' /\ tag' \in [Tags -> OrNone(local')]
  <2>1. CASE UNCHANGED <<local, tag>>
    BY <1>0, <1>11, <2>1 DEF TypeOK
  <2>2. CASE RemoveTag("verified")
    BY <1>0, <1>11, <2>2, RemoveTagKeeps DEF TypeOK, Tags
  <2>3. CASE j.prev \in local /\ tag' = [tag EXCEPT !["verified"] = j.prev]
             /\ UNCHANGED local
    BY <1>0, <1>11, <2>3 DEF TypeOK
  <2> QED BY <1>11, <2>1, <2>2, <2>3 DEF RestoreTag
<1>12. CASE ReleaseRollback(w)
  <2>1. TypeOK'
    BY <1>0, <1>11, <1>12 DEF ReleaseRollback, TypeOK
  <2>2. CommandTyped(w)'
    BY <1>0, <1>12, IdleTyped DEF ReleaseRollback
  <2> QED BY <1>0, <1>12, <2>1, <2>2, OtherCommands DEF ReleaseRollback, TypeInv, JobTyped
<1>14. ASSUME Leave(w), job[w].pc \in Undoable,
              UNCHANGED <<sourceVars, images, metadata, context, evidence, registry,
                          observed, manifest>>,
              UNCHANGED faults \/ Fault,
              UNCHANGED <<local, tag>> \/ RestoreTag(j)
       PROVE  TypeInv'
  <2>1. local' \subseteq DOMAIN images' /\ tag' \in [Tags -> OrNone(local')]
    BY <1>0, <1>11, <1>14 DEF TypeOK
  <2>2. faults' \in 0 .. MaxFaults
    BY <1>2, <1>14, PublicationAssumption DEF Fault
  <2>3. stray' \subseteq DOMAIN images'
    BY <1>0, <1>2, <1>14 DEF Leave, CommandTyped, ReleasePcs
  <2>4. TypeOK'
    BY <1>0, <1>14, <2>1, <2>2, <2>3 DEF TypeOK
  <2>5. job' = [job EXCEPT ![w] = IdleJob] /\ CommandTyped(w)'
    BY <1>0, <1>14, IdleTyped DEF Leave
  <2> QED BY <1>0, <1>14, <2>4, <2>5, OtherCommands DEF TypeInv, JobTyped
<1>15. CASE ReleaseUnchecked(w) \/ RollbackFails(w) \/ ReleaseKilled(w)
  BY <1>14, <1>15 DEF ReleaseUnchecked, RollbackFails, ReleaseKilled, TagWindow, Undoable
<1> QED BY <1>3, <1>4, <1>5, <1>6, <1>7, <1>8, <1>9, <1>10, <1>12, <1>13, <1>15
        DEF Qualification, GpuRelease

\* The commands that push, and the stable manifest.
LEMMA TypePublish ==
  ASSUME TypeInv, Forward, NEW w \in Maintainers, Publish(w)
  PROVE  TypeInv'
<1> USE DEF sourceVars, storeVars, evidence, registry, failures, At, Begin, Continue, OrNone
<1> DEFINE j == job[w]
<1>0. /\ TypeOK /\ JobTyped /\ CommandTyped(w) /\ DOMAIN job = Workers /\ w \in Workers
      /\ DOMAIN images \subseteq DOMAIN images' /\ MaxRuns \in Nat
  BY PublicationAssumption DEF TypeInv, JobTyped, Forward, ImagesKept
<1>1. ASSUME UNCHANGED <<sourceVars, storeVars, metadata, context,
                         evidence, registry, failures>>,
             observed' \in OrNone(Published), manifest' \in OrNone(Published),
             NEW k, Continue(w, k), CommandTyped(w)'
      PROVE  TypeInv'
  BY <1>0, <1>1, OtherCommands DEF TypeInv, TypeOK, JobTyped
<1>2. observed \in OrNone(Published) /\ manifest \in OrNone(Published)
  BY <1>0 DEF TypeOK
<1>3. CASE PublishStart(w) \/ StableStart(w)
  <2>1. {tag["base"], tag["torch"]} \subseteq DOMAIN images
    BY <1>0, <1>3, TagsNameIds DEF PublishStart, StableStart, Candidate
  <2>2. head \in Versions /\ (observed # None => observed.run \in 1 .. MaxRuns)
        /\ 1 .. runs \subseteq 1 .. MaxRuns
    BY SMTT(30), <1>0 DEF TypeOK, Published
  <2>3. PICK r \in 1 .. MaxRuns, pc \in {"pub_tag", "anonymous"} :
          job' = [job EXCEPT ![w] = [IdleJob EXCEPT !.pc = pc, !.kind = "base",
                    !.rev = head, !.run = r, !.base = tag["base"], !.torch = tag["torch"]]]
    BY <1>3, <2>2 DEF PublishStart, StableStart
  <2>4. CommandTyped(w)'
    <3>1. /\ DOMAIN job'[w] = Fields /\ job'[w].pc \in {"pub_tag", "anonymous"}
          /\ job'[w].rev \in Versions /\ job'[w].run \in 1 .. MaxRuns
          /\ job'[w].kind \in Kinds
          /\ {job'[w].base, job'[w].torch} \subseteq DOMAIN images
      BY <1>0, <2>1, <2>2, <2>3, IdleFields DEF Fields, Kinds
    <3>2. DOMAIN images' = DOMAIN images
      BY <1>3 DEF PublishStart, StableStart
    <3> QED BY <3>1, <3>2 DEF CommandTyped, ReleasePcs, Undoable, PublishPcs, StablePcs
  <2> QED BY <1>1, <1>2, <1>3, <2>3, <2>4 DEF PublishStart, StableStart
<1>4. CASE PublishTag(w)
  <2>1. CommandTyped(w)'
    BY <1>0, <1>4 DEF PublishTag, CommandTyped, Fields, ReleasePcs, Undoable, PublishPcs,
       StablePcs
  <2>2. TypeOK'
    BY <1>0, <1>4 DEF PublishTag, TypeOK
  <2> QED BY <1>0, <1>4, <2>1, <2>2, OtherCommands DEF PublishTag, TypeInv, JobTyped
<1>5. CASE PublishPush(w)
  <2> DEFINE i == tag[GhcrTag[j.kind]]
  <2>1. j.kind \in Kinds
    BY <1>0, <1>5 DEF PublishPush, CommandTyped, PublishPcs
  <2>2. i # None /\ i \in DOMAIN images
    BY <1>0, <1>5, <2>1, TagsNameIds DEF PublishPush, Kinds, GhcrTag, Tags
  <2>3. /\ pushed' = [pushed EXCEPT ![j.kind] = @ \cup {i}]
        /\ release' = [release EXCEPT ![j.kind] = i]
        /\ job' = [job EXCEPT ![w] = [job[w] EXCEPT !.pc = "pub_observe"]]
        /\ UNCHANGED <<sourceVars, storeVars, metadata, context, evidence, public,
                       observed, manifest, failures>>
    BY <1>5 DEF PublishPush
  <2> HIDE DEF i
  <2>4. CommandTyped(w)'
    BY <1>0, <1>5, <2>1, <2>2, <2>3 DEF PublishPush, CommandTyped, TypeOK, Fields,
       ReleasePcs, Undoable, PublishPcs, StablePcs
  <2>5. TypeOK'
    BY <1>0, <2>1, <2>2, <2>3 DEF TypeOK
  <2> QED BY <1>0, <2>3, <2>4, <2>5, OtherCommands DEF TypeInv, JobTyped
<1>6. CASE PublishObserve(w)
  <2> DEFINE i == release[j.kind]
  <2>1. j.kind \in Kinds /\ i # None
    BY <1>0, <1>6 DEF PublishObserve, CommandTyped, PublishPcs
  <2>2. i \in DOMAIN images /\ GhcrTag[j.kind] \in Tags
    BY <1>0, <2>1 DEF TypeOK, GhcrTag, Kinds, Tags
  <2>3. /\ tag' = [tag EXCEPT ![GhcrTag[j.kind]] = i]
        /\ local' = local \cup {i}
        /\ \/ job' = [job EXCEPT ![w] = IdleJob]
           \/ job' = [job EXCEPT ![w] = [job[w] EXCEPT !.pc = "pub_tag", !.kind = "torch"]]
           \/ job' = [job EXCEPT ![w] = [job[w] EXCEPT !.pc = "pub_write"]]
        /\ UNCHANGED <<sourceVars, images, metadata, context,
                       evidence, registry, observed, manifest, failures>>
    <3>1. /\ tag' = [tag EXCEPT ![GhcrTag[j.kind]] = i] /\ local' = local \cup {i}
          /\ Continue(w, IF ~MatchesCandidate(i, job[w]) THEN IdleJob
                         ELSE IF j.kind = "base"
                         THEN [job[w] EXCEPT !.pc = "pub_tag", !.kind = "torch"]
                         ELSE [job[w] EXCEPT !.pc = "pub_write"])
          /\ UNCHANGED <<sourceVars, images, metadata, context,
                         evidence, registry, observed, manifest, failures>>
      BY <1>6 DEF PublishObserve
    <3> QED BY <3>1
  <2> HIDE DEF i
  <2>4. CommandTyped(w)'
    BY <1>0, <1>6, <2>1, <2>3, IdleFields DEF PublishObserve, CommandTyped, Fields,
       ReleasePcs, Undoable, PublishPcs, StablePcs, Kinds
  <2>5. TypeOK'
    BY <1>0, <2>2, <2>3 DEF TypeOK
  <2> QED BY <1>0, <2>3, <2>4, <2>5, OtherCommands DEF TypeInv, JobTyped
<1>7. CASE PublishWrite(w) \/ StableWrite(w)
  <2>1. Release(j) \in Published
    BY <1>0, <1>7, TagsNameIds DEF PublishWrite, StableWrite, CommandTyped, Release,
       Published, PublishPcs, StablePcs
  <2>2. CommandTyped(w)'
    BY <1>0, <1>7, IdleTyped DEF PublishWrite, StableWrite
  <2> QED BY <1>1, <1>2, <1>7, <2>1, <2>2 DEF PublishWrite, StableWrite
<1>8. CASE AnonymousVerify(w)
  <2> DEFINE i == ImageOf(j)
  <2>1. /\ i \in DOMAIN images /\ local' = local \cup {i}
        /\ \/ job' = [job EXCEPT ![w] = [job[w] EXCEPT !.kind = "torch"]]
           \/ job' = [job EXCEPT ![w] = [job[w] EXCEPT !.pc = "stable_write"]]
        /\ UNCHANGED <<sourceVars, images, tag, metadata, context,
                       evidence, registry, observed, manifest, failures>>
    BY <1>0, <1>8 DEF AnonymousVerify, CommandTyped, ImageOf, PublishPcs, StablePcs
  <2> HIDE DEF i
  <2>2. CommandTyped(w)'
    BY <1>0, <1>8, <2>1 DEF AnonymousVerify, CommandTyped, Fields,
       ReleasePcs, Undoable, PublishPcs, StablePcs, Kinds
  <2>3. TypeOK'
    BY <1>0, <2>1 DEF TypeOK
  <2> QED BY <1>0, <2>1, <2>2, <2>3, OtherCommands DEF TypeInv, JobTyped
<1>9. CASE PublishFails(w)
  <2>1. CommandTyped(w)'
    BY <1>0, <1>9, IdleTyped DEF PublishFails
  <2> QED BY <1>1, <1>2, <1>9, <2>1 DEF PublishFails
<1> QED BY <1>3, <1>4, <1>5, <1>6, <1>7, <1>8, <1>9 DEF Publish

LEMMA TypeNext == TypeInv /\ [Next]_vars => TypeInv'
<1> SUFFICES ASSUME TypeInv, [Next]_vars PROVE TypeInv'
  OBVIOUS
<1> USE DEF sourceVars, storeVars, evidence, registry, failures, buildVars
<1>1. Forward /\ TypeOK /\ JobTyped
  BY ForwardNext DEF TypeInv
<1>2. CASE BuildOrEdit
  <2>1. UNCHANGED <<evidence, registry, observed, manifest, failures>>
    BY <1>2 DEF BuildOrEdit
  <2>2. CASE Edit \/ Commit
    <3>1. UNCHANGED <<storeVars, metadata, context, job>>
          /\ tree' \in Versions /\ head' \in Versions
      BY <1>1, <2>2 DEF Edit, Commit, TypeOK
    <3>2. TypeOK'
      BY <1>1, <2>1, <3>1 DEF TypeOK
    <3>3. JobTyped'
      BY <1>1, <2>1, <3>1, TypeIdleStep DEF JobTyped
    <3> QED BY <3>2, <3>3 DEF TypeInv
  <2> QED BY <1>1, <1>2, <2>1, <2>2, TypeBuild DEF BuildOrEdit
<1>3. ASSUME NEW k \in Kinds, MakePublic(k) PROVE TypeInv'
  <2>1. TypeOK'
    BY <1>1, <1>3 DEF MakePublic, TypeOK
  <2>2. JobTyped'
    BY <1>1, <1>3, TypeIdleStep DEF MakePublic, JobTyped
  <2> QED BY <2>1, <2>2 DEF TypeInv
<1>4. CASE UNCHANGED vars
  <2>1. TypeOK'
    BY <1>1, <1>4 DEF vars, TypeOK
  <2>2. JobTyped'
    BY <1>1, <1>4, TypeIdleStep DEF vars, JobTyped
  <2> QED BY <2>1, <2>2 DEF TypeInv
<1> QED BY <1>1, <1>2, <1>3, <1>4, TypeRelease, TypePublish DEF Next

\* Every variable keeps its type, and every tag, pushed manifest, report and
\* record names an image that was made, however the commands interleave.
THEOREM TypeCorrect == Spec => []TypeOK
<1>1. Spec => []TypeInv
  BY TypeInit, TypeNext, PTL DEF Spec
<1> QED BY <1>1, PTL DEF TypeInv

(***************************************************************************)
(* The evidence.                                                           *)
(***************************************************************************)

\* A step of one command.
Alone(w) == /\ DOMAIN job = Workers /\ DOMAIN job' = Workers
            /\ \A v \in Workers \ {w} : job'[v] = job[v]

\* Builds neither release nor publish, and do not move the verified tag.
LEMMA BuildSteps ==
  ASSUME TypeInv, NEW w, BuildNext(w, {}, {})
  PROVE  /\ w \in Workers /\ Alone(w)
         /\ job'[w].pc \in {"idle"} \cup BuildPcs
         /\ tag'["verified"] \in {tag["verified"], None}
<1> USE DEF storeVars, Begin, Continue, Alone, BuildPcs
<1>0. /\ TypeOK /\ w \in Workers /\ DOMAIN job = Workers /\ DOMAIN job[w] = Fields
      /\ DOMAIN tag = Tags /\ "verified" \in Tags
  BY ImageBuildAssumption DEF BuildNext, TypeInv, JobTyped, TypeOK, Tags, CommandTyped
<1>1. CASE BaseLoad(w) \/ TorchLoad(w)
  <2>1. \E t \in {"base", "torch"} : \E i : tag' = [tag EXCEPT ![t] = i]
    BY <1>1 DEF BaseLoad, TorchLoad, Load, LoadImage
  <2>2. Alone(w) /\ job'[w].pc \in BuildPcs
    BY <1>0, <1>1 DEF BaseLoad, TorchLoad, Fields
  <2> QED BY <1>0, <2>1, <2>2
<1>2. CASE BaseStart(w) \/ TorchStart(w) \/ PruneStart(w, {})
  BY ZenonT(60), <1>0, <1>2, IdleFields DEF BaseStart, TorchStart, PruneStart, Fields
<1>3. CASE BaseRead(w) \/ BaseLoaded(w) \/ TorchRead(w) \/ TorchLoaded(w) \/ PruneSelect(w, {})
  BY ZenonT(60), <1>0, <1>3
  DEF BaseRead, BaseLoaded, TorchRead, TorchLoaded, PruneSelect, Fields
<1>4. CASE BuildReturns(w) \/ PruneDone(w) \/ BuildFails(w)
  BY <1>0, <1>4, IdleFields DEF BuildReturns, PruneDone, BuildFails
<1>5. CASE PruneRemove(w, {})
  <2>1. tag'["verified"] \in {tag["verified"], None}
    BY <1>0, <1>5, DropKeeps DEF PruneRemove, RemoveById
  <2>2. Alone(w) /\ job'[w].pc = "prune_remove"
    BY <1>0, <1>5 DEF PruneRemove, At, Fields
  <2> QED BY <1>0, <2>1, <2>2
<1> QED BY <1>0, <1>1, <1>2, <1>3, <1>4, <1>5 DEF BuildNext

\* Publishing leaves the evidence and the verified tag alone.
LEMMA PublishJobs ==
  ASSUME TypeInv, NEW w \in Maintainers, Publish(w)
  PROVE  /\ w \in Workers /\ Alone(w)
         /\ job'[w].pc \in {"idle"} \cup PublishPcs
         /\ tag'["verified"] = tag["verified"]
         /\ UNCHANGED <<report, runs, qualified, records, stray>>
<1> USE DEF evidence, registry, failures, sourceVars, storeVars, At, Begin, Continue, Alone
<1>0. /\ TypeOK /\ CommandTyped(w) /\ w \in Workers /\ DOMAIN job[w] = Fields
      /\ DOMAIN tag = Tags /\ "verified" \in Tags /\ DOMAIN job = Workers
  BY PublicationAssumption DEF TypeInv, JobTyped, TypeOK, Tags, CommandTyped
<1>1. ASSUME job[w].pc \in PublishPcs PROVE GhcrTag[job[w].kind] # "verified"
  BY <1>0, <1>1 DEF CommandTyped, Kinds, GhcrTag
<1>2. CASE PublishStart(w) \/ StableStart(w)
  BY ZenonT(60), <1>0, <1>2, IdleFields
  DEF PublishStart, StableStart, Fields, PublishPcs, StablePcs
<1>3. CASE PublishTag(w)
  BY <1>0, <1>1, <1>3 DEF PublishTag, Fields, PublishPcs, StablePcs
<1>4. CASE PublishPush(w)
  BY <1>0, <1>4 DEF PublishPush, Fields, PublishPcs, StablePcs
<1>5. CASE PublishObserve(w)
  BY <1>0, <1>1, <1>5, IdleFields DEF PublishObserve, Fields, PublishPcs, StablePcs
<1>6. CASE PublishWrite(w) \/ StableWrite(w) \/ PublishFails(w)
  BY <1>0, <1>6, IdleFields DEF PublishWrite, StableWrite, PublishFails
<1>7. CASE AnonymousVerify(w)
  BY <1>0, <1>7 DEF AnonymousVerify, Fields, PublishPcs, StablePcs
<1> QED BY <1>2, <1>3, <1>4, <1>5, <1>6, <1>7 DEF Publish

\* A release command keeps the report it began with.
LEMMA KnownStep ==
  ASSUME NEW w \in Workers, Alone(w), UNCHANGED <<report, records>>,
         job'[w].pc \in ReleasePcs => Known(job'[w].run)
  PROVE  \A a : Known(a)' => Known(a)
BY DEF Known, Alone

LEMMA ReportsStep == TypeInv /\ ReportsFiled /\ [Next]_vars => ReportsFiled'
<1> SUFFICES ASSUME TypeInv, ReportsFiled, [Next]_vars PROVE ReportsFiled'
  OBVIOUS
<1> USE DEF evidence, registry, sourceVars, storeVars, At, Begin, Continue
<1>0. TypeOK /\ JobTyped /\ Maintainers \subseteq Workers /\ runs \in Nat
  BY PublicationAssumption DEF TypeInv, TypeOK
<1>1. ASSUME UNCHANGED <<runs, qualified>>, \A a : Known(a)' => Known(a)
      PROVE  ReportsFiled'
  BY <1>1 DEF ReportsFiled
<1>2. ASSUME NEW w \in Maintainers, NEW passed \in BOOLEAN, QualifyReport(w, passed)
      PROVE  ReportsFiled'
  <2>1. ASSUME NEW a, Known(a)' PROVE Known(a) \/ a = report'
    BY <1>0, <1>2, <2>1, IdleFields DEF QualifyReport, Known, JobTyped, ReleasePcs, Undoable
  <2>2. /\ report'.run = runs + 1 /\ runs' = runs + 1
        /\ report'.passed => report'.image \in qualified'
        /\ qualified \subseteq qualified'
    BY <1>2 DEF QualifyReport
  <2>3. ASSUME NEW a \in Report, Known(a)'
        PROVE  a.run <= runs' /\ (a.passed => a.image \in qualified')
    BY <1>0, <2>1, <2>2, <2>3 DEF ReportsFiled, Report
  <2>4. ASSUME NEW a \in Report, NEW b \in Report, Known(a)', Known(b)', a.run = b.run
        PROVE  a = b
    BY <1>0, <2>1, <2>2, <2>4 DEF ReportsFiled, Report
  <2> QED BY <2>3, <2>4 DEF ReportsFiled
<1>3. CASE UNCHANGED <<report, runs, qualified, records, job>>
  BY <1>1, <1>3 DEF Known
<1>4. CASE BuildOrEdit
  <2>1. UNCHANGED <<report, runs, qualified, records>>
    BY <1>4 DEF BuildOrEdit
  <2>2. CASE Edit \/ Commit
    BY <1>3, <2>1, <2>2 DEF Edit, Commit
  <2>3. ASSUME NEW w, BuildNext(w, {}, {}) PROVE ReportsFiled'
    <3>1. w \in Workers /\ Alone(w) /\ job'[w].pc \notin ReleasePcs
      BY <2>3, BuildSteps DEF BuildPcs, ReleasePcs, Undoable
    <3> QED BY <1>1, <2>1, <3>1, KnownStep
  <2> QED BY <1>4, <2>2, <2>3 DEF BuildOrEdit
<1>5. ASSUME NEW w \in Maintainers, QualifyStart(w) PROVE ReportsFiled'
  <2>1. Alone(w) /\ job'[w].pc = "qualify"
    BY <1>0, <1>5, IdleFields DEF QualifyStart, Fields, JobTyped, Alone
  <2> QED BY <1>0, <1>1, <1>5, <2>1, KnownStep DEF QualifyStart, ReleasePcs, Undoable
<1>6. ASSUME NEW w \in Maintainers, GpuRelease(w) PROVE ReportsFiled'
  <2>0. DOMAIN job = Workers /\ w \in Workers /\ DOMAIN job[w] = Fields
    BY <1>0 DEF JobTyped, CommandTyped
  <2>1. CASE ReleaseStart(w)
    <3>1. Alone(w) /\ job'[w].run = report
      BY <2>0, <2>1, IdleFields DEF ReleaseStart, Fields, Alone
    <3> QED BY <1>0, <1>1, <2>1, <3>1, KnownStep DEF ReleaseStart, Known
  <2>2. CASE \/ ReleaseVerify(w) \/ ReleaseTag(w) \/ ReleaseCheck(w) \/ ReleaseSbom(w)
             \/ ReleaseFails(w)
    <3>1. /\ job[w].pc \in ReleasePcs
          /\ UNCHANGED <<report, runs, qualified, records>>
          /\ Alone(w) /\ job'[w].run = job[w].run
      BY <2>0, <2>2 DEF ReleaseVerify, ReleaseTag, ReleaseCheck, ReleaseSbom, ReleaseFails,
         ReleasePcs, Undoable, Fields, Alone
    <3> QED BY <1>0, <1>1, <3>1, KnownStep DEF Known
  <2>3. CASE ReleaseRollback(w) \/ ReleaseUnchecked(w) \/ RollbackFails(w) \/ ReleaseKilled(w)
    <3>1. Alone(w) /\ job'[w].pc = "idle" /\ UNCHANGED <<report, runs, qualified, records>>
      BY <2>0, <2>3, IdleFields
      DEF ReleaseRollback, ReleaseUnchecked, RollbackFails, ReleaseKilled, Leave, Alone
    <3> QED BY <1>0, <1>1, <3>1, KnownStep DEF ReleasePcs, Undoable
  <2>4. CASE ReleaseRecord(w)
    <3>1. ASSUME NEW a, Known(a)' PROVE Known(a)
      <4>1. /\ job' = [job EXCEPT ![w] = IdleJob] /\ job[w].pc \in ReleasePcs
            /\ UNCHANGED report
            /\ records' = [records EXCEPT ![job[w].run.run] =
                 [image |-> job[w].torch, rev |-> job[w].rev, report |-> job[w].run]]
        BY <2>4 DEF ReleaseRecord, ReleasePcs, Undoable
      <4>2. ASSUME NEW r \in DOMAIN records', records'[r] # None, a = records'[r].report
            PROVE  Known(a)
        <5>1. a = job[w].run \/ (records'[r] = records[r] /\ r \in DOMAIN records)
          BY <4>1, <4>2
        <5> QED BY <1>0, <4>1, <4>2, <5>1 DEF Known
      <4>3. ASSUME NEW v \in Workers, job'[v].pc \in ReleasePcs, a = job'[v].run
            PROVE  Known(a)
        BY <1>0, <4>1, <4>3, IdleFields DEF Known, JobTyped, ReleasePcs, Undoable
      <4> QED BY <3>1, <4>1, <4>2, <4>3 DEF Known
    <3> QED BY <1>1, <2>4, <3>1 DEF ReleaseRecord
  <2> QED BY <1>6, <2>1, <2>2, <2>3, <2>4 DEF GpuRelease
<1>7. ASSUME NEW w \in Maintainers, Publish(w) PROVE ReportsFiled'
  <2>1. Alone(w) /\ job'[w].pc \notin ReleasePcs
    BY <1>7, PublishJobs DEF ReleasePcs, Undoable, PublishPcs, StablePcs
  <2> QED BY <1>0, <1>1, <1>7, <2>1, PublishJobs, KnownStep
<1> QED BY <1>2, <1>3, <1>4, <1>5, <1>6, <1>7
        DEF Next, Qualification, MakePublic, buildVars, vars

\* What the evidence says at a release tool that is past its check.
LEMMA ReleaseEvidence ==
  ASSUME TypeInv, ReportsFiled, RecordsSound, NEW w \in Workers,
         job[w].pc \in ReleasePcs \ {"release"}
  PROVE  /\ job[w].run \in Report /\ Known(job[w].run) /\ job[w].run.passed
         /\ job[w].run.image = job[w].torch /\ job[w].torch \in qualified
         /\ job[w].run.run \in 1 .. runs
<1>1. job[w].run \in Report /\ Known(job[w].run) /\ job[w].run.run \in 1 .. runs
  BY DEF TypeInv, JobTyped, CommandTyped, Known, ReleasePcs
<1>2. job[w].run.passed /\ job[w].run.image = job[w].torch
  BY DEF RecordsSound
<1> QED BY <1>1, <1>2 DEF ReportsFiled

\* The report in a record is the only one of that run, and its image passed.
LEMMA RecordEvidence ==
  ASSUME TypeInv, ReportsFiled, RecordsSound, NEW r \in 1 .. MaxRuns, records[r] # None
  PROVE  /\ records[r].report \in Report /\ Known(records[r].report)
         /\ records[r].report.run = r /\ records[r].report.image = records[r].image
         /\ records[r].image \in qualified
<1>1. /\ r \in DOMAIN records /\ records[r].report \in Report
      /\ Known(records[r].report)
  BY DEF TypeInv, TypeOK, OrNone, Record, Known
<1> QED BY <1>1 DEF RecordsSound, ReportsFiled

\* A record that was made is not replaced by one of another image, although the
\* release tool looks for it long before it writes.
RecordsKept ==
  \A r \in 1 .. MaxRuns : records[r] # None =>
    records'[r] # None /\ records'[r].image = records[r].image

LEMMA RecordsWritten ==
  ASSUME TypeInv, ReportsFiled, RecordsSound, NEW w \in Maintainers, ReleaseRecord(w)
  PROVE  /\ RecordsKept
         /\ \A r \in DOMAIN records' : records'[r] # None =>
              /\ records'[r].report.run = r
              /\ records'[r].report.passed
              /\ records'[r].report.image = records'[r].image
         /\ \E r \in 1 .. runs' : records'[r] # None /\ records'[r].image = job[w].torch
<1> DEFINE n == job[w].run.run
           new == [image |-> job[w].torch, rev |-> job[w].rev, report |-> job[w].run]
<1>1. /\ w \in Workers /\ DOMAIN records = 1 .. MaxRuns /\ runs \in 0 .. MaxRuns
      /\ records' = [records EXCEPT ![n] = new] /\ runs' = runs
      /\ job[w].pc = "release_record" /\ MaxRuns \in Nat
  BY PublicationAssumption DEF TypeInv, TypeOK, ReleaseRecord, At, evidence
<1>2. /\ job[w].run \in Report /\ Known(job[w].run) /\ job[w].run.passed
      /\ job[w].run.image = job[w].torch /\ n \in 1 .. runs
  BY <1>1, ReleaseEvidence DEF ReleasePcs, Undoable
<1>3. n \in DOMAIN records /\ records'[n] = new /\ new # None
  <2>1. new \in Record
    BY <1>1, TagsNameIds DEF TypeInv, JobTyped, CommandTyped, Record, ReleasePcs, Undoable
  <2> QED BY <1>1, <1>2, <2>1, PublicationAssumption
<1>4. records[n] # None => records[n].image = job[w].torch
  BY <1>1, <1>2, <1>3, RecordEvidence DEF ReportsFiled
<1>5. \A r \in DOMAIN records' : r # n => records'[r] = records[r]
  BY <1>1
<1>6. RecordsKept
  BY <1>1, <1>3, <1>4, <1>5 DEF RecordsKept
<1>7. \E r \in 1 .. runs' : records'[r] # None /\ records'[r].image = job[w].torch
  BY <1>1, <1>2, <1>3
<1> QED BY <1>1, <1>2, <1>3, <1>5, <1>6, <1>7 DEF RecordsSound

LEMMA RecordsUnchanged ==
  ASSUME TypeInv, [Next]_vars, ~ \E w \in Maintainers : ReleaseRecord(w)
  PROVE  UNCHANGED records
<1> USE DEF evidence
<1>1. CASE BuildOrEdit
  BY <1>1 DEF BuildOrEdit
<1>2. ASSUME NEW w \in Maintainers, Qualification(w) PROVE UNCHANGED records
  BY <1>2 DEF Qualification, QualifyStart, QualifyReport
<1>3. ASSUME NEW w \in Maintainers, GpuRelease(w) PROVE UNCHANGED records
  BY <1>3 DEF GpuRelease, ReleaseStart, ReleaseVerify, ReleaseTag, ReleaseCheck,
     ReleaseUnchecked, ReleaseSbom, ReleaseFails, ReleaseRollback, RollbackFails,
     ReleaseKilled
<1>4. ASSUME NEW w \in Maintainers, Publish(w) PROVE UNCHANGED records
  BY <1>4, PublishJobs
<1>5. CASE UNCHANGED vars \/ \E k \in Kinds : MakePublic(k)
  BY <1>5 DEF vars, MakePublic
<1> QED BY <1>1, <1>2, <1>3, <1>4, <1>5 DEF Next

LEMMA RecordsKeptNext ==
  TypeInv /\ ReportsFiled /\ RecordsSound /\ [Next]_vars => RecordsKept
BY RecordsWritten, RecordsUnchanged DEF RecordsKept

\* What a release command carries, step by step: it starts with the report, is
\* checked, and from then on keeps report and image.
LEMMA ReleaseJobs ==
  ASSUME TypeInv, NEW w \in Maintainers, GpuRelease(w)
  PROVE  /\ w \in Workers /\ Alone(w)
         /\ \/ job'[w].pc \in {"idle", "release"}
            \/ /\ ReleaseVerify(w)
               /\ job'[w].pc = "release_tag"
               /\ job'[w].run.passed /\ job'[w].run.image = job'[w].torch
            \/ /\ job[w].pc \in ReleasePcs \ {"release"} /\ job'[w].pc \in Undoable
               /\ job'[w].run = job[w].run /\ job'[w].torch = job[w].torch
               /\ \/ job[w].pc = "release_tag" /\ ReleaseTag(w)
                  \/ job[w].pc \in Undoable /\ job'[w].prev = job[w].prev /\ UNCHANGED tag
<1> USE DEF At, Begin, Continue, Alone, Undoable, ReleasePcs, storeVars
<1>0. /\ w \in Workers /\ DOMAIN job = Workers /\ DOMAIN job[w] = Fields
  BY PublicationAssumption DEF TypeInv, JobTyped, CommandTyped
<1>1. CASE ReleaseStart(w)
  BY <1>0, <1>1, IdleFields DEF ReleaseStart, Fields
<1>2. CASE ReleaseVerify(w)
  BY <1>0, <1>2 DEF ReleaseVerify, Releasable, Fields
<1>3. CASE ReleaseTag(w)
  BY <1>0, <1>3 DEF ReleaseTag, Fields
<1>4. CASE ReleaseCheck(w) \/ ReleaseSbom(w) \/ ReleaseFails(w)
  BY <1>0, <1>4 DEF ReleaseCheck, ReleaseSbom, ReleaseFails, Fields
<1>5. CASE \/ ReleaseRecord(w) \/ ReleaseRollback(w) \/ ReleaseUnchecked(w)
           \/ RollbackFails(w) \/ ReleaseKilled(w)
  BY <1>0, <1>5, IdleFields DEF ReleaseRecord, ReleaseRollback, ReleaseUnchecked,
     RollbackFails, ReleaseKilled, Leave
<1> QED BY <1>1, <1>2, <1>3, <1>4, <1>5 DEF GpuRelease

\* The commands of the other parts hold nothing of a release.
LEMMA OtherJobs ==
  ASSUME TypeInv, [Next]_vars
  PROVE  \/ UNCHANGED job
         \/ \E w \in Workers : Alone(w) /\ job'[w].pc \in {"idle", "qualify"} \cup BuildPcs
         \/ \E w \in Maintainers : GpuRelease(w) \/ Publish(w)
<1> USE DEF At, Begin, Continue, Alone
<1>0. DOMAIN job = Workers /\ Maintainers \subseteq Workers
  BY PublicationAssumption DEF TypeInv, JobTyped
<1>1. CASE BuildOrEdit
  BY <1>1, BuildSteps DEF BuildOrEdit, Edit, Commit
<1>2. ASSUME NEW w \in Maintainers, QualifyStart(w)
      PROVE  Alone(w) /\ job'[w].pc = "qualify"
  BY <1>0, <1>2, IdleFields DEF QualifyStart, Fields
<1>3. ASSUME NEW w \in Maintainers, NEW passed \in BOOLEAN, QualifyReport(w, passed)
      PROVE  Alone(w) /\ job'[w].pc = "idle"
  BY <1>0, <1>3, IdleFields DEF QualifyReport
<1>4. CASE UNCHANGED vars \/ \E k \in Kinds : MakePublic(k)
  BY <1>4 DEF vars, buildVars, MakePublic
<1> QED BY <1>0, <1>1, <1>2, <1>3, <1>4 DEF Next, Qualification

LEMMA RecordsStep ==
  TypeInv /\ ReportsFiled /\ RecordsSound /\ [Next]_vars => RecordsSound'
<1> SUFFICES ASSUME TypeInv, ReportsFiled, RecordsSound, [Next]_vars PROVE RecordsSound'
  OBVIOUS
<1>1. ASSUME NEW r \in DOMAIN records', records'[r] # None
      PROVE  /\ records'[r].report.run = r
             /\ records'[r].report.passed
             /\ records'[r].report.image = records'[r].image
  BY <1>1, RecordsWritten, RecordsUnchanged DEF RecordsSound
<1>2. ASSUME NEW v \in Workers, job'[v].pc \in ReleasePcs \ {"release"}
      PROVE  job'[v].run.passed /\ job'[v].run.image = job'[v].torch
  <2> USE DEF ReleasePcs, Undoable, PublishPcs, StablePcs, BuildPcs, Alone, RecordsSound
  <2>1. CASE job'[v] = job[v]
    BY <1>2, <2>1
  <2>2. ASSUME NEW w \in Maintainers, GpuRelease(w), v = w
        PROVE  job'[v].run.passed /\ job'[v].run.image = job'[v].torch
    BY <1>2, <2>2, ReleaseJobs
  <2>3. ASSUME NEW w \in Maintainers, Publish(w), v = w PROVE FALSE
    BY <1>2, <2>3, PublishJobs
  <2> QED BY <1>2, <2>1, <2>2, <2>3, OtherJobs, ReleaseJobs, PublishJobs
<1> QED BY <1>1, <1>2 DEF RecordsSound

\* The verified tag moves to the image of a report that passed, back to what it
\* was, or away.
LEMMA TagStep ==
  TypeInv /\ ReportsFiled /\ RecordsSound /\ TagQualified /\ [Next]_vars => TagQualified'
<1> SUFFICES ASSUME TypeInv, ReportsFiled, RecordsSound, TagQualified, [Next]_vars
             PROVE  TagQualified'
  OBVIOUS
<1> USE DEF OrNone, Alone
<1>0. qualified \subseteq qualified' /\ TypeOK /\ DOMAIN tag = Tags /\ "verified" \in Tags
  BY ForwardNext DEF Forward, TypeInv, TypeOK, Tags
<1>1. tag'["verified"] \in OrNone(qualified')
  <2>1. CASE tag'["verified"] \in {tag["verified"], None}
    BY <1>0, <2>1 DEF TagQualified
  <2>2. CASE BuildOrEdit
    BY <2>1, <2>2, BuildSteps DEF BuildOrEdit, Edit, Commit, storeVars
  <2>3. ASSUME NEW w \in Maintainers, GpuRelease(w) PROVE tag'["verified"] \in OrNone(qualified')
    <3>0. w \in Workers
      BY PublicationAssumption
    <3>1. CASE ReleaseTag(w)
      <4>1. job[w].torch \in qualified
        BY <3>0, <3>1, ReleaseEvidence DEF ReleaseTag, At, ReleasePcs, Undoable
      <4> QED BY <1>0, <3>1, <4>1 DEF ReleaseTag
    <3>2. CASE job[w].pc = "rollback" /\ RestoreTag(job[w])
      <4>1. job[w].prev \in OrNone(qualified)
        BY <3>0, <3>2 DEF TagQualified, Undoable
      <4>2. CASE UNCHANGED <<local, tag>>
        BY <2>1, <4>2
      <4>3. CASE RemoveTag("verified")
        BY <1>0, <2>1, <4>3, RemoveTagKeeps
      <4>4. CASE tag' = [tag EXCEPT !["verified"] = job[w].prev]
        BY <1>0, <4>1, <4>4
      <4> QED BY <3>2, <4>2, <4>3, <4>4 DEF RestoreTag
    <3>3. CASE UNCHANGED tag
      BY <2>1, <3>3
    <3> QED BY <2>3, <3>1, <3>2, <3>3 DEF GpuRelease, ReleaseStart, ReleaseVerify,
          ReleaseCheck, ReleaseUnchecked, ReleaseSbom, ReleaseRecord, ReleaseFails,
          ReleaseRollback, RollbackFails, ReleaseKilled, At, storeVars
  <2>4. ASSUME NEW w \in Maintainers, Publish(w) PROVE tag'["verified"] = tag["verified"]
    BY <2>4, PublishJobs
  <2>5. CASE \/ UNCHANGED vars \/ \E k \in Kinds : MakePublic(k)
             \/ \E w \in Maintainers : Qualification(w)
    BY <2>1, <2>5 DEF vars, buildVars, storeVars, MakePublic, Qualification, QualifyStart,
       QualifyReport
  <2> QED BY <2>1, <2>2, <2>3, <2>4, <2>5 DEF Next
<1>2. ASSUME NEW v \in Workers, job'[v].pc \in Undoable
      PROVE  job'[v].prev \in OrNone(qualified')
  <2> USE DEF ReleasePcs, Undoable, PublishPcs, StablePcs, BuildPcs
  <2>1. CASE job'[v] = job[v]
    BY <1>0, <1>2, <2>1 DEF TagQualified
  <2>2. ASSUME NEW w \in Maintainers, GpuRelease(w), v = w
        PROVE  job'[v].prev \in OrNone(qualified')
    <3>1. CASE ReleaseTag(w)
      <4>1. job'[w].prev = tag["verified"]
        BY <1>2, <2>2, <3>1 DEF ReleaseTag, Continue, TypeInv, JobTyped, CommandTyped, Fields
      <4> QED BY <1>0, <2>2, <4>1 DEF TagQualified
    <3>2. CASE job[w].pc \in Undoable /\ job'[w].prev = job[w].prev
      BY <1>0, <1>2, <2>2, <3>2 DEF TagQualified
    <3> QED BY <1>2, <2>2, <3>1, <3>2, ReleaseJobs
  <2>3. ASSUME NEW w \in Maintainers, Publish(w), v = w PROVE FALSE
    BY <1>2, <2>3, PublishJobs
  <2> QED BY <1>2, <2>1, <2>2, <2>3, OtherJobs, ReleaseJobs, PublishJobs
<1> QED BY <1>1, <1>2 DEF TagQualified

\* The validation of publish-release reads all the evidence of the manifest.
LEMMA CandidateSound ==
  ASSUME TypeInv, ReportsFiled, RecordsSound, NEW r \in 1 .. MaxRuns, Candidate(r)
  PROVE  /\ Evidenced(r, tag["torch"])
         /\ \A i \in {tag["base"], tag["torch"]} : Carries(i, head, LockOf[head])
<1>1. records[r] # None /\ records[r].image = tag["torch"] /\ tree = head
      /\ \A k \in Kinds : Carries(tag[k], head, LockOf[tree])
  BY DEF Candidate, EvidenceFor, Clean
<1> QED BY <1>1, RecordEvidence DEF Evidenced, Kinds

\* Evidence does not lose its value.
EvidenceHeld(r, t) == t \in qualified' /\ records'[r] # None /\ records'[r].image = t
CarriesHeld(i, rev, locks) == images'[i].rev = rev /\ images'[i].locks = locks

LEMMA EvidenceKept ==
  ASSUME Forward, RecordsKept, NEW r \in 1 .. MaxRuns, NEW t, Evidenced(r, t)
  PROVE  EvidenceHeld(r, t)
BY DEF Evidenced, EvidenceHeld, Forward, RecordsKept

LEMMA CarriesKept ==
  ASSUME Forward, NEW i \in DOMAIN images, NEW rev, NEW locks, Carries(i, rev, locks)
  PROVE  CarriesHeld(i, rev, locks)
BY DEF Carries, CarriesHeld, Forward, ImagesKept

\* What a publication carries, step by step.
LEMMA PublishCarried ==
  ASSUME TypeInv, NEW w \in Maintainers, Publish(w), job'[w].pc # "idle"
  PROVE  \/ /\ PublishStart(w) \/ StableStart(w)
            /\ job'[w].pc \in {"pub_tag", "anonymous"} /\ job'[w].kind = "base"
            /\ job'[w].run \in 1 .. MaxRuns /\ Candidate(job'[w].run)
            /\ job'[w].rev = head
            /\ job'[w].base = tag["base"] /\ job'[w].torch = tag["torch"]
         \/ /\ job[w].pc \in PublishPcs
            /\ job'[w].run = job[w].run /\ job'[w].rev = job[w].rev
            /\ job'[w].base = job[w].base /\ job'[w].torch = job[w].torch
            /\ \/ job[w].pc # "anonymous" /\ job'[w].pc \notin StablePcs
               \/ /\ job[w].pc = "anonymous" /\ job[w].kind = "base"
                  /\ job'[w].pc = "anonymous"
                  /\ job[w].base \in pushed["base"] /\ "base" \in public
               \/ /\ job[w].pc = "anonymous" /\ job[w].kind = "torch"
                  /\ job'[w].pc = "stable_write"
                  /\ job[w].torch \in pushed["torch"] /\ "torch" \in public
<1> USE DEF At, Begin, Continue, PublishPcs, StablePcs
<1>0. /\ TypeOK /\ w \in Workers /\ DOMAIN job = Workers /\ CommandTyped(w)
      /\ DOMAIN job[w] = Fields
  BY PublicationAssumption DEF TypeInv, JobTyped, CommandTyped
<1>1. CASE PublishStart(w)
  <2>1. PICK r \in 1 .. runs : Candidate(r) /\
          job' = [job EXCEPT ![w] = [IdleJob EXCEPT !.pc = "pub_tag", !.kind = "base",
                    !.rev = head, !.run = r, !.base = tag["base"], !.torch = tag["torch"]]]
    BY <1>1 DEF PublishStart
  <2>2. r \in 1 .. MaxRuns
    BY <1>0, PublicationAssumption DEF TypeOK
  <2> QED BY <1>0, <1>1, <2>1, <2>2, IdleFields DEF Fields
<1>2. CASE StableStart(w)
  <2>1. /\ Candidate(observed.run)
        /\ job' = [job EXCEPT ![w] = [IdleJob EXCEPT !.pc = "anonymous", !.kind = "base",
             !.rev = head, !.run = observed.run, !.base = tag["base"], !.torch = tag["torch"]]]
        /\ observed.run \in 1 .. MaxRuns
    BY <1>0, <1>2 DEF StableStart, TypeOK, OrNone, Published
  <2> QED BY <1>0, <1>2, <2>1, IdleFields DEF Fields
<1>3. CASE PublishTag(w) \/ PublishPush(w)
  BY <1>0, <1>3 DEF PublishTag, PublishPush, Fields
<1>4. CASE PublishObserve(w)
  BY <1>0, <1>4, IdleFields DEF PublishObserve, Fields
<1>5. CASE PublishWrite(w) \/ StableWrite(w) \/ PublishFails(w)
  BY <1>0, <1>5, IdleFields DEF PublishWrite, StableWrite, PublishFails
<1>6. CASE AnonymousVerify(w)
  <2>1. job[w].kind \in Kinds /\ job[w].pc = "anonymous"
    BY <1>0, <1>6 DEF AnonymousVerify, CommandTyped
  <2>2. CASE job[w].kind = "base"
    BY <1>0, <1>6, <2>1, <2>2 DEF AnonymousVerify, ImageOf, Fields
  <2>3. CASE job[w].kind = "torch"
    BY <1>0, <1>6, <2>1, <2>3 DEF AnonymousVerify, ImageOf, Fields
  <2> QED BY <2>1, <2>2, <2>3 DEF Kinds
<1> QED BY <1>1, <1>2, <1>3, <1>4, <1>5, <1>6 DEF Publish

LEMMA PublishStep ==
  TypeInv /\ ReportsFiled /\ RecordsSound /\ PublishSound /\ [Next]_vars => PublishSound'
<1> SUFFICES ASSUME TypeInv, ReportsFiled, RecordsSound, PublishSound, [Next]_vars,
                    NEW v \in Workers
             PROVE  PublicationSound(v)'
  BY DEF PublishSound
<1> USE DEF PublishPcs, StablePcs
<1>0. Forward /\ RecordsKept /\ TypeOK /\ CommandTyped(v) /\ PublicationSound(v)
  BY ForwardNext, RecordsKeptNext DEF TypeInv, JobTyped, PublishSound
<1>1. /\ pushed["base"] \subseteq pushed'["base"] /\ pushed["torch"] \subseteq pushed'["torch"]
      /\ public \subseteq public'
  BY <1>0 DEF Forward, Kinds
<1>2. ASSUME job[v].pc \in PublishPcs
      PROVE  /\ EvidenceHeld(job[v].run, job[v].torch)
             /\ \A i \in {job[v].base, job[v].torch} :
                  CarriesHeld(i, job[v].rev, LockOf[job[v].rev])
  BY <1>0, <1>2, EvidenceKept, CarriesKept DEF PublicationSound, CommandTyped
<1>3. CASE job'[v] = job[v]
  BY <1>0, <1>1, <1>2, <1>3
  DEF PublicationSound, Evidenced, EvidenceHeld, Carries, CarriesHeld
<1>4. CASE job'[v].pc \notin PublishPcs
  BY <1>4 DEF PublicationSound
<1>5. ASSUME NEW w \in Maintainers, Publish(w), v = w, job'[v].pc # "idle"
      PROVE  PublicationSound(v)'
  <2>1. CASE /\ PublishStart(v) \/ StableStart(v)
             /\ job'[v].pc \in {"pub_tag", "anonymous"} /\ job'[v].kind = "base"
             /\ job'[v].run \in 1 .. MaxRuns /\ Candidate(job'[v].run)
             /\ job'[v].rev = head
             /\ job'[v].base = tag["base"] /\ job'[v].torch = tag["torch"]
    <3>1. {tag["base"], tag["torch"]} \subseteq DOMAIN images
      BY <1>0, <2>1, TagsNameIds DEF Candidate
    <3>2. /\ EvidenceHeld(job'[v].run, tag["torch"])
          /\ \A i \in {tag["base"], tag["torch"]} : CarriesHeld(i, head, LockOf[head])
      BY <1>0, <2>1, <3>1, CandidateSound, EvidenceKept, CarriesKept
    <3> QED BY <2>1, <3>2
        DEF PublicationSound, Evidenced, EvidenceHeld, Carries, CarriesHeld
  <2>2. CASE /\ job[v].pc \in PublishPcs
             /\ job'[v].run = job[v].run /\ job'[v].rev = job[v].rev
             /\ job'[v].base = job[v].base /\ job'[v].torch = job[v].torch
             /\ \/ job[v].pc # "anonymous" /\ job'[v].pc \notin StablePcs
                \/ /\ job[v].pc = "anonymous" /\ job[v].kind = "base"
                   /\ job'[v].pc = "anonymous"
                   /\ job[v].base \in pushed["base"] /\ "base" \in public
                \/ /\ job[v].pc = "anonymous" /\ job[v].kind = "torch"
                   /\ job'[v].pc = "stable_write"
                   /\ job[v].torch \in pushed["torch"] /\ "torch" \in public
    BY <1>0, <1>1, <1>2, <2>2
    DEF PublicationSound, Evidenced, EvidenceHeld, Carries, CarriesHeld
  <2> QED BY <1>5, <2>1, <2>2, PublishCarried
<1>6. ASSUME NEW w \in Maintainers, GpuRelease(w), v = w PROVE job'[v].pc \notin PublishPcs
  BY <1>6, ReleaseJobs DEF Undoable
<1> QED BY <1>3, <1>4, <1>5, <1>6, OtherJobs, ReleaseJobs, PublishJobs DEF Alone, BuildPcs

ManifestInv == ManifestQualified /\ ManifestServed

LEMMA ManifestStep ==
  /\ TypeInv /\ ReportsFiled /\ RecordsSound /\ PublishSound /\ ManifestInv
  /\ [Next]_vars
  => ManifestInv'
<1> SUFFICES ASSUME TypeInv, ReportsFiled, RecordsSound, PublishSound, ManifestInv,
                    [Next]_vars
             PROVE  ManifestInv'
  OBVIOUS
<1>0. Forward /\ RecordsKept /\ TypeOK /\ public' \subseteq Kinds
  BY ForwardNext, RecordsKeptNext, TypeNext DEF TypeInv, TypeOK
<1>1. /\ pushed["base"] \subseteq pushed'["base"] /\ pushed["torch"] \subseteq pushed'["torch"]
      /\ public \subseteq public'
      /\ pushed["base"] \cup pushed["torch"] \subseteq DOMAIN images
  BY <1>0 DEF Forward, Kinds, TypeOK
<1>2. CASE UNCHANGED manifest
  <2>1. ASSUME manifest # None
        PROVE  /\ EvidenceHeld(manifest.run, manifest.torch)
               /\ \A i \in {manifest.base, manifest.torch} :
                    CarriesHeld(i, manifest.rev, LockOf[manifest.rev])
               /\ manifest.base \in pushed'["base"] /\ manifest.torch \in pushed'["torch"]
               /\ public' = Kinds
    <3>1. /\ Evidenced(manifest.run, manifest.torch)
          /\ \A i \in {manifest.base, manifest.torch} :
               Carries(i, manifest.rev, LockOf[manifest.rev])
          /\ manifest.base \in pushed["base"] /\ manifest.torch \in pushed["torch"]
          /\ public = Kinds
      BY <2>1 DEF ManifestInv, ManifestQualified, ManifestServed, Evidenced
    <3>2. manifest.run \in 1 .. MaxRuns
      BY <1>0, <2>1 DEF TypeOK, OrNone, Published
    <3> QED BY <1>0, <1>1, <3>1, <3>2, EvidenceKept, CarriesKept
  <2> QED BY <1>2, <2>1 DEF ManifestInv, ManifestQualified, ManifestServed, EvidenceHeld,
          Carries, CarriesHeld
<1>3. ASSUME NEW w \in Maintainers, StableWrite(w) PROVE ManifestInv'
  <2>1. w \in Workers /\ job[w].pc = "stable_write" /\ CommandTyped(w) /\ PublicationSound(w)
    BY <1>3, PublicationAssumption DEF StableWrite, At, TypeInv, JobTyped, PublishSound
  <2>2. /\ manifest'.run = job[w].run /\ manifest'.torch = job[w].torch
        /\ manifest'.base = job[w].base /\ manifest'.rev = job[w].rev
    BY <1>3 DEF StableWrite, Release
  <2>3. /\ Evidenced(job[w].run, job[w].torch) /\ job[w].run \in 1 .. MaxRuns
        /\ \A i \in {job[w].base, job[w].torch} :
             Carries(i, job[w].rev, LockOf[job[w].rev])
        /\ job[w].base \in pushed["base"] /\ job[w].torch \in pushed["torch"]
        /\ {"base", "torch"} \subseteq public
    BY <2>1 DEF PublicationSound, CommandTyped, PublishPcs, StablePcs
  <2>4. /\ EvidenceHeld(job[w].run, job[w].torch)
        /\ \A i \in {job[w].base, job[w].torch} :
             CarriesHeld(i, job[w].rev, LockOf[job[w].rev])
    BY <1>0, <1>1, <2>3, EvidenceKept, CarriesKept
  <2> QED BY <1>0, <1>1, <2>2, <2>3, <2>4
      DEF ManifestInv, ManifestQualified, ManifestServed, EvidenceHeld, Carries, CarriesHeld,
          Kinds
<1>4. ASSUME NEW w \in Maintainers, Publish(w), ~StableWrite(w) PROVE UNCHANGED manifest
  BY <1>4 DEF Publish, PublishStart, PublishTag, PublishPush, PublishObserve, PublishWrite,
     StableStart, AnonymousVerify, PublishFails
<1>5. ASSUME NEW w, Qualification(w) \/ GpuRelease(w) PROVE UNCHANGED manifest
  BY <1>5 DEF Qualification, QualifyStart, QualifyReport, GpuRelease, ReleaseStart,
     ReleaseVerify, ReleaseTag, ReleaseCheck, ReleaseUnchecked, ReleaseSbom, ReleaseRecord, ReleaseFails, ReleaseRollback,
     RollbackFails, ReleaseKilled
<1> QED BY <1>2, <1>3, <1>4, <1>5 DEF Next, BuildOrEdit, MakePublic, vars

EvidenceInv == TypeInv /\ Evidence /\ ManifestInv

LEMMA EvidenceInit == Init => EvidenceInv
<1> SUFFICES ASSUME Init PROVE EvidenceInv
  OBVIOUS
<1>1. \A w \in Workers : job[w] = IdleJob
  BY DEF Init, BuildInit
<1>2. /\ report = None /\ manifest = None /\ tag["verified"] = None
      /\ \A r \in DOMAIN records : records[r] = None
  BY DEF Init, BuildInit, Tags
<1>3. \A a : ~Known(a)
  BY <1>1, <1>2, IdleFields DEF Known, ReleasePcs, Undoable
<1>4. Evidence
  BY <1>1, <1>2, <1>3, IdleFields DEF Evidence, ReportsFiled, RecordsSound, PublishSound,
     PublicationSound, TagQualified, OrNone, ReleasePcs, Undoable, PublishPcs, StablePcs
<1>5. ManifestInv
  BY <1>2 DEF ManifestInv, ManifestQualified, ManifestServed
<1> QED BY <1>4, <1>5, TypeInit DEF EvidenceInv

LEMMA EvidenceNext == EvidenceInv /\ [Next]_vars => EvidenceInv'
BY TypeNext, ReportsStep, RecordsStep, PublishStep, TagStep, ManifestStep
DEF EvidenceInv, Evidence

\* Whatever step a release, a build, a prune or a publication is at and whichever
\* of them is killed: reports, records, tags, publication report and manifest
\* vouch for each other as EvidenceInv says.
THEOREM EvidenceCorrect == Spec => []EvidenceInv
BY EvidenceInit, EvidenceNext, PTL DEF Spec

\* The stable manifest only ever names an image that passed its qualification
\* and has a release record, and images made from its commit and its locks.
THEOREM ManifestOnlyQualified == Spec => []ManifestQualified
<1>1. EvidenceInv => ManifestQualified
  BY DEF EvidenceInv, ManifestInv
<1> QED BY <1>1, EvidenceCorrect, PTL

\* Both images of the stable manifest can be pulled by anybody.
THEOREM ManifestPullable == Spec => []ManifestServed
<1>1. EvidenceInv => ManifestServed
  BY DEF EvidenceInv, ManifestInv
<1> QED BY <1>1, EvidenceCorrect, PTL

\* Whoever releases, builds and prunes at the same time, and whatever is killed:
\* the verified tag names an image that passed, or there is none.
VerifiedTagPassed == tag["verified"] \in OrNone(qualified)

\* The verified tag never names an image without a passed qualification, also
\* while a release that has moved it may still have to restore it.
THEOREM VerifiedTagOnlyPassed == Spec => []VerifiedTagPassed
<1>1. EvidenceInv => VerifiedTagPassed
  BY DEF EvidenceInv, Evidence, TagQualified, VerifiedTagPassed
<1> QED BY <1>1, EvidenceCorrect, PTL

(***************************************************************************)
(* The verified tag has a record, when one maintainer releases at a time.  *)
(***************************************************************************)

OneMaintainer == \A v, w \in Maintainers : v = w

RecordHeld(i) == \E r \in 1 .. runs' : records'[r] # None /\ records'[r].image = i

LEMMA RecordedKept ==
  ASSUME TypeInv, Forward, RecordsKept, NEW i, Recorded(i)
  PROVE  RecordHeld(i)
<1>1. 1 .. runs \subseteq 1 .. runs' /\ 1 .. runs \subseteq 1 .. MaxRuns
  BY PublicationAssumption DEF Forward, TypeInv, TypeOK
<1> QED BY <1>1 DEF Recorded, RecordHeld, RecordsKept

\* Only its own command leaves the window between tag and record.
LEMMA WindowOf ==
  ASSUME TypeInv, OneMaintainer, NEW v \in Workers, job[v].pc \in ReleasePcs,
         NEW w \in Maintainers
  PROVE  v = w
BY DEF TypeInv, JobTyped, CommandTyped, OneMaintainer

\* What the next state accounts for.
Held(i) == i = None \/ RecordHeld(i) \/ i \in stray'

LEMMA AccountedKept ==
  ASSUME TypeInv, Forward, RecordsKept, NEW i, Accounted(i)
  PROVE  Held(i)
BY RecordedKept DEF Accounted, Held, Forward

TagHeld ==
  /\ \/ Held(tag'["verified"])
     \/ \E w \in Workers : job'[w].pc \in Undoable /\ job'[w].torch = tag'["verified"]
  /\ \A w \in Workers : job'[w].pc \in Undoable => Held(job'[w].prev)

LEMMA TagRecordedStep ==
  ASSUME OneMaintainer, EvidenceInv, TagRecorded, [Next]_vars
  PROVE  TagRecorded'
<1> USE DEF ReleasePcs, Undoable
<1> SUFFICES TagHeld
  BY DEF TagRecorded, TagHeld, Accounted, Held, Recorded, RecordHeld, Releasing, TagWindow
<1>0. /\ TypeInv /\ TypeOK /\ ReportsFiled /\ RecordsSound
      /\ Forward /\ RecordsKept /\ DOMAIN tag = Tags /\ "verified" \in Tags
      /\ DOMAIN job = Workers /\ Maintainers \subseteq Workers
  BY ForwardNext, RecordsKeptNext, PublicationAssumption
  DEF EvidenceInv, Evidence, TypeInv, TypeOK, Tags, JobTyped
<1>2. /\ \/ Held(tag["verified"])
         \/ \E w \in Workers : job[w].pc \in Undoable /\ job[w].torch = tag["verified"]
      /\ \A w \in Workers : job[w].pc \in Undoable => Held(job[w].prev)
  BY <1>0, AccountedKept DEF TagRecorded, Releasing, TagWindow
<1>3. ASSUME tag'["verified"] \in {tag["verified"], None},
             \A v \in Workers : \/ job'[v] = job[v]
                                \/ /\ job[v].pc \notin Undoable
                                   /\ job'[v].pc \notin Undoable
      PROVE  TagHeld
  BY <1>2, <1>3 DEF TagHeld, Held
<1>4. CASE BuildOrEdit
  <2>1. CASE Edit \/ Commit
    BY <1>3, <2>1 DEF Edit, Commit, storeVars
  <2>2. ASSUME NEW w, BuildNext(w, {}, {}) PROVE TagHeld
    <3>1. job[w].pc \notin Undoable
      BY <2>2 DEF BuildNext, BaseStart, BaseRead, BaseLoad, BaseLoaded, TorchStart,
         TorchRead, TorchLoad, TorchLoaded, BuildReturns, PruneStart, PruneSelect, PruneRemove, PruneDone,
         BuildFails, BuildPcs, At, Begin
    <3> QED BY <1>0, <1>3, <2>2, <3>1, BuildSteps DEF Alone, BuildPcs
  <2> QED BY <1>4, <2>1, <2>2 DEF BuildOrEdit
<1>5. ASSUME NEW w \in Maintainers, Qualification(w) PROVE TagHeld
  <2>1. Alone(w) /\ job[w].pc \notin Undoable /\ job'[w].pc \notin Undoable /\ UNCHANGED tag
    BY <1>0, <1>5, IdleFields DEF Qualification, QualifyStart, QualifyReport, At, Begin,
       Continue, storeVars, Alone, Fields
  <2> QED BY <1>0, <1>3, <2>1 DEF Alone
<1>6. ASSUME NEW w \in Maintainers, Publish(w) PROVE TagHeld
  <2>1. job[w].pc \notin Undoable
    BY <1>6 DEF Publish, PublishStart, PublishTag, PublishPush, PublishObserve, PublishWrite,
       StableStart, AnonymousVerify, StableWrite, PublishFails, At, Begin
  <2> QED BY <1>0, <1>3, <1>6, <2>1, PublishJobs DEF Alone, PublishPcs, StablePcs
<1>7. ASSUME NEW w \in Maintainers, GpuRelease(w) PROVE TagHeld
  <2>0. w \in Workers /\ DOMAIN job[w] = Fields
    BY <1>0 DEF TypeInv, JobTyped, CommandTyped
  <2>1. CASE ReleaseStart(w) \/ ReleaseVerify(w)
    <3>1. Alone(w) /\ job[w].pc \notin Undoable /\ job'[w].pc \notin Undoable /\ UNCHANGED tag
      BY ZenonT(60), <1>0, <2>0, <2>1, IdleFields
      DEF ReleaseStart, ReleaseVerify, At, Begin, Continue,
         storeVars, Alone, Fields
    <3> QED BY <1>0, <1>3, <3>1 DEF Alone
  <2>2. CASE ReleaseTag(w)
    <3>1. \A v \in Workers : job[v].pc \in ReleasePcs => v = w
      BY <1>0, WindowOf
    <3>2. job[w].pc = "release_tag" /\ Alone(w)
      BY <1>0, <2>2 DEF ReleaseTag, At, Continue, Alone
    <3>3. Held(tag["verified"])
      BY <1>2, <3>1, <3>2
    <3>4. /\ job'[w].torch = tag'["verified"] /\ job'[w].pc \in Undoable
          /\ job'[w].prev = tag["verified"]
      BY <1>0, <2>0, <2>2 DEF ReleaseTag, At, Continue, Fields
    <3>5. \A v \in Workers : job'[v].pc \in Undoable => v = w
      BY <3>1, <3>2 DEF Alone
    <3> QED BY <2>0, <3>3, <3>4, <3>5 DEF TagHeld
  <2>3. CASE ReleaseCheck(w) \/ ReleaseSbom(w) \/ ReleaseFails(w)
    <3>1. /\ job[w].pc \in Undoable /\ job'[w].pc \in Undoable /\ Alone(w) /\ UNCHANGED tag
          /\ job'[w].torch = job[w].torch /\ job'[w].prev = job[w].prev
      BY <1>0, <2>0, <2>3 DEF ReleaseCheck, ReleaseSbom, ReleaseFails, At, Continue, Fields,
         Alone, storeVars
    <3> QED BY <1>2, <2>0, <3>1 DEF Alone, TagHeld
  <2>4. ASSUME job' = [job EXCEPT ![w] = IdleJob], job[w].pc \in Undoable,
               Held(tag'["verified"])
        PROVE  TagHeld
    <3>1. \A v \in Workers : job'[v].pc \notin Undoable
      BY <1>0, <2>4, IdleFields, WindowOf
    <3> QED BY <2>4, <3>1 DEF TagHeld
  <2>5. job[w].pc \in Undoable =>
          Held(job[w].prev) /\ (Held(tag["verified"]) \/ job[w].torch = tag["verified"])
    <3>1. \A v \in Workers : job[v].pc \in Undoable => v = w
      BY <1>0, WindowOf
    <3> QED BY <1>2, <2>0, <3>1
  <2>6. ASSUME RestoreTag(job[w]), job[w].pc \in Undoable PROVE Held(tag'["verified"])
    <3>1. job[w].torch # None
      BY <1>0, <2>0, <2>6, TagsNameIds, ImageBuildAssumption
      DEF TypeInv, JobTyped, CommandTyped, Ids
    <3>2. CASE job[w].prev = job[w].torch
      <4>1. UNCHANGED tag
        BY <2>6, <3>1, <3>2 DEF RestoreTag
      <4> QED BY <2>5, <2>6, <3>2, <4>1
    <3>3. CASE job[w].prev = None
      <4>1. tag'["verified"] = None
        BY <1>0, <2>6, <3>1, <3>3, RemoveTagKeeps DEF RestoreTag
      <4> QED BY <4>1 DEF Held
    <3>4. CASE job[w].prev \notin {job[w].torch, None}
      <4>1. tag' = [tag EXCEPT !["verified"] = job[w].prev]
        BY <2>6, <3>4 DEF RestoreTag
      <4> QED BY <1>0, <2>5, <2>6, <4>1
    <3> QED BY <3>2, <3>3, <3>4
  <2>7. CASE ReleaseRecord(w)
    <3>1. Held(job[w].torch)
      BY <1>0, <2>7, RecordsWritten DEF Held, RecordHeld
    <3>2. /\ job' = [job EXCEPT ![w] = IdleJob] /\ job[w].pc \in Undoable /\ UNCHANGED tag
      BY <2>7 DEF ReleaseRecord, At, Continue, storeVars
    <3> QED BY <2>4, <2>5, <3>1, <3>2
  <2>8. CASE ReleaseRollback(w)
    <3>1. /\ job' = [job EXCEPT ![w] = IdleJob] /\ job[w].pc \in Undoable
          /\ RestoreTag(job[w])
      BY <2>8 DEF ReleaseRollback, At, Continue
    <3> QED BY <2>4, <2>6, <3>1
  <2>9. CASE ReleaseUnchecked(w) \/ RollbackFails(w) \/ ReleaseKilled(w)
    <3>1. /\ job' = [job EXCEPT ![w] = IdleJob] /\ job[w].pc \in Undoable
          /\ stray' = stray \cup ({job[w].torch} \cap {tag'["verified"]})
          /\ UNCHANGED tag \/ RestoreTag(job[w])
      BY <2>9 DEF ReleaseUnchecked, RollbackFails, ReleaseKilled, Leave, At, Continue,
         storeVars, TagWindow
    <3>2. tag'["verified"] = job[w].torch => Held(tag'["verified"])
      BY <3>1 DEF Held
    <3> QED BY <2>4, <2>5, <2>6, <3>1, <3>2
  <2> QED BY <1>7, <2>1, <2>2, <2>3, <2>7, <2>8, <2>9 DEF GpuRelease
<1>8. CASE UNCHANGED vars \/ \E k \in Kinds : MakePublic(k)
  BY <1>3, <1>8 DEF vars, buildVars, MakePublic
<1> QED BY <1>4, <1>5, <1>6, <1>7, <1>8 DEF Next

\* With one maintainer: the verified tag names an image with a record, the image
\* of the release in progress, or one that a release left there because it could
\* not look up or restore the tag or was killed.
THEOREM VerifiedTagHasRecord ==
  ASSUME OneMaintainer
  PROVE  Spec => []VerifiedTagRecorded
<1>1. Init => TagRecorded
  BY IdleFields DEF Init, BuildInit, TagRecorded, Accounted, Tags, Undoable
<1>2. EvidenceInv /\ TagRecorded /\ [Next]_vars => TagRecorded'
  BY TagRecordedStep
<1>3. EvidenceInv /\ TagRecorded => VerifiedTagRecorded
  BY DEF EvidenceInv, Evidence, TagQualified, OrNone, TagRecorded, VerifiedTagRecorded,
         Accounted, Recorded
<1> QED BY <1>1, <1>2, <1>3, EvidenceCorrect, PTL DEF Spec
================================================================================
