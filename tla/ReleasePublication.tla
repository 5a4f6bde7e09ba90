------------------------- MODULE ReleasePublication -------------------------
(***************************************************************************)
(* From a build on the maintainer's machine to the stable manifest that    *)
(* every installation trusts: hardware qualification of the Torch image,   *)
(* the release record with its verified tag, the push of both images, the  *)
(* anonymous verification and the manifest.                                *)
(*                                                                         *)
(* Each command reads the source tree and the files it validates in one    *)
(* step; what it does to Docker, to the registry and to the report files   *)
(* is one step each.                                                       *)
(***************************************************************************)
EXTENDS ImageBuild

CONSTANTS Maintainers,  \* workers that qualify, release and publish
          MaxRuns,      \* bound: qualification runs
          MaxFaults     \* bound: kills, failed look-ups and rollbacks

Locks == {LockOf[v] : v \in Versions}
Report == [run : 1 .. MaxRuns, image : Ids, passed : BOOLEAN, locks : Locks]
Record == [image : Ids, rev : Versions, report : Report]

ASSUME PublicationAssumption ==
  /\ Maintainers \subseteq Workers
  /\ MaxRuns \in Nat \ {0} /\ MaxFaults \in Nat
  /\ None \notin Record

VARIABLES report,       \* reports/qualification.json, or None
          runs,         \* qualification runs so far; a run numbers its report
          records,      \* run -> release record, or None
          sboms,        \* runs whose SPDX file exists
          pushed,       \* kind -> ids the registry has a manifest for
          release,      \* kind -> id behind the release tag, or None
          public,       \* packages an anonymous client may read
          observed,     \* publication report, or None
          manifest,     \* profiles/releases/stable.json, or None
          qualified,    \* history: ids that passed a run
          stray,        \* history: ids a failed release left under the tag
          faults        \* kills, failed look-ups and rollbacks so far

evidence == <<report, runs, records, sboms, qualified>>
registry == <<pushed, release, public>>
failures == <<stray, faults>>
vars == <<buildVars, evidence, registry, observed, manifest, failures>>

Kinds == {"base", "torch"}
Tags == BuildTags \cup {"verified", "ghcr_base", "ghcr_torch"}
GhcrTag == [base |-> "ghcr_base", torch |-> "ghcr_torch"]

Init ==
  /\ BuildInit(Tags, <<>>)
  /\ report = None /\ runs = 0 /\ qualified = {} /\ stray = {} /\ faults = 0
  /\ records = [r \in 1 .. MaxRuns |-> None] /\ sboms = {}
  /\ pushed = [k \in Kinds |-> {}] /\ release = [k \in Kinds |-> None]
  /\ public = {} /\ observed = None /\ manifest = None

Clean == tree = head

-----------------------------------------------------------------------------
(* container-check --suite: qualification on the GPU.                      *)

\* The image reference is resolved to an id once; every check runs on the id.
QualifyStart(w) ==
  /\ runs < MaxRuns /\ tag["torch"] # None
  /\ Begin(w, [IdleJob EXCEPT !.pc = "qualify", !.torch = tag["torch"],
                              !.rev = LockOf[tree]])
  /\ UNCHANGED <<sourceVars, storeVars, metadata, context,
                 evidence, registry, observed, manifest, failures>>

\* Mutant: the report carries the number of the run before.
MutQualifyReport(w, passed) ==
  /\ At(w, "qualify") /\ runs < MaxRuns
  /\ passed => job[w].torch \in local
  /\ runs' = runs + 1
  /\ report' = [run |-> runs, image |-> job[w].torch,
                locks |-> job[w].rev, passed |-> passed]
  /\ qualified' = IF passed THEN qualified \cup {job[w].torch} ELSE qualified
  /\ Continue(w, IdleJob)
  /\ UNCHANGED <<sourceVars, storeVars, metadata, context,
                 records, sboms, registry, observed, manifest, failures>>

\* The report replaces the one of an earlier run.  All checks pass, or the
\* suite stops at the first that does not; an image that is gone passes none.
QualifyReport(w, passed) ==
  /\ At(w, "qualify") /\ runs < MaxRuns
  /\ passed => job[w].torch \in local
  /\ runs' = runs + 1
  /\ report' = [run |-> runs + 1, image |-> job[w].torch,
                locks |-> job[w].rev, passed |-> passed]
  /\ qualified' = IF passed THEN qualified \cup {job[w].torch} ELSE qualified
  /\ Continue(w, IdleJob)
  /\ UNCHANGED <<sourceVars, storeVars, metadata, context,
                 records, sboms, registry, observed, manifest, failures>>

-----------------------------------------------------------------------------
(* amd-ai-release: create_release and publish_release_artifacts.           *)

ReleaseStart(w) ==
  /\ report # None /\ tag["torch"] # None
  /\ Begin(w, [IdleJob EXCEPT !.pc = "release", !.run = report,
                              !.torch = tag["torch"]])
  /\ UNCHANGED <<sourceVars, storeVars, metadata, context,
                 evidence, registry, observed, manifest, failures>>

\* The report passed on this very id with the profile of the tree, the locks
\* in the image are those of the tree, and the tree is committed.
Releasable(r, i) ==
  /\ r.passed /\ r.image = i /\ r.locks = LockOf[tree]
  /\ i \in local
  /\ images[i].locks = LockOf[tree]
  /\ images[images[i].parent].locks = LockOf[tree]
  /\ Clean

ReleaseVerify(w) ==
  /\ At(w, "release")
  /\ Releasable(job[w].run, job[w].torch)
  /\ records[job[w].run.run] = None /\ job[w].run.run \notin sboms
  /\ Continue(w, [job[w] EXCEPT !.pc = "release_tag", !.rev = head])
  /\ UNCHANGED <<sourceVars, storeVars, metadata, context,
                 evidence, registry, observed, manifest, failures>>

\* _tag_verified_image.  The id is tagged, not the reference it came from; the
\* id the tag had is kept for the rollback.  A tag that names the image already
\* is left alone.
ReleaseTag(w) ==
  /\ At(w, "release_tag")
  /\ LET torch == job[w].torch
         moves == tag["verified"] # torch
     IN /\ moves => torch \in local
        /\ tag' = IF moves THEN [tag EXCEPT !["verified"] = torch] ELSE tag
        /\ Continue(w, [job[w] EXCEPT
             !.pc = IF moves THEN "release_check" ELSE "release_sbom",
             !.prev = tag["verified"]])
  /\ UNCHANGED <<sourceVars, images, local, metadata, context,
                 evidence, registry, observed, manifest, failures>>

\* The tag that was moved is looked up again.
ReleaseCheck(w) ==
  /\ At(w, "release_check") /\ tag["verified"] = job[w].torch
  /\ Continue(w, [job[w] EXCEPT !.pc = "release_sbom"])
  /\ UNCHANGED <<sourceVars, storeVars, metadata, context,
                 evidence, registry, observed, manifest, failures>>

Fault == faults < MaxFaults /\ faults' = faults + 1

\* The command ends; the tag it moved may be left without a record.
Leave(w) ==
  /\ stray' = stray \cup ({job[w].torch} \cap {tag'["verified"]})
  /\ Continue(w, IdleJob)

\* The look-up fails or finds another image.  The caller takes the tag for
\* unchanged, because _tag_verified_image raised, and restores nothing.
ReleaseUnchecked(w) ==
  /\ At(w, "release_check")
  /\ \/ Fault
     \/ tag["verified"] # job[w].torch /\ UNCHANGED faults
  /\ UNCHANGED <<sourceVars, storeVars, metadata, context,
                 evidence, registry, observed, manifest>>
  /\ Leave(w)

ReleaseSbom(w) ==
  /\ At(w, "release_sbom")
  /\ sboms' = sboms \cup {job[w].run.run}
  /\ Continue(w, [job[w] EXCEPT !.pc = "release_record"])
  /\ UNCHANGED <<sourceVars, storeVars, metadata, context, report, runs,
                 records, qualified, registry, observed, manifest, failures>>

ReleaseRecord(w) ==
  /\ At(w, "release_record")
  /\ records' = [records EXCEPT ![job[w].run.run] =
       [image |-> job[w].torch, rev |-> job[w].rev, report |-> job[w].run]]
  /\ Continue(w, IdleJob)
  /\ UNCHANGED <<sourceVars, storeVars, metadata, context, report, runs,
                 sboms, qualified, registry, observed, manifest, failures>>

\* Writing an artifact failed.
ReleaseFails(w) ==
  /\ job[w].pc \in {"release_sbom", "release_record"}
  /\ Continue(w, [job[w] EXCEPT !.pc = "rollback"])
  /\ UNCHANGED <<sourceVars, storeVars, metadata, context,
                 evidence, registry, observed, manifest, failures>>

\* Mutant: a rollback forgets that there was no verified tag.
MutRestoreTag(j) ==
  CASE j.prev \in {j.torch, None} -> UNCHANGED <<local, tag>>
    [] OTHER -> /\ j.prev \in local
                /\ tag' = [tag EXCEPT !["verified"] = j.prev]
                /\ UNCHANGED local

\* A tag that was moved goes back to the id it had, or away.
RestoreTag(j) ==
  CASE j.prev = j.torch -> UNCHANGED <<local, tag>>
    [] j.prev = None    -> tag["verified"] # None /\ RemoveTag("verified")
    [] OTHER            -> /\ j.prev \in local
                           /\ tag' = [tag EXCEPT !["verified"] = j.prev]
                           /\ UNCHANGED local

ReleaseRollback(w) ==
  /\ At(w, "rollback")
  /\ RestoreTag(job[w])
  /\ sboms' = sboms \ {job[w].run.run}
  /\ Continue(w, IdleJob)
  /\ UNCHANGED <<sourceVars, images, metadata, context, report, runs,
                 records, qualified, registry, observed, manifest, failures>>

\* The earlier image, or the tag itself, is gone, or docker fails, before the
\* tag is back or at the look-up that follows: the tool says so, and leaves the
\* tag as it is and the SPDX file.
Unrestorable(j) == IF j.prev = None THEN tag["verified"] = None
                   ELSE j.prev \notin local

RollbackFails(w) ==
  /\ At(w, "rollback") /\ job[w].prev # job[w].torch
  /\ \/ Unrestorable(job[w]) /\ UNCHANGED <<local, tag, faults>>
     \/ Fault /\ UNCHANGED <<local, tag>>
     \/ Fault /\ RestoreTag(job[w])
  /\ Leave(w)
  /\ UNCHANGED <<sourceVars, images, metadata, context,
                 evidence, registry, observed, manifest>>

-----------------------------------------------------------------------------
(* publish-release --push-only.                                            *)

\* _validate_qualification: the report passed on this id with this profile.
QualificationPasses(t) ==
  report.passed /\ report.image = t /\ report.locks = LockOf[tree]

\* Mutant: the record is not compared with the local Torch image.
MutEvidenceFor(r, t) ==
  /\ records[r] # None /\ r \in sboms
  /\ records[r].rev = head
  /\ records[r].report = report
  /\ report.passed /\ report.locks = LockOf[tree]
  /\ images[t].rev = head

\* validate_publish_inputs: the record is of this commit and of this id, and
\* the report file is still the one it was made from.
EvidenceFor(r, t) ==
  /\ records[r] # None /\ r \in sboms
  /\ records[r].rev = head
  /\ records[r].image = t
  /\ records[r].report = report
  /\ QualificationPasses(t)
  /\ images[t].rev = head

\* verify_publish_candidate_local_images: labels and embedded files.
Carries(i, rev, locks) == images[i].rev = rev /\ images[i].locks = locks

Candidate(r) ==
  /\ Clean
  /\ {tag["base"], tag["torch"]} \subseteq local
  /\ EvidenceFor(r, tag["torch"])
  /\ \A k \in Kinds : Carries(tag[k], head, LockOf[tree])

PublishStart(w) ==
  /\ \E r \in 1 .. runs :
       /\ Candidate(r)
       /\ Begin(w, [IdleJob EXCEPT !.pc = "pub_tag", !.kind = "base",
                      !.rev = head, !.run = r, !.base = tag["base"],
                      !.torch = tag["torch"]])
  /\ UNCHANGED <<sourceVars, storeVars, metadata, context,
                 evidence, registry, observed, manifest, failures>>

ImageOf(j) == IF j.kind = "base" THEN j.base ELSE j.torch

PublishTag(w) ==
  /\ At(w, "pub_tag")
  /\ ImageOf(job[w]) \in local
  /\ tag' = [tag EXCEPT ![GhcrTag[job[w].kind]] = ImageOf(job[w])]
  /\ Continue(w, [job[w] EXCEPT !.pc = "pub_push"])
  /\ UNCHANGED <<sourceVars, images, local, metadata, context,
                 evidence, registry, observed, manifest, failures>>

\* docker push sends whatever the local tag names by now.
PublishPush(w) ==
  /\ At(w, "pub_push")
  /\ LET k == job[w].kind
         i == tag[GhcrTag[k]]
     IN /\ i # None
        /\ pushed' = [pushed EXCEPT ![k] = @ \cup {i}]
        /\ release' = [release EXCEPT ![k] = i]
  /\ Continue(w, [job[w] EXCEPT !.pc = "pub_observe"])
  /\ UNCHANGED <<sourceVars, storeVars, metadata, context, evidence, public,
                 observed, manifest, failures>>

\* What the registry returns is the local image, with the files of the source.
MatchesCandidate(i, j) ==
  i = ImageOf(j) /\ Carries(i, j.rev, LockOf[j.rev])

\* The release tag is pulled back and must be the image that was pushed.
PublishObserve(w) ==
  /\ At(w, "pub_observe")
  /\ LET k == job[w].kind
         i == release[k]
     IN /\ tag' = [tag EXCEPT ![GhcrTag[k]] = i]
        /\ local' = local \cup {i}
        /\ Continue(w, IF ~MatchesCandidate(i, job[w]) THEN IdleJob
                       ELSE IF k = "base"
                       THEN [job[w] EXCEPT !.pc = "pub_tag", !.kind = "torch"]
                       ELSE [job[w] EXCEPT !.pc = "pub_write"])
  /\ UNCHANGED <<sourceVars, images, metadata, context,
                 evidence, registry, observed, manifest, failures>>

Release(j) == [rev |-> j.rev, run |-> j.run, base |-> j.base,
               torch |-> j.torch]

PublishWrite(w) ==
  /\ At(w, "pub_write")
  /\ observed' = Release(job[w])
  /\ Continue(w, IdleJob)
  /\ UNCHANGED <<sourceVars, storeVars, metadata, context,
                 evidence, registry, manifest, failures>>

-----------------------------------------------------------------------------
(* publish-release: the stable manifest.                                   *)

MakePublic(k) ==
  /\ k \notin public /\ public' = public \cup {k}
  /\ UNCHANGED <<buildVars, evidence, pushed, release, observed, manifest,
                 failures>>

\* The evidence is validated again, and what was pushed must match it.
StableStart(w) ==
  /\ observed # None
  /\ Candidate(observed.run)
  /\ LET j == [IdleJob EXCEPT !.pc = "anonymous", !.kind = "base",
                 !.rev = head, !.run = observed.run, !.base = tag["base"],
                 !.torch = tag["torch"]]
     IN Release(j) = observed /\ Begin(w, j)
  /\ UNCHANGED <<sourceVars, storeVars, metadata, context,
                 evidence, registry, observed, manifest, failures>>

\* verify_release_image: labels and embedded files are those of the manifest.
ReleaseImageVerified(i, r) == Carries(i, r.rev, LockOf[r.rev])

\* Mutant: the base image is verified with the maintainer's own credentials.
MutAnonymousVerify(w) ==
  /\ At(w, "anonymous")
  /\ LET k == job[w].kind
         i == ImageOf(job[w])
     IN /\ k = "torch" => k \in public
        /\ i \in pushed[k]
        /\ ReleaseImageVerified(i, Release(job[w]))
        /\ local' = local \cup {i}
        /\ Continue(w, IF k = "base" THEN [job[w] EXCEPT !.kind = "torch"]
                       ELSE [job[w] EXCEPT !.pc = "stable_write"])
  /\ UNCHANGED <<sourceVars, images, tag, metadata, context,
                 evidence, registry, observed, manifest, failures>>

\* Pull by digest without credentials, then labels and embedded files.
AnonymousVerify(w) ==
  /\ At(w, "anonymous")
  /\ LET k == job[w].kind
         i == ImageOf(job[w])
     IN /\ k \in public /\ i \in pushed[k]
        /\ ReleaseImageVerified(i, Release(job[w]))
        /\ local' = local \cup {i}
        /\ Continue(w, IF k = "base" THEN [job[w] EXCEPT !.kind = "torch"]
                       ELSE [job[w] EXCEPT !.pc = "stable_write"])
  /\ UNCHANGED <<sourceVars, images, tag, metadata, context,
                 evidence, registry, observed, manifest, failures>>

StableWrite(w) ==
  /\ At(w, "stable_write")
  /\ manifest' = Release(job[w])
  /\ Continue(w, IdleJob)
  /\ UNCHANGED <<sourceVars, storeVars, metadata, context,
                 evidence, registry, observed, failures>>

-----------------------------------------------------------------------------
\* A check refuses or a docker command fails before anything needs undoing.
PublishFails(w) ==
  /\ job[w].pc \in {"qualify", "release", "release_tag", "pub_tag",
                    "pub_push", "pub_observe", "pub_write", "anonymous",
                    "stable_write"}
  /\ Continue(w, IdleJob)
  /\ UNCHANGED <<sourceVars, storeVars, metadata, context,
                 evidence, registry, observed, manifest, failures>>

\* The release tool is killed while tag and artifacts disagree.
TagWindow == {"release_check", "release_sbom", "release_record", "rollback"}

ReleaseKilled(w) ==
  /\ job[w].pc \in TagWindow
  /\ Fault
  /\ UNCHANGED <<sourceVars, storeVars, metadata, context,
                 evidence, registry, observed, manifest>>
  /\ Leave(w)

BuildOrEdit ==
  /\ \/ Edit \/ Commit
     \/ \E w \in Workers : BuildNext(w, {}, {})
  /\ UNCHANGED <<evidence, registry, observed, manifest, failures>>

Qualification(w) ==
  QualifyStart(w) \/ \E passed \in BOOLEAN : QualifyReport(w, passed)

GpuRelease(w) ==
  \/ ReleaseStart(w) \/ ReleaseVerify(w) \/ ReleaseTag(w) \/ ReleaseCheck(w)
  \/ ReleaseUnchecked(w) \/ ReleaseSbom(w) \/ ReleaseRecord(w)
  \/ ReleaseFails(w) \/ ReleaseRollback(w) \/ RollbackFails(w)
  \/ ReleaseKilled(w)

Publish(w) ==
  \/ PublishStart(w) \/ PublishTag(w) \/ PublishPush(w) \/ PublishObserve(w)
  \/ PublishWrite(w) \/ StableStart(w) \/ AnonymousVerify(w) \/ StableWrite(w)
  \/ PublishFails(w)

Next ==
  \/ BuildOrEdit
  \/ \E w \in Maintainers : Qualification(w) \/ GpuRelease(w) \/ Publish(w)
  \/ \E k \in Kinds : MakePublic(k)

Spec == Init /\ [][Next]_vars

-----------------------------------------------------------------------------
(* Properties.                                                             *)

OrNone(S) == S \cup {None}
Images == [kind : BuildTags, rev : Versions, locks : Locks, parent : OrNone(Ids)]
Published == [rev : Versions, run : 1 .. MaxRuns, base : Ids, torch : Ids]

\* The types of all variables; every tag, pushed manifest and report names an
\* image that was made, and a tag an image that is in the store.
TypeOK ==
  /\ tree \in Versions /\ head \in Versions
  /\ images \in Seq(Images) /\ Len(images) <= MaxImages
  /\ local \subseteq DOMAIN images
  /\ tag \in [Tags -> OrNone(local)]
  /\ metadata \in [BuildTags -> OrNone(DOMAIN images)]
  /\ report \in OrNone(Report) /\ runs \in 0 .. MaxRuns
  /\ sboms \subseteq 1 .. runs
  /\ records \in [1 .. MaxRuns -> OrNone(Record)]
  /\ pushed \in [Kinds -> SUBSET DOMAIN images]
  /\ DOMAIN release = Kinds
  /\ \A k \in Kinds : release[k] \in OrNone(pushed[k])
  /\ public \subseteq Kinds
  /\ qualified \subseteq DOMAIN images /\ stray \subseteq DOMAIN images
  /\ observed \in OrNone(Published) /\ manifest \in OrNone(Published)
  /\ faults \in 0 .. MaxFaults

\* Docs gpu-qualification.md, section 3: the verified tag only ever names an
\* id that passed the hardware suite and has a release record for it, while
\* builds may move the Torch tag under the release tool and artifacts may fail
\* to be written.  Besides the image of a release in progress, the only ids it
\* names without a record are those that a release moved it to and left there:
\* one that could not look the tag up again, could not restore it, or was
\* killed; and those go back under the tag only when a later release fails.
Releasing(i) == \E w \in Workers : job[w].pc \in TagWindow /\ job[w].torch = i

VerifiedTagRecorded ==
  LET i == tag["verified"]
  IN i # None =>
       /\ i \in qualified
       /\ \/ \E r \in 1 .. runs : records[r] # None /\ records[r].image = i
          \/ Releasing(i)
          \/ i \in stray

\* Docs release-chain.md: the stable manifest binds one commit, the Torch image
\* that a passed qualification and a release record name by id, and images whose
\* label and embedded locks are those of the commit, however builds, edits,
\* qualifications and publications interleave.
ManifestQualified ==
  manifest # None =>
    /\ manifest.torch \in qualified
    /\ records[manifest.run] # None
    /\ records[manifest.run].image = manifest.torch
    /\ \A i \in {manifest.base, manifest.torch} :
         Carries(i, manifest.rev, LockOf[manifest.rev])

\* What the manifest names can be pulled by anybody: both digests are in the
\* registry and both packages are public.
ManifestServed ==
  manifest # None =>
    /\ manifest.base \in pushed["base"] /\ manifest.torch \in pushed["torch"]
    /\ public = Kinds
=============================================================================
