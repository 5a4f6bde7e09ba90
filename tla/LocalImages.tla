---------------------------- MODULE LocalImages ----------------------------
(***************************************************************************)
(* The images of a user's machine: how the installer obtains the two       *)
(* images of a release, from a list of replicas or by a local build, and   *)
(* binds the project to the Torch image; how project run reuses or         *)
(* rebuilds the project image; how repair restores parents and project     *)
(* image.  The commands share one Docker store, the friendly tags, the     *)
(* project directory and the source tree, and take no common lock; the     *)
(* build and prune commands of ImageBuild run beside them, and the         *)
(* project may be edited, deleted or made anew while they work.            *)
(*                                                                         *)
(* The release is images 1 (base) and 2 (Torch), which the registries have *)
(* and the machine does not have at first.  A read of a file or of one     *)
(* image record is one step; so is a docker command, but a build, which    *)
(* reads its context when it starts and moves its tag when it ends.        *)
(***************************************************************************)
EXTENDS ImageBuild, SequencesExt

CONSTANTS Installers,    \* workers that install and initialise projects
          Repairers,     \* workers that repair
          Runners,       \* workers that run the project
          Order,         \* registries in the order of the policy
          MaxChanges,    \* bound: changes of the project's build context
          MaxLosses,     \* bound: images, projects and parents of projects
                         \* removed or replaced by hand
          MaxCommands,   \* bound: commands started
          MaxEvents      \* bound: all of these and the edits of the source

ASSUME LocalImagesAssumption ==
  /\ Installers \cup Repairers \cup Runners \subseteq Workers
  /\ Order \in Seq(Range(Order)) /\ Order # <<>> /\ IsInjective(Order)
  /\ MaxChanges \in Nat /\ MaxLosses \in Nat
  /\ MaxCommands \in Nat /\ MaxEvents \in Nat
  /\ MaxImages >= 2

VARIABLES user,       \* what each worker's user command is doing
          selection,  \* images the installer has recorded, or None
          config,     \* parent in amd-ai-project.toml, or None
          content,    \* content of the project's build context
          changes,    \* changes of it so far
          losses,     \* removals and replacements by hand so far
          commands,   \* commands started so far
          overtaken   \* history: workers whose command was overtaken by a build

projectVars == <<selection, config, content, changes, losses>>
vars == <<buildVars, user, projectVars, commands, overtaken>>

Contents == {0, 1}
Tags == BuildTags \cup {"project"}
Kinds == {"base", "torch"}

\* load_stable_release: the images that the manifest names.  They were built
\* elsewhere, from the commit that the manifest names.
Release == [base |-> 1, torch |-> 2]
ReleaseImages ==
  <<[kind |-> "base", rev |-> None, locks |-> LockOf[0], parent |-> None],
    [kind |-> "torch", rev |-> None, locks |-> LockOf[0], parent |-> 1]>>

\* The commit of the checkout that the installer was started with.
Revision == 0

\* What is in the project directory, and what a fingerprint of it tells apart.
Context == [files |-> content, config |-> config]

\* What a user command remembers between two steps: the registries left, the
\* image it is at, the images selected, whether an identity check failed, the
\* configuration it loaded, the fingerprint of the context and the context its
\* build has copied, what repair planned; seen is the number of edits when it
\* validated the source.
IdleUser == [pc |-> "idle", cmd |-> None, left |-> <<>>, kind |-> None,
             sel |-> None, mismatch |-> FALSE, cfg |-> None, fp |-> None,
             copied |-> None, seen |-> 0, force |-> FALSE, rebuild |-> FALSE,
             prev |-> None, image |-> None]

UserAt(w, pc) == user[w].pc = pc
Goto(w, u) == user' = [user EXCEPT ![w] = u]
Stop(w) == Goto(w, IdleUser)
Free(w) == UserAt(w, "idle") /\ At(w, "idle")

\* docker ps: the images of the running project containers.
running == {user[w].image : w \in {v \in Workers : UserAt(v, "container")}}

Init ==
  /\ BuildInit(Tags, ReleaseImages)
  /\ user = [w \in Workers |-> IdleUser]
  /\ selection = None /\ config = None /\ content = 0
  /\ changes = 0 /\ losses = 0 /\ commands = 0 /\ overtaken = {}

-----------------------------------------------------------------------------
(* The registries.                                                         *)

\* load_registry_policy: an order for "auto", and the names that may be chosen.
Policy == [auto |-> Order, choices |-> Range(Order)]

Candidates == {Policy.auto} \cup {<<r>> : r \in Policy.choices}

\* What doctor puts first: the reference that the installer recorded for the
\* project or one that is here already, by its place among the candidates.
Preferred(s) == DOMAIN s

\* Repair starts with the reference that doctor found or the installer recorded;
\* a registry is once in the policy, so no other candidate has it.
PreferredFirst(s, i) == <<s[i]>> \o RemoveAt(s, i)

-----------------------------------------------------------------------------
(* Acquisition of the release (installer and repair).                      *)

\* One installer runs at a time; it pulls, or builds from the checkout, unless
\* an earlier run recorded its images.
InstallStart(w) ==
  /\ Free(w) /\ \A v \in Workers : user[v].cmd # "install"
  /\ selection = None
  /\ \E s \in Candidates, pc \in {"pull", "validate"} :
       Goto(w, [IdleUser EXCEPT !.cmd = "install", !.pc = pc, !.left = s,
                                !.kind = "base"])
  /\ UNCHANGED <<buildVars, projectVars>>

InstallResumes(w) ==
  /\ Free(w) /\ \A v \in Workers : user[v].cmd # "install"
  /\ selection # None
  /\ Goto(w, [IdleUser EXCEPT !.cmd = "install", !.pc = "bind",
                              !.sel = selection])
  /\ UNCHANGED <<buildVars, projectVars>>

Pull(w) ==
  /\ UserAt(w, "pull")
  /\ local' = local \cup {Release[user[w].kind]}
  /\ Goto(w, [user[w] EXCEPT !.pc = "verify"])
  /\ UNCHANGED <<sourceVars, images, tag, metadata, context, job, projectVars>>

\* _pull_release_candidates: the next registry starts with the base image; after
\* the last one the installer asks for a local build and repair gives up.
NextCandidate(u) ==
  IF Len(u.left) > 1
  THEN [u EXCEPT !.pc = "pull", !.kind = "base", !.left = Tail(u.left)]
  ELSE IF u.cmd = "install" THEN [u EXCEPT !.pc = "fallback"] ELSE IdleUser

PullFails(w) ==
  /\ UserAt(w, "pull")
  /\ Goto(w, NextCandidate(user[w]))
  /\ UNCHANGED <<buildVars, projectVars>>

Verify(w) ==
  /\ UserAt(w, "verify")
  /\ Release[user[w].kind] \in local
  /\ Goto(w, IF user[w].kind = "base"
             THEN [user[w] EXCEPT !.pc = "pull", !.kind = "torch"]
             ELSE [user[w] EXCEPT !.pc = "verified", !.kind = "base",
                                  !.left = <<>>])
  /\ UNCHANGED <<buildVars, projectVars>>

\* id, config digest, RepoDigest, a label or an embedded file differs, or could
\* not be read: no other registry and no local build is tried.
VerifyFails(w) ==
  /\ UserAt(w, "verify")
  /\ Goto(w, [user[w] EXCEPT !.pc = "blocked", !.mismatch = TRUE])
  /\ UNCHANGED <<buildVars, projectVars>>

\* What was selected: the references of both images and the config digest of the
\* Torch image; quiet is history: no build of other sources overtook this one,
\* and the source was not edited back and forth meanwhile.
ReleaseSelection ==
  [source |-> "pull", base |-> Release.base, torch |-> Release.torch,
   digest |-> Release.torch, quiet |-> TRUE]

\* The installer records the exact references ...
RecordPulled(w) ==
  /\ UserAt(w, "verified") /\ user[w].cmd = "install"
  /\ selection' = ReleaseSelection
  /\ Goto(w, [IdleUser EXCEPT !.cmd = "install", !.pc = "bind",
                              !.sel = ReleaseSelection])
  /\ UNCHANGED <<buildVars, config, content, changes, losses>>

\* ... and repair points the friendly tags at them, one after the other.
RetagParent(w) ==
  /\ UserAt(w, "verified") /\ user[w].cmd = "repair"
  /\ LET k == user[w].kind
     IN /\ Release[k] \in local
        /\ tag' = [tag EXCEPT ![k] = Release[k]]
        /\ Goto(w, IF k = "base" THEN [user[w] EXCEPT !.kind = "torch"]
                   ELSE IF user[w].rebuild THEN [user[w] EXCEPT !.pc = "project"]
                   ELSE [IdleUser EXCEPT !.cmd = "repair", !.pc = "post"])
  /\ UNCHANGED <<sourceVars, images, local, metadata, context, job, projectVars>>

-----------------------------------------------------------------------------
(* Local build by the installer (build_local_images).                      *)

\* Only in a terminal, when the operator chooses it and the disk is large enough.
Fallback(w) ==
  /\ UserAt(w, "fallback")
  /\ Goto(w, [user[w] EXCEPT !.pc = "validate"])
  /\ UNCHANGED <<buildVars, projectVars>>

\* validate_local_build_source: the expected commit, and nothing modified.
SourceValid == head = Revision /\ tree = head

ValidateSource(w) ==
  /\ UserAt(w, "validate") /\ SourceValid
  /\ Goto(w, [user[w] EXCEPT !.pc = "base", !.seen = edits])
  /\ UNCHANGED <<buildVars, projectVars>>

\* The builds are those of ImageBuild; their results are handed back.
BuildStarts(w) ==
  /\ \/ UserAt(w, "base") /\ BaseStart(w)
     \/ UserAt(w, "torch") /\ TorchStart(w)
  /\ Goto(w, [user[w] EXCEPT !.pc = "building"])
  /\ UNCHANGED projectVars

BuildSteps(w) ==
  /\ UserAt(w, "building")
  /\ \/ BaseRead(w) \/ BaseLoad(w) \/ BaseLoaded(w)
     \/ TorchRead(w) \/ TorchLoad(w) \/ TorchLoaded(w)
  /\ UNCHANGED <<user, projectVars>>

BuildReturned(w) ==
  /\ UserAt(w, "building") /\ BuildReturns(w)
  /\ Goto(w, IF At(w, "base_built") THEN [user[w] EXCEPT !.pc = "torch"]
             ELSE [user[w] EXCEPT !.pc = "lookup", !.image = job[w].torch])
  /\ UNCHANGED projectVars

BuildAborted(w) ==
  /\ UserAt(w, "building") /\ BuildFails(w)
  /\ Stop(w)
  /\ UNCHANGED projectVars

\* _local_image_id: the references are looked up behind the tags; the digest
\* is the one the Torch build returned.
LookUp(w) ==
  /\ UserAt(w, "lookup")
  /\ {tag["base"], tag["torch"]} \subseteq local
  /\ Goto(w, [user[w] EXCEPT !.pc = "revalidate", !.image = None,
       !.sel = [source |-> "build", base |-> tag["base"],
                torch |-> tag["torch"], digest |-> user[w].image,
                quiet |-> FALSE]])
  /\ UNCHANGED <<buildVars, projectVars>>

Quiet(w) == w \notin overtaken /\ edits - user[w].seen < 2

\* Mutant: the source is not validated again after the builds.
MutRecordBuilt(w) ==
  /\ UserAt(w, "revalidate")
  /\ selection' = [user[w].sel EXCEPT !.quiet = Quiet(w)]
  /\ Goto(w, [user[w] EXCEPT !.pc = "bind", !.sel = selection', !.seen = 0])
  /\ UNCHANGED <<buildVars, config, content, changes, losses>>

\* The source must still be the one that was validated before the builds.
RecordBuilt(w) ==
  /\ UserAt(w, "revalidate") /\ SourceValid
  /\ selection' = [user[w].sel EXCEPT !.quiet = Quiet(w)]
  /\ Goto(w, [user[w] EXCEPT !.pc = "bind", !.sel = selection', !.seen = 0])
  /\ UNCHANGED <<buildVars, config, content, changes, losses>>

-----------------------------------------------------------------------------
(* The project and its parent (bind_selected_parent, initialize_project).  *)

\* project-init takes the Torch image of the release, which must be here.
ProjectInit(w) ==
  /\ Free(w) /\ Release.torch \in local
  /\ Goto(w, [IdleUser EXCEPT !.cmd = "init", !.pc = "bind",
                              !.sel = ReleaseSelection])
  /\ UNCHANGED <<buildVars, projectVars>>

\* Mutant: the tag is written without the image behind it.
MutBindParent(w) ==
  /\ UserAt(w, "bind")
  /\ tag' = [tag EXCEPT !["torch"] = user[w].sel.torch]
  /\ Goto(w, [user[w] EXCEPT !.pc = "bound"])
  /\ UNCHANGED <<sourceVars, images, local, metadata, context, job, projectVars>>

\* The friendly tag is moved to the selected image ...
BindParent(w) ==
  /\ UserAt(w, "bind") /\ user[w].sel.torch \in local
  /\ tag' = [tag EXCEPT !["torch"] = user[w].sel.torch]
  /\ Goto(w, [user[w] EXCEPT !.pc = "bound"])
  /\ UNCHANGED <<sourceVars, images, local, metadata, context, job, projectVars>>

\* ... and must name it when it is read back.
ParentBound(w) ==
  /\ UserAt(w, "bound") /\ tag["torch"] = user[w].sel.torch
  /\ Goto(w, [user[w] EXCEPT !.pc = "configure"])
  /\ UNCHANGED <<buildVars, projectVars>>

\* load_project_config: the local id is one of the verified pair, of which an
\* older project has no manifest.
ConfigValid(c) == c.base \in {c.manifest, c.digest}

\* _validate_selected_parent_config.
SelectedParent(c, s) ==
  /\ ConfigValid(c)
  /\ c.digest = s.digest /\ c.manifest \in {None, s.torch}
  /\ c.base \in {s.digest, s.torch}

\* A project that was there or that was just created is loaded and must have
\* the selected parent; project-init refuses one that is there.
KeepConfig(w) ==
  /\ user[w].pc \in {"configure", "created"} /\ user[w].cmd = "install"
  /\ config # None /\ SelectedParent(config, user[w].sel)
  /\ Goto(w, [user[w] EXCEPT !.pc = "context", !.sel = None, !.cfg = config])
  /\ UNCHANGED <<buildVars, projectVars>>

\* _resolve_base_image: what the friendly tag names now, which must be one of
\* the selected pair.
ResolvedBase(s) == {tag["torch"]} \cap {s.digest, s.torch}

\* A new project is bound to it.
CreateConfig(w) ==
  /\ UserAt(w, "configure") /\ config = None
  /\ \E i \in ResolvedBase(user[w].sel) :
       config' = [base |-> i, manifest |-> user[w].sel.torch,
                  digest |-> user[w].sel.digest]
  /\ Goto(w, IF user[w].cmd = "install" THEN [user[w] EXCEPT !.pc = "created"]
             ELSE IdleUser)
  /\ UNCHANGED <<buildVars, selection, content, changes, losses>>

-----------------------------------------------------------------------------
(* build_or_reuse_project (installer, project run and repair).             *)

\* The configuration is loaded once and kept for the rest of the command.
RunStart(w) ==
  /\ Free(w) /\ config # None /\ ConfigValid(config)
  /\ \E force \in BOOLEAN :
       Goto(w, [IdleUser EXCEPT !.cmd = "run", !.pc = "context",
                                !.cfg = config, !.force = force])
  /\ UNCHANGED <<buildVars, projectVars>>

\* Repair only builds for the parent of the release.
RepairConfig(w) ==
  /\ UserAt(w, "project") /\ config # None /\ ConfigValid(config)
  /\ config.digest = Release.torch
  /\ Goto(w, [user[w] EXCEPT !.pc = "context", !.cfg = config])
  /\ UNCHANGED <<buildVars, projectVars>>

\* build_context_fingerprint, of the directory as it is now.
Fingerprint(w) ==
  /\ UserAt(w, "context") /\ config # None
  /\ Goto(w, [user[w] EXCEPT !.pc = "decide", !.fp = Context])
  /\ UNCHANGED <<buildVars, projectVars>>

ParentPresent(c) == c.base \in local /\ images[c.base].kind = "torch"

\* Mutant: only the parent is compared.
MutFresh(i, u) == images[i].digest = u.cfg.digest

\* The labels of the current image are those of the present inputs.
Fresh(i, u) == images[i].rev = u.fp /\ images[i].digest = u.cfg.digest

\* validate_project_image_contract: the layers begin with those of the parent.
Contract(i, u) == images[i].parent = u.cfg.base

\* The image that may be used as it is, if there is one.
Reusable(u) ==
  {i \in {tag["project"]} \ {None} : ~u.force /\ Fresh(i, u)}

Reuse(w) ==
  /\ UserAt(w, "decide") /\ ParentPresent(user[w].cfg)
  /\ \E i \in Reusable(user[w]) :
       /\ Contract(i, user[w])
       /\ Goto(w, [user[w] EXCEPT !.pc = "ready", !.image = i])
  /\ UNCHANGED <<buildVars, projectVars>>

\* Missing, stale or forced: the parent gets an alias made of its id.
Rebuild(w) ==
  /\ UserAt(w, "decide") /\ ParentPresent(user[w].cfg)
  /\ Reusable(user[w]) = {}
  /\ Goto(w, [user[w] EXCEPT !.pc = "build"])
  /\ UNCHANGED <<buildVars, projectVars>>

\* The labels are those of the fingerprint, the files those that were copied.
ProjectImage(u) ==
  [kind |-> "project", rev |-> u.fp, locks |-> u.copied,
   parent |-> u.cfg.base, digest |-> u.cfg.digest]

\* buildx copies the context as it is when it starts ...
ProjectRead(w) ==
  /\ UserAt(w, "build") /\ config # None /\ user[w].cfg.base \in local
  /\ Goto(w, [user[w] EXCEPT !.pc = "copied", !.copied = Context])
  /\ UNCHANGED <<buildVars, projectVars>>

\* ... and moves the tag when it ends.
ProjectLoad(w) ==
  /\ UserAt(w, "copied")
  /\ LoadImage("project", ProjectImage(user[w]))
  /\ Goto(w, [user[w] EXCEPT !.pc = "built", !.copied = None])
  /\ UNCHANGED <<sourceVars, metadata, context, job, projectVars>>

\* The image behind the tag must have the labels and the parent.
ProjectBuilt(w) ==
  /\ UserAt(w, "built")
  /\ LET i == tag["project"]
     IN /\ i # None /\ Fresh(i, user[w]) /\ Contract(i, user[w])
        /\ Goto(w, [user[w] EXCEPT !.pc = "ready", !.image = i])
  /\ UNCHANGED <<buildVars, projectVars>>

\* inspect_project_image, by tag.
InspectProject(w) ==
  /\ UserAt(w, "ready") /\ user[w].cmd \in {"install", "run"}
  /\ tag["project"] # None
  /\ images[tag["project"]].digest = user[w].cfg.digest
  /\ Goto(w, [user[w] EXCEPT !.pc = "profile", !.image = None])
  /\ UNCHANGED <<buildVars, projectVars>>

\* load_project_protected_profile: the manifest of the Torch files, read in a
\* container of the tag; the installer is done with it.
LoadProfile(w) ==
  /\ UserAt(w, "profile") /\ tag["project"] # None
  /\ Goto(w, IF user[w].cmd = "run" THEN [user[w] EXCEPT !.pc = "start"]
             ELSE IdleUser)
  /\ UNCHANGED <<buildVars, projectVars>>

\* docker run, by tag.
StartContainer(w) ==
  /\ UserAt(w, "start") /\ tag["project"] # None
  /\ Goto(w, [user[w] EXCEPT !.pc = "container", !.image = tag["project"]])
  /\ UNCHANGED <<buildVars, projectVars>>

ContainerExits(w) ==
  /\ UserAt(w, "container") /\ Stop(w)
  /\ UNCHANGED <<buildVars, projectVars>>

-----------------------------------------------------------------------------
(* doctor --repair, the image part of it.                                  *)

\* The exact parent is missing, a friendly tag points elsewhere, or the project
\* has another parent.
ParentDrift ==
  \/ ~({Release.base, Release.torch} \subseteq local)
  \/ \E k \in Kinds : tag[k] \notin {None, Release[k]}
  \/ config.digest # Release.torch

\* The labels are not those of configuration and context, or there is no image.
ProjectChanged ==
  ~\E i \in {tag["project"]} \ {None} :
     images[i].digest = config.digest /\ images[i].rev = Context

\* The confirmed plan: pull the parents, rebuild the project image and remove the
\* recorded one, in this order, with what the diagnosis recorded.
PlanRepair(s, pull, rebuild) ==
  [IdleUser EXCEPT !.cmd = "repair", !.rebuild = rebuild, !.force = TRUE,
    !.kind = "base", !.left = s,
    !.prev = IF rebuild THEN tag["project"] ELSE None,
    !.pc = IF pull THEN "pull" ELSE "project"]

\* torchChanged: the protected files of parent or project image do not verify,
\* which is repaired like both.
Doctor(w) ==
  /\ Free(w) /\ config # None /\ ConfigValid(config)
  /\ \E torchChanged \in BOOLEAN, s \in Candidates :
       LET rebuild == torchChanged \/ ProjectChanged
           pull == torchChanged \/ ParentDrift
       IN /\ pull \/ rebuild
          /\ \E i \in Preferred(s) :
               Goto(w, PlanRepair(PreferredFirst(s, i), pull, rebuild))
  /\ UNCHANGED <<buildVars, projectVars>>

\* Mutant: the recorded image is removed without a look at the new id.
MutKept(u) == u.prev = None

\* Nothing was recorded, or the rebuild gave the same image again.
Kept(u) == u.prev \in {None, u.image}

\* The recorded image is removed by its id, after the rebuild.
RemoveChanged(w) ==
  /\ UserAt(w, "ready") /\ user[w].cmd = "repair"
  /\ IF Kept(user[w]) THEN UNCHANGED <<local, tag>>
     ELSE RemoveById(user[w].prev, running)
  /\ Goto(w, [IdleUser EXCEPT !.cmd = "repair", !.pc = "post"])
  /\ UNCHANGED <<sourceVars, images, metadata, context, job, projectVars>>

\* The overlay is repaired next (OverlayTransaction) and doctor runs again.
RepairDone(w) ==
  /\ UserAt(w, "post") /\ Stop(w)
  /\ UNCHANGED <<buildVars, projectVars>>

\* A check refuses, a docker command fails, the operator declines or the
\* process dies: nothing is undone.
UserFails(w) ==
  /\ user[w].pc \notin {"idle", "building", "container"}
  /\ Stop(w)
  /\ UNCHANGED <<buildVars, projectVars>>

-----------------------------------------------------------------------------
(* Changes from outside.                                                   *)

\* The operator edits the project.
ChangeContext ==
  /\ config # None
  /\ changes < MaxChanges /\ changes' = changes + 1
  /\ content' \in Contents \ {content}
  /\ UNCHANGED <<buildVars, user, selection, config, losses>>

\* project-lock resolves in a container of the parent and replaces the lock.
ProjectLock(w) ==
  /\ Free(w) /\ config # None /\ config.base \in local
  /\ ChangeContext

\* An image is removed by hand, with all its names.
LoseImage ==
  /\ losses < MaxLosses /\ losses' = losses + 1
  /\ \E i \in local \ running : Drop(i)
  /\ UNCHANGED <<sourceVars, images, metadata, context, job, user,
                 selection, config, content, changes>>

\* The project directory is deleted, with the installer's state or without it;
\* an installer that runs would write its state again.
DeleteProject ==
  /\ config # None /\ losses < MaxLosses /\ losses' = losses + 1
  /\ config' = None /\ content' = 0
  /\ \/ UNCHANGED selection
     \/ selection' = None /\ \A w \in Workers : user[w].cmd # "install"
  /\ UNCHANGED <<buildVars, user, changes>>

\* The project is bound to another parent by hand, as a project of another
\* directory or of an earlier toolkit, without a manifest, is.
ReplaceConfig ==
  /\ config # None /\ losses < MaxLosses /\ losses' = losses + 1
  /\ \E i \in {k \in DOMAIN images : images[k].kind = "torch"} :
       \E manifest \in {None, i} :
         config' = [base |-> i, manifest |-> manifest, digest |-> i]
  /\ config' # config
  /\ UNCHANGED <<buildVars, user, selection, content, changes>>

-----------------------------------------------------------------------------
Acquire(w) ==
  \/ Pull(w) \/ PullFails(w) \/ Verify(w) \/ VerifyFails(w)

Install(w) ==
  \/ InstallStart(w) \/ InstallResumes(w) \/ RecordPulled(w) \/ Fallback(w) \/ ValidateSource(w)
  \/ BuildStarts(w) \/ BuildSteps(w) \/ BuildReturned(w) \/ BuildAborted(w)
  \/ LookUp(w) \/ RecordBuilt(w)
  \/ ProjectInit(w) \/ BindParent(w) \/ ParentBound(w)
  \/ KeepConfig(w) \/ CreateConfig(w)

BuildOrReuse(w) ==
  \/ Fingerprint(w) \/ Reuse(w) \/ Rebuild(w) \/ ProjectRead(w) \/ ProjectLoad(w)
  \/ ProjectBuilt(w) \/ InspectProject(w) \/ LoadProfile(w)

Run(w) ==
  RunStart(w) \/ StartContainer(w) \/ ContainerExits(w)

Repair(w) ==
  \/ Doctor(w) \/ RetagParent(w) \/ RepairConfig(w)
  \/ RemoveChanged(w) \/ RepairDone(w)

Configured == IF config = None THEN {} ELSE {config.base}

\* A worker is in a command; a step that starts one is counted.
Busy(w) == ~UserAt(w, "idle") \/ ~At(w, "idle")

Step ==
  \/ \E w \in Workers :
       \/ Acquire(w) \/ BuildOrReuse(w) \/ UserFails(w)
       \/ w \in Installers /\ Install(w)
       \/ w \in Runners /\ (Run(w) \/ ProjectLock(w))
       \/ w \in Repairers /\ Repair(w)
       \/ /\ UserAt(w, "idle") /\ BuildNext(w, Configured, running)
          /\ UNCHANGED <<user, projectVars>>
  \/ (Edit \/ Commit) /\ UNCHANGED <<user, projectVars>>
  \/ ChangeContext \/ LoseImage \/ DeleteProject \/ ReplaceConfig

\* The builds of an installer whose tag moves back have ended; the look-up of
\* what is behind the tags has not.
BaseDone(u, j) ==
  \/ u.pc \in {"torch", "lookup"}
  \/ u.pc = "building" /\ j.pc \notin {"base_build", "base_load"}
TorchDone(u, j) ==
  \/ u.pc = "lookup"
  \/ u.pc = "building" /\ j.pc \in {"torch_loaded", "torch_built"}

\* A build of another command ends, which moves the tag.
BaseEnds(w) == At(w, "base_load") /\ At(w, "base_loaded")'
TorchEnds(w) == At(w, "torch_load") /\ At(w, "torch_loaded")'
ProjectEnds(w) == UserAt(w, "copied") /\ UserAt(w, "built")'

\* It read other sources, or was for another state of the project, and moves a
\* tag that the command of v has checked and will use.
Overtaken(v) ==
  LET u == user[v]
      OtherSource(w) == job[w].locks # LockOf[Revision]
      OtherInput(w) == user[w].fp # u.fp \/ user[w].cfg.base # u.cfg.base
      OtherParent(w) == user[w].cfg.digest # u.cfg.digest
  IN \E w \in Workers \ {v} :
       \/ BaseDone(u, job[v]) /\ BaseEnds(w) /\ OtherSource(w)
       \/ TorchDone(u, job[v]) /\ TorchEnds(w) /\ OtherSource(w)
       \/ u.pc \in {"ready", "profile", "start"} /\ ProjectEnds(w) /\ OtherInput(w)
       \/ u.pc \in {"profile", "start"} /\ ProjectEnds(w) /\ OtherParent(w)

Next ==
  /\ Step
  /\ commands' = commands + Cardinality({w \in Workers : ~Busy(w) /\ Busy(w)'})
  /\ commands' <= MaxCommands
  /\ commands' + edits' + changes' + losses' <= MaxEvents
  /\ overtaken' = {v \in Workers : user'[v].pc # "idle" /\ (v \in overtaken \/ Overtaken(v))}

Spec == Init /\ [][Next]_vars

-----------------------------------------------------------------------------
(* Properties.                                                             *)

OrNone(S) == S \cup {None}

\* The types of the variables; tags and recorded images name images that were
\* made, and a tag one that is in the store.
TypeOK ==
  /\ tree \in Versions /\ head \in Versions
  /\ DOMAIN images = 1 .. Len(images) /\ Len(images) \in 2 .. MaxImages
  /\ local \subseteq DOMAIN images
  /\ tag \in [Tags -> OrNone(local)]
  /\ metadata \in [BuildTags -> OrNone(DOMAIN images)]
  /\ selection # None =>
       /\ selection.source \in {"pull", "build"}
       /\ {selection.base, selection.torch, selection.digest} \subseteq DOMAIN images
  /\ config # None =>
       /\ {config.base, config.digest} \subseteq DOMAIN images
       /\ config.manifest \in OrNone(DOMAIN images)
  /\ content \in Contents /\ changes \in 0 .. MaxChanges
  /\ losses \in 0 .. MaxLosses /\ commands \in 0 .. MaxCommands
  /\ overtaken \subseteq Workers
  /\ \A w \in Workers : /\ user[w].left \in Seq(Range(Order))
                        /\ user[w].image \in OrNone(DOMAIN images)

\* Docs release-chain.md:32-33: an identity that does not match ends the command;
\* no other replica and no local build covers it up.  What the installer
\* records is the release, or was built from the commit the installer was
\* started with, although the checkout may change and other builds may move the
\* tags while it builds.  Nothing notices when a build of other sources ends
\* between the end of a build of the installer and its look-up of the tag, or
\* when two edits restore the source between the two validations.
SelectionTrusted ==
  /\ \A w \in Workers : user[w].mismatch => UserAt(w, "blocked")
  /\ selection # None =>
       IF selection.source = "pull"
       THEN {selection.base, selection.torch} = {Release.base, Release.torch}
       ELSE selection.quiet =>
              \A i \in {selection.base, selection.torch, selection.digest} :
                images[i].locks = LockOf[Revision]

\* Docs project-workflow.md:34 and 36: the container runs an image that was made
\* for the configuration the command loaded and has the fingerprint it took,
\* whatever tags were moved, images removed and rebuilt and projects edited
\* before.  Nothing notices when another build, of an older or newer state of the
\* project, ends after the last check and moves the tag.
ContainerMatchesConfig ==
  \A w \in Workers : UserAt(w, "container") =>
    LET u == user[w]
        i == images[u.image]
    IN /\ i.kind = "project"
       /\ w \notin overtaken =>
            i.digest = u.cfg.digest /\ i.parent = u.cfg.base /\ i.rev = u.fp

\* Docs doctor-repair.md:41: a repair removes the image it recorded, and never
\* the one it built: not when the build gave the recorded image again, and
\* whatever other commands did to tags and images meanwhile.
RepairKeepsImage ==
  [][\A w \in Workers :
       UserAt(w, "ready") /\ user[w].cmd = "repair" /\ user'[w].pc = "post" =>
         LET i == user[w].image
         IN /\ i \in local => i \in local'
            /\ \A t \in Tags : tag[t] = i => tag'[t] = i]_vars
=============================================================================
