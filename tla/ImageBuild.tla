----------------------------- MODULE ImageBuild -----------------------------
(***************************************************************************)
(* The image commands of one machine (image/build.py): the builds of the   *)
(* ROCm and of the Torch image and the removal of old images.  Commands    *)
(* hold no lock: any two run side by side on one Docker store, one source  *)
(* tree, one BuildKit metadata file per tag and one profile context.       *)
(*                                                                         *)
(* An image is known by its immutable id, a number in the order the images *)
(* were made.  A version is a content of the tracked files; the commit of  *)
(* a version is named by the version.  LockOf maps a version to what its   *)
(* lock and profile files say, None where they do not validate.            *)
(***************************************************************************)
EXTENDS Integers, Sequences, FiniteSets, FiniteSetsExt

CONSTANTS Workers,      \* the commands that run at a time
          Builders,     \* those of them that build and prune images
          Versions,     \* contents of the tracked files
          LockOf,       \* [Versions -> lock contents, or None]
          MaxImages,    \* bound: images ever made
          MaxEdits,     \* bound: edits of the source tree
          None

ASSUME ImageBuildAssumption ==
  /\ MaxImages \in Nat \ {0} /\ MaxEdits \in Nat
  /\ IsFiniteSet(Workers) /\ Builders \subseteq Workers
  /\ 0 \in Versions /\ DOMAIN LockOf = Versions
  /\ None \notin 1 .. MaxImages

VARIABLES tree,         \* version in the working tree
          head,         \* committed version; the tree is clean iff tree = head
          edits,        \* edits so far
          images,       \* what is in every image ever made, by id
          local,        \* ids in the local store
          tag,          \* local tag -> id, or None
          metadata,     \* BuildKit metadata file of a tag: id, or None
          context,      \* lock contents in the shared profile context
          job           \* what each worker is doing

storeVars == <<images, local, tag>>
sourceVars == <<tree, head, edits>>
buildVars == <<tree, head, edits, images, local, tag, metadata, context, job>>

Ids == 1 .. MaxImages
BuildTags == {"base", "torch"}

\* What a running command remembers between two steps.
IdleJob == [pc |-> "idle", rev |-> None, locks |-> None, base |-> None,
            torch |-> None, prev |-> None, run |-> None, kind |-> None,
            todo |-> {}]

At(w, pc) == job[w].pc = pc
Continue(w, j) == job' = [job EXCEPT ![w] = j]
Begin(w, j) == At(w, "idle") /\ Continue(w, j)

BuildInit(tags, made) ==
  /\ tree = 0 /\ head = 0 /\ edits = 0
  /\ images = made /\ local = {} /\ tag = [t \in tags |-> None]
  /\ metadata = [t \in BuildTags |-> None]
  /\ context = None
  /\ job = [w \in Workers |-> IdleJob]

-----------------------------------------------------------------------------
(* The Docker store.                                                       *)

\* A build either finds its result in the build cache or makes a new image;
\* --load puts it into the store and moves the tag.
LoadImage(t, contents) ==
  \E i \in {k \in DOMAIN images : images[k] = contents}
             \cup ({Len(images) + 1} \cap Ids) :
    /\ images' = IF i \in DOMAIN images THEN images
                 ELSE Append(images, contents)
    /\ local' = local \cup {i}
    /\ tag' = [tag EXCEPT ![t] = i]

\* The metadata file of the build names the image.
Load(t, contents) ==
  /\ LoadImage(t, contents)
  /\ metadata' = [metadata EXCEPT ![t] = tag'[t]]

\* The names of an image: its tags, the alias that pins the parent of a build,
\* and the digest it was pulled by, if it was not built here.
TagsOf(i) == {t \in DOMAIN tag : tag[t] = i}
BuiltHere(i) == images[i].rev # None
Aliased(i) == \E k \in DOMAIN images : images[k].parent = i /\ BuiltHere(k)
Names(i) == Cardinality(TagsOf(i)) + (IF Aliased(i) THEN 1 ELSE 0)
                                   + (IF BuiltHere(i) THEN 0 ELSE 1)

\* The image and all its names go.
Drop(i) ==
  /\ local' = local \ {i}
  /\ tag' = [t \in DOMAIN tag |-> IF tag[t] = i THEN None ELSE tag[t]]

\* docker image rm <id>: refused when several names refer to the image or a
\* container uses it; otherwise its name goes with it.
RemoveById(i, inUse) ==
  /\ i \in local \ inUse
  /\ Names(i) <= 1
  /\ Drop(i)

\* docker image rm <tag>: the image goes with its last tag.
RemoveTag(t) ==
  /\ tag' = [tag EXCEPT ![t] = None]
  /\ local' = IF TagsOf(tag[t]) = {t} THEN local \ {tag[t]} ELSE local

-----------------------------------------------------------------------------
(* The source tree is edited and committed by hand.                        *)

Edit == /\ edits < MaxEdits /\ edits' = edits + 1
        /\ tree' \in Versions \ {tree}
        /\ UNCHANGED <<head, storeVars, metadata, context, job>>
Commit == /\ tree # head /\ head' = tree
          /\ UNCHANGED <<tree, edits, storeVars, metadata, context, job>>

\* The lock files, keyring and wheels of the tree pass their validation.
LocksValid == LockOf[tree] # None

-----------------------------------------------------------------------------
(* image build rocm-python.                                                *)

BaseImage(j) ==
  [kind |-> "base", rev |-> j.rev, locks |-> j.locks, parent |-> None]

\* Locks and revision are read and the metadata of an earlier build removed ...
BaseStart(w) ==
  /\ LocksValid
  /\ Begin(w, [IdleJob EXCEPT !.pc = "base_build", !.rev = head])
  /\ metadata' = [metadata EXCEPT !["base"] = None]
  /\ UNCHANGED <<sourceVars, storeVars, context>>

\* ... buildx copies the lock files that are in the tree when it starts ...
BaseRead(w) ==
  /\ At(w, "base_build")
  /\ Continue(w, [job[w] EXCEPT !.pc = "base_load", !.locks = LockOf[tree]])
  /\ UNCHANGED <<sourceVars, storeVars, metadata, context>>

\* ... and loads the image, which moves the tag, when it ends: meanwhile the
\* tree may be edited, and another build may start, end, or both.
BaseLoad(w) ==
  /\ At(w, "base_load")
  /\ Load("base", BaseImage(job[w]))
  /\ Continue(w, [job[w] EXCEPT !.pc = "base_loaded"])
  /\ UNCHANGED <<sourceVars, context>>

\* The id behind the tag must be the one in the metadata file.
Loaded(t) == tag[t] # None /\ metadata[t] = tag[t]

BaseLoaded(w) ==
  /\ At(w, "base_loaded")
  /\ Loaded("base")
  /\ Continue(w, [job[w] EXCEPT !.pc = "base_built", !.base = tag["base"]])
  /\ UNCHANGED <<sourceVars, storeVars, metadata, context>>

-----------------------------------------------------------------------------
(* image build rocm-pytorch, with the stable profile.                      *)

TorchImage(j) ==
  [kind |-> "torch", rev |-> j.rev, locks |-> j.locks, parent |-> j.base]

\* The build reads profile and requirements from a directory that is named by
\* the profile, emptied and filled again by every build.
ProfileContext == context' = LockOf[tree]

\* The parent is the id that the base tag has now, pinned by an alias made of
\* the id.
TorchStart(w) ==
  /\ LocksValid
  /\ tag["base"] # None
  /\ Begin(w, [IdleJob EXCEPT !.pc = "torch_build", !.rev = head,
                              !.base = tag["base"]])
  /\ ProfileContext
  /\ metadata' = [metadata EXCEPT !["torch"] = None]
  /\ UNCHANGED <<sourceVars, storeVars>>

\* buildx takes parent and profile context when it starts ...
TorchRead(w) ==
  /\ At(w, "torch_build")
  /\ job[w].base \in local
  /\ Continue(w, [job[w] EXCEPT !.pc = "torch_load", !.locks = context])
  /\ UNCHANGED <<sourceVars, storeVars, metadata, context>>

\* ... and moves the tag when it ends.
TorchLoad(w) ==
  /\ At(w, "torch_load")
  /\ Load("torch", TorchImage(job[w]))
  /\ Continue(w, [job[w] EXCEPT !.pc = "torch_loaded"])
  /\ UNCHANGED <<sourceVars, context>>

\* The alias still names the parent, the tag the image of the metadata file,
\* and the image has the labels of the profile.
TorchLoaded(w) ==
  /\ At(w, "torch_loaded")
  /\ job[w].base \in local
  /\ Loaded("torch")
  /\ images[tag["torch"]].kind = "torch"
  /\ Continue(w, [job[w] EXCEPT !.pc = "torch_built", !.torch = tag["torch"]])
  /\ UNCHANGED <<sourceVars, storeVars, metadata, context>>

\* container-check passes on the tag and the command prints its result.
BuildReturns(w) ==
  /\ job[w].pc \in {"base_built", "torch_built"}
  /\ Continue(w, IdleJob)
  /\ UNCHANGED <<sourceVars, storeVars, metadata, context>>

-----------------------------------------------------------------------------
(* image prune --apply.                                                    *)

\* The ids in the project configurations first, then the stable tags.
PruneStart(w, configured) ==
  /\ Begin(w, [IdleJob EXCEPT !.pc = "prune_select",
       !.todo = configured \cup ({tag[t] : t \in BuildTags} \ {None})])
  /\ UNCHANGED <<sourceVars, storeVars, metadata, context>>

\* Images with a profile or a project label are managed; base images have
\* neither.  Ids are in the order of creation, so the age filter is a prefix.
Prunable(protected, cutoff) ==
  {i \in local : /\ images[i].kind # "base"
                 /\ i \notin protected
                 /\ i <= cutoff}

PruneSelect(w, running) ==
  /\ At(w, "prune_select")
  /\ \E cutoff \in Ids :
       Continue(w, [job[w] EXCEPT !.pc = "prune_remove",
                      !.todo = Prunable(job[w].todo \cup running, cutoff)])
  /\ UNCHANGED <<sourceVars, storeVars, metadata, context>>

PruneRemove(w, running) ==
  /\ At(w, "prune_remove") /\ job[w].todo # {}
  /\ LET i == Min(job[w].todo)
     IN /\ RemoveById(i, running)
        /\ Continue(w, [job[w] EXCEPT !.todo = @ \ {i}])
  /\ UNCHANGED <<sourceVars, images, metadata, context>>

\* The build cache is pruned last; images do not depend on it.
PruneDone(w) ==
  /\ At(w, "prune_remove") /\ job[w].todo = {}
  /\ Continue(w, IdleJob)
  /\ UNCHANGED <<sourceVars, storeVars, metadata, context>>

-----------------------------------------------------------------------------
\* A docker or build command fails, or the process is killed: these commands
\* undo nothing.
BuildPcs == {"base_build", "base_load", "base_loaded", "base_built",
             "torch_build", "torch_load", "torch_loaded", "torch_built",
             "prune_select", "prune_remove"}

BuildFails(w) ==
  /\ job[w].pc \in BuildPcs
  /\ Continue(w, IdleJob)
  /\ UNCHANGED <<sourceVars, storeVars, metadata, context>>

BuildNext(w, configured, running) ==
  /\ w \in Builders
  /\ \/ BaseStart(w)  \/ BaseRead(w)  \/ BaseLoad(w)  \/ BaseLoaded(w)
     \/ TorchStart(w) \/ TorchRead(w) \/ TorchLoad(w) \/ TorchLoaded(w)
     \/ BuildReturns(w)
     \/ PruneStart(w, configured) \/ PruneSelect(w, running)
     \/ PruneRemove(w, running)   \/ PruneDone(w)
     \/ BuildFails(w)
=============================================================================
