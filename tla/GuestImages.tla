----------------------------- MODULE GuestImages -----------------------------
(***************************************************************************)
(* amba init: $AMBA_DATA_DIR with its version.txt, images and images-build, *)
(* and the steps of init/mod.rs and init/build.rs over it, any of which     *)
(* may be the last one before a crash.  ResumingDownload is the other way   *)
(* to acquire images.                                                      *)
(*                                                                         *)
(* External are the build script, which leaves what it left when it is     *)
(* killed and dies with amba, and chmod and umount.  At most one amba init *)
(* runs at a time: nothing in the code sees to that.                       *)
(***************************************************************************)
EXTENDS ResumingDownload

CONSTANTS Builds,      \* versions that are built
          Downloads,   \* versions that are downloaded
          MaxInits     \* bound: times amba init is started

Versions == Builds \cup Downloads

ASSUME ImagesAssumption ==
  /\ MaxInits \in Nat /\ Builds \cap Downloads = {} /\ {"none", "empty"} \cap Versions = {}

VARIABLES version,      \* version.txt: "none", "empty" or a version
          images,       \* images/
          building,     \* images-build/
          step,         \* the step of init that is next, "idle" when none runs
          initializer,  \* the version it acquires
          forced,       \* --force
          failedAt,     \* the step it panicked at
          inits         \* times it was started

directory == <<version, images, building>>
process == <<step, initializer, forced, failedAt, inits>>
imageVars == <<directory, process, download>>

None == [exists |-> FALSE]

\* whole: the three files of the assertions are there, and all of them.
\* mount: imagefs, where the script mounts the image, read-only.
Images == {None} \cup
  [exists : {TRUE}, of : Versions, whole : BOOLEAN, readonly : BOOLEAN,
   mount : {"none", "bare", "mounted"}]

\* readonly: packages of the kernel in .tmp-output are.
Buildings == {None} \cup [exists : {TRUE}, readonly : BOOLEAN]

Removals == {"chmod", "unmount", "remove", "sweep"}
Acquisitions == {"acquire", "making", "downloading"}
Steps == {"idle", "compare", "withdraw"} \cup Removals \cup Acquisitions
         \cup {"unmount new", "seal", "sweep new", "assert", "truncate", "write"}

ImagesTypeOK ==
  /\ DownloadTypeOK
  /\ version \in {"none", "empty"} \cup Versions
  /\ images \in Images
  /\ building \in Buildings
  /\ step \in Steps /\ failedAt \in Steps \cup {"none"}
  /\ initializer \in Versions /\ forced \in BOOLEAN
  /\ inits \in 0 .. MaxInits

ImagesInit ==
  /\ DownloadInit
  /\ version = "none" /\ images = None /\ building = None
  /\ step = "idle" /\ initializer \in Versions /\ forced = FALSE /\ failedAt = "none"
  /\ inits = 0

-----------------------------------------------------------------------------
Goto(next) == step' = next /\ UNCHANGED <<initializer, forced, failedAt, inits>>

Panic == step' = "idle" /\ failedAt' = step /\ UNCHANGED <<initializer, forced, inits>>

Start ==
  /\ step = "idle" /\ inits < MaxInits
  /\ inits' = inits + 1
  /\ initializer' \in Versions /\ forced' \in BOOLEAN
  /\ step' = "compare" /\ failedAt' = "none"
  /\ UNCHANGED <<directory, download>>

Compare ==
  /\ step = "compare"
  /\ Goto(IF ~forced /\ version = initializer THEN "idle" ELSE "withdraw")
  /\ UNCHANGED <<directory, download>>

\* Mutant: version.txt stays until it is written anew.
Kept == version

Withdrawn == "none"

Withdraw ==
  /\ step = "withdraw"
  /\ version' = Withdrawn
  /\ Goto("chmod")
  /\ UNCHANGED <<images, building, download>>

\* Mutant: read-only images are removed as they are.
NotWritable(dir) == dir

Writable(dir) == [dir EXCEPT !.readonly = FALSE]

\* remove_images: chmod fails on a file system that is mounted read-only.
Chmod ==
  /\ step = "chmod"
  /\ IF ~images.exists THEN Goto("sweep") /\ UNCHANGED images
     ELSE IF images.mount = "mounted" THEN Panic /\ UNCHANGED images
     ELSE Goto("unmount") /\ images' = Writable(images)
  /\ UNCHANGED <<version, building, download>>

\* unmount_images_imagefs: umount may fail, and is not asked whether it did;
\* the directory it leaves is removed, unless something is mounted there.
Unmount(here, next) ==
  /\ step = here
  /\ IF images.mount = "none" THEN Goto(next) /\ UNCHANGED images
     ELSE \/ ~images.readonly /\ Goto(next) /\ images' = [images EXCEPT !.mount = "none"]
          \/ (images.mount = "mounted" \/ images.readonly) /\ Panic /\ UNCHANGED images
  /\ UNCHANGED <<version, building, download>>

\* remove_dir_all: a directory that is not writable stays.  A crash may come
\* when some of it is gone.
RemoveImages ==
  /\ step = "remove"
  /\ IF images.readonly THEN Panic /\ UNCHANGED images
     ELSE \/ Goto("sweep") /\ images' = None
          \/ Goto("remove") /\ images' = [images EXCEPT !.whole = FALSE]
  /\ UNCHANGED <<version, building, download>>

\* remove_images_build: chmod the packages of the kernel, then remove, twice
\* if need be.
Sweep(here, next) ==
  /\ step = here
  /\ IF building.exists /\ Writable(building).readonly
     THEN Panic /\ UNCHANGED building
     ELSE Goto(next) /\ building' = None
  /\ UNCHANGED <<version, images, download>>

Partial(mount) ==
  [exists |-> TRUE, of |-> initializer, whole |-> FALSE, readonly |-> FALSE, mount |-> mount]

\* The script gives up when one of its directories is there.
Acquire ==
  /\ step = "acquire"
  /\ IF initializer \in Downloads
     THEN Begin /\ Goto("downloading") /\ UNCHANGED building
     ELSE IF images.exists \/ building.exists
     THEN Goto("idle") /\ UNCHANGED <<building, download>>
     ELSE /\ building' = [exists |-> TRUE, readonly |-> FALSE]
          /\ Goto("making") /\ UNCHANGED download
  /\ UNCHANGED <<version, images>>

ScriptWorks ==
  /\ step = "making"
  /\ building' \in Buildings \ {None}
  /\ images' \in {Partial(mount) : mount \in {"none", "mounted"}}
  /\ UNCHANGED <<version, process, download>>

\* Success is for the assertions to judge; a failure is an error of init.
ScriptEnds ==
  /\ step = "making" /\ images.exists
  /\ images' \in [exists : {TRUE}, of : {initializer}, whole : BOOLEAN, readonly : {FALSE},
                  mount : {"none", "bare", "mounted"}]
  /\ Goto("unmount new") \/ Goto("idle")
  /\ UNCHANGED <<version, building, download>>

\* chmod_readonly_images
Seal ==
  /\ step = "seal"
  /\ images' = [images EXCEPT !.readonly = TRUE]
  /\ Goto("sweep new")
  /\ UNCHANGED <<version, building, download>>

\* tar unpacks into images, with the permissions of the archive.
Unpacking ==
  CASE stage' = "reading" -> images' = Partial("none")
    [] stage' = "unpacked" -> \E readonly, whole \in BOOLEAN :
         images' = [Partial("none") EXCEPT !.readonly = readonly, !.whole = whole]
    [] OTHER -> UNCHANGED images

Download ==
  /\ step = "downloading"
  /\ DownloadStep /\ Unpacking
  /\ CASE stage' = "unpacked" -> Goto("assert")
       [] stage' = "panicked" -> Panic
       [] OTHER -> UNCHANGED process
  /\ UNCHANGED <<version, building>>

\* Mutant: what was acquired is not looked at.
AnyIsThere == TRUE

IsThere == images.exists /\ images.whole

AssertImages ==
  /\ step = "assert"
  /\ IF IsThere THEN Goto("truncate") ELSE Panic
  /\ UNCHANGED <<directory, download>>

\* fs::write truncates the file before it writes to it.
Truncate ==
  /\ step = "truncate"
  /\ version' = "empty"
  /\ Goto("write")
  /\ UNCHANGED <<images, building, download>>

Write ==
  /\ step = "write"
  /\ version' = initializer
  /\ Goto("idle")
  /\ UNCHANGED <<images, building, download>>

Crash ==
  /\ step # "idle"
  /\ Goto("idle")
  /\ UNCHANGED <<directory, download>>

InitStep ==
  \/ Compare \/ Withdraw \/ Chmod \/ Unmount("unmount", "remove") \/ RemoveImages
  \/ Sweep("sweep", "acquire") \/ Acquire \/ ScriptWorks \/ ScriptEnds
  \/ Unmount("unmount new", "seal") \/ Seal \/ Sweep("sweep new", "assert")
  \/ Download \/ AssertImages \/ Truncate \/ Write

ImagesNext == Start \/ InitStep \/ Crash

ImagesSpec == ImagesInit /\ [][ImagesNext]_imageVars

-----------------------------------------------------------------------------
(* A version in version.txt says that images holds all of that version,    *)
(* wherever in amba init a crash has come: version.txt goes before         *)
(* anything else does, and comes back after everything else.               *)
VersionMeansComplete ==
  version \in Versions => images.exists /\ images.whole /\ images.of = version

\* What amba run takes for usable: it only looks at version.txt.
usable ==
  IF version \notin Versions THEN [of |-> "none", whole |-> FALSE]
  ELSE IF images.exists THEN [of |-> images.of, whole |-> images.whole]
  ELSE [of |-> "nothing", whole |-> FALSE]

Usable == INSTANCE Published

(* The images of one version never turn into another's, and are never      *)
(* removed, while version.txt names a version.                             *)
ImagesPublished == Usable!Spec

(* What an unfinished amba init left behind, the next one removes, unless  *)
(* imagefs was left mounted: chmod runs before umount and fails on it.     *)
RemainsRemoved ==
  failedAt \in Removals => failedAt = "chmod" /\ images.exists /\ images.mount = "mounted"
=============================================================================
