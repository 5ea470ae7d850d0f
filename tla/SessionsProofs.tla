---------------------------- MODULE SessionsProofs ----------------------------
(***************************************************************************)
(* Proofs about amba init and amba run over one data directory, for any    *)
(* versions, instances, recipes and bounds: what version.txt says of the   *)
(* images, what amba run starts on, that a session has one guest, and      *)
(* which bytes are symbolic there.                                         *)
(***************************************************************************)
EXTENDS Sessions, StreamLemmas, TLAPS

-----------------------------------------------------------------------------
(* What is where at each step of amba init.                                *)

ImagesTyped ==
  images \in Images /\ version \in {"none", "empty"} \cup Versions /\ initializer \in Versions

\* version.txt is gone before anything else is touched.
WithdrawnFirst == version \in Versions => step \in {"idle", "compare", "withdraw"}

RemovedBefore == step \in {"sweep", "acquire"} => ~images.exists

ThereToHandle == step \in {"unmount", "remove", "unmount new", "seal"} => images.exists

\* From the acquisition to the assertions.
Making == {"making", "downloading", "unmount new", "seal", "sweep new", "assert"}

MadeOfIt == step \in Making /\ images.exists => images.of = initializer

CompleteToWrite ==
  step \in {"truncate", "write"} => images.exists /\ images.whole /\ images.of = initializer

ImagesInv ==
  /\ ImagesTyped
  /\ WithdrawnFirst /\ RemovedBefore /\ ThereToHandle /\ MadeOfIt /\ CompleteToWrite
  /\ VersionMeansComplete

(* Images that exist are a record of all their fields.                     *)
LEMMA ImagesFields ==
  ASSUME images \in Images, images.exists
  PROVE  images \in [exists : {TRUE}, of : Versions, whole : BOOLEAN, readonly : BOOLEAN,
                     mount : {"none", "bare", "mounted"}]
<1>1. images # None
  <2>1. None.exists = FALSE
    BY Zenon DEF None
  <2>2. QED
    BY <2>1, Zenon
<1>2. QED
  BY <1>1, Zenon DEF Images

(* A fresh or changed record of images is one of Images.                   *)
LEMMA PartialFields ==
  ASSUME initializer \in Versions, NEW mount \in {"none", "bare", "mounted"}
  PROVE  /\ Partial(mount) \in Images
         /\ Partial(mount).exists /\ Partial(mount).of = initializer
  BY DEF Partial, Images

LEMMA InitImagesInv == Init => ImagesInv
<1> SUFFICES ASSUME Init PROVE ImagesInv
  OBVIOUS
<1>1. CASE ImagesInit
  BY <1>1, ImagesAssumption
     DEF ImagesInit, ImagesInv, ImagesTyped, Images, None, WithdrawnFirst, RemovedBefore,
         ThereToHandle, MadeOfIt, Making, CompleteToWrite, VersionMeansComplete, Versions
<1>2. CASE Ready
  <2>1. /\ images = [exists |-> TRUE, of |-> initializer, whole |-> TRUE, readonly |-> TRUE,
                     mount |-> "none"]
        /\ step = "idle" /\ version = initializer /\ initializer \in Versions
    BY <1>2 DEF Ready, Partial, Versions
  <2>2. QED
    BY <2>1
       DEF ImagesInv, ImagesTyped, Images, None, WithdrawnFirst, RemovedBefore,
           ThereToHandle, MadeOfIt, Making, CompleteToWrite, VersionMeansComplete
<1>3. QED
  BY <1>1, <1>2 DEF Init

-----------------------------------------------------------------------------
(* Every step of amba init, and a crash after it, keeps that.               *)
LEMMA StartKeeps == ImagesInv /\ Start => ImagesInv'
  BY DEF Start, directory, ImagesInv, ImagesTyped, WithdrawnFirst, RemovedBefore,
         ThereToHandle, MadeOfIt, Making, CompleteToWrite, VersionMeansComplete

LEMMA CompareKeeps == ImagesInv /\ (Compare \/ Crash) => ImagesInv'
  BY DEF Compare, Crash, Goto, directory, ImagesInv, ImagesTyped, WithdrawnFirst, RemovedBefore,
         ThereToHandle, MadeOfIt, Making, CompleteToWrite, VersionMeansComplete

LEMMA WithdrawKeeps == ImagesInv /\ Withdraw => ImagesInv'
  BY ImagesAssumption
     DEF Withdraw, Withdrawn, Goto, ImagesInv, ImagesTyped, WithdrawnFirst, RemovedBefore,
         ThereToHandle, MadeOfIt, Making, CompleteToWrite, VersionMeansComplete

\* A step under which version.txt stays away: what is left to show of it.
Away ==
  /\ ImagesInv /\ step \notin {"idle", "compare", "withdraw"}
  /\ version' = version /\ initializer' = initializer

LEMMA AwayKeeps ==
  ASSUME Away, (images \in Images)',
         RemovedBefore', ThereToHandle', MadeOfIt', CompleteToWrite'
  PROVE  ImagesInv'
  BY DEF Away, ImagesInv, ImagesTyped, WithdrawnFirst, VersionMeansComplete

(* A field of images is set, or not: the others stay.                      *)
LEMMA ChangedFields ==
  ASSUME images \in Images, images.exists
  PROVE  /\ Writable(images) \in Images
         /\ Writable(images).exists /\ Writable(images).of = images.of
         /\ \A ro \in BOOLEAN :
              LET set == [images EXCEPT !.readonly = ro]
              IN  set \in Images /\ set.exists /\ set.of = images.of
         /\ LET set == [images EXCEPT !.mount = "none"]
            IN  set \in Images /\ set.exists /\ set.of = images.of
         /\ LET set == [images EXCEPT !.whole = FALSE]
            IN  set \in Images /\ set.exists /\ set.of = images.of
  BY ImagesFields DEF Writable, Images

LEMMA ChmodKeeps == ImagesInv /\ Chmod => ImagesInv'
<1> SUFFICES ASSUME ImagesInv, Chmod PROVE ImagesInv'
  OBVIOUS
<1>1. Away
  BY DEF Away, Chmod, Goto, Panic
<1>2. CASE ~images.exists
  BY <1>1, <1>2, AwayKeeps
     DEF Chmod, Goto, ImagesInv, ImagesTyped, RemovedBefore, ThereToHandle, MadeOfIt, Making,
         CompleteToWrite
<1>3. CASE images.exists /\ images.mount = "mounted"
  BY <1>1, <1>3, AwayKeeps
     DEF Chmod, Panic, ImagesInv, ImagesTyped, RemovedBefore, ThereToHandle, MadeOfIt, Making,
         CompleteToWrite
<1>4. CASE images.exists /\ images.mount # "mounted"
  <2>1. images' = Writable(images) /\ step' = "unmount"
    BY <1>4 DEF Chmod, Goto
  <2>2. images' \in Images /\ images'.exists
    BY <1>4, <2>1, ChangedFields DEF ImagesInv, ImagesTyped
  <2>3. QED
    BY <1>1, <2>1, <2>2, AwayKeeps
       DEF RemovedBefore, ThereToHandle, MadeOfIt, Making, CompleteToWrite
<1>5. QED
  BY <1>2, <1>3, <1>4

(* umount, before the removal of old images or after the making of new.    *)
LEMMA UnmountKeeps ==
  ASSUME ImagesInv,
         Unmount("unmount", "remove") \/ Unmount("unmount new", "seal")
  PROVE  ImagesInv'
<1>1. Away /\ images.exists /\ images \in Images
  BY DEF Away, Unmount, Goto, Panic, ImagesInv, ImagesTyped, ThereToHandle
<1>2. /\ images' \in Images /\ images'.exists /\ images'.of = images.of
  BY <1>1, ChangedFields DEF Unmount
<1>3. \/ step' = "idle"
      \/ step' = "remove"
      \/ step' = "seal" /\ step = "unmount new"
  BY DEF Unmount, Goto, Panic
<1>4. initializer' = initializer
  BY <1>1 DEF Away
<1>5. step = "unmount new" => images.of = initializer
  BY <1>1 DEF ImagesInv, MadeOfIt, Making
<1>6. QED
  BY <1>1, <1>2, <1>3, <1>4, <1>5, AwayKeeps
     DEF RemovedBefore, ThereToHandle, MadeOfIt, Making, CompleteToWrite

LEMMA RemoveKeeps == ImagesInv /\ RemoveImages => ImagesInv'
<1> SUFFICES ASSUME ImagesInv, RemoveImages PROVE ImagesInv'
  OBVIOUS
<1>1. Away /\ images.exists /\ images \in Images
  BY DEF Away, RemoveImages, Goto, Panic, ImagesInv, ImagesTyped, ThereToHandle
<1>2. \/ step' = "idle" /\ images' = images
      \/ step' = "sweep" /\ images' = None
      \/ step' = "remove" /\ images' = [images EXCEPT !.whole = FALSE]
  BY DEF RemoveImages, Goto, Panic
<1>3. None \in Images /\ ~None.exists
  BY DEF Images, None
<1>4. CASE step' = "idle" /\ images' = images
  BY <1>1, <1>4, AwayKeeps
     DEF RemovedBefore, ThereToHandle, MadeOfIt, Making, CompleteToWrite
<1>5. CASE step' = "sweep" /\ images' = None
  BY <1>1, <1>3, <1>5, AwayKeeps
     DEF RemovedBefore, ThereToHandle, MadeOfIt, Making, CompleteToWrite
<1>6. CASE step' = "remove" /\ images' = [images EXCEPT !.whole = FALSE]
  <2>1. images' \in Images /\ images'.exists
    BY <1>1, <1>6, ChangedFields
  <2>2. QED
    BY <1>1, <1>6, <2>1, AwayKeeps
       DEF RemovedBefore, ThereToHandle, MadeOfIt, Making, CompleteToWrite
<1>7. QED
  BY <1>2, <1>4, <1>5, <1>6

(* The sweep of images-build, before the making of images or after.        *)
LEMMA SweepKeeps ==
  ASSUME ImagesInv, Sweep("sweep", "acquire") \/ Sweep("sweep new", "assert")
  PROVE  ImagesInv'
<1>1. Away
  BY DEF Away, Sweep, Goto, Panic
<1>2. /\ images' = images /\ initializer' = initializer
      /\ \/ step' = "idle"
         \/ step = "sweep" /\ step' = "acquire"
         \/ step = "sweep new" /\ step' = "assert"
  BY DEF Sweep, Goto, Panic
<1>3. QED
  BY <1>1, <1>2, AwayKeeps
     DEF ImagesInv, ImagesTyped, RemovedBefore, ThereToHandle, MadeOfIt, Making, CompleteToWrite

LEMMA AcquireKeeps == ImagesInv /\ Acquire => ImagesInv'
<1> SUFFICES ASSUME ImagesInv, Acquire PROVE ImagesInv'
  OBVIOUS
<1>1. Away
  BY DEF Away, Acquire, Goto
<1>2. /\ images' = images /\ initializer' = initializer /\ ~images.exists
      /\ step' \in {"idle", "downloading", "making"}
  BY DEF Acquire, Goto, ImagesInv, RemovedBefore
<1>3. QED
  BY <1>1, <1>2, AwayKeeps
     DEF ImagesInv, ImagesTyped, RemovedBefore, ThereToHandle, MadeOfIt, Making, CompleteToWrite

(* The script makes images of the version that is acquired.                *)
LEMMA ScriptKeeps ==
  ASSUME ImagesInv, ScriptWorks \/ ScriptEnds
  PROVE  ImagesInv'
<1>1. Away /\ initializer \in Versions
  BY DEF Away, ScriptWorks, ScriptEnds, Goto, process, ImagesInv, ImagesTyped
<1>2. /\ initializer' = initializer
      /\ step' \in {"making", "unmount new", "idle"}
  BY DEF ScriptWorks, ScriptEnds, Goto, process
<1>3. images' \in Images /\ images'.exists /\ images'.of = initializer
  <2>1. CASE ScriptWorks
    BY <1>1, <2>1, PartialFields DEF ScriptWorks
  <2>2. CASE ScriptEnds
    BY <1>1, <2>2 DEF ScriptEnds, Images
  <2>3. QED
    BY <2>1, <2>2
<1>4. QED
  BY <1>1, <1>2, <1>3, AwayKeeps
     DEF RemovedBefore, ThereToHandle, MadeOfIt, Making, CompleteToWrite

LEMMA SealKeeps == ImagesInv /\ Seal => ImagesInv'
<1> SUFFICES ASSUME ImagesInv, Seal PROVE ImagesInv'
  OBVIOUS
<1>1. /\ Away /\ images.exists /\ images \in Images /\ images.of = initializer
  BY DEF Away, Seal, Goto, ImagesInv, ImagesTyped, ThereToHandle, MadeOfIt, Making
<1>2. images' \in Images /\ images'.exists /\ images'.of = images.of
  BY <1>1, ChangedFields DEF Seal
<1>3. step' = "sweep new" /\ initializer' = initializer
  BY DEF Seal, Goto
<1>4. QED
  BY <1>1, <1>2, <1>3, AwayKeeps
     DEF RemovedBefore, ThereToHandle, MadeOfIt, Making, CompleteToWrite

LEMMA DownloadKeeps == ImagesInv /\ Download => ImagesInv'
<1> SUFFICES ASSUME ImagesInv, Download PROVE ImagesInv'
  OBVIOUS
<1>1. /\ Away /\ initializer \in Versions /\ images \in Images
      /\ images.exists => images.of = initializer
  BY DEF Away, Download, Goto, Panic, process, ImagesInv, ImagesTyped, MadeOfIt, Making
<1>2. initializer' = initializer /\ step' \in {"assert", "idle", "downloading"}
  BY DEF Download, Goto, Panic, process
<1>3. images' \in Images /\ (images'.exists => images'.of = initializer)
  <2>1. CASE images' = images
    BY <1>1, <2>1
  <2>2. CASE images' = Partial("none")
    BY <1>1, <2>2, PartialFields
  <2>3. CASE \E readonly, whole \in BOOLEAN :
               images' = [Partial("none") EXCEPT !.readonly = readonly, !.whole = whole]
    BY <1>1, <2>3 DEF Partial, Images
  <2>4. QED
    BY <2>1, <2>2, <2>3 DEF Download, Unpacking
<1>4. QED
  BY <1>1, <1>2, <1>3, AwayKeeps
     DEF RemovedBefore, ThereToHandle, MadeOfIt, Making, CompleteToWrite

(* Only images that are whole pass the assertions, and nothing touches     *)
(* them before the version is written.                                     *)
LEMMA WriteKeeps == ImagesInv /\ (AssertImages \/ Truncate \/ Write) => ImagesInv'
  BY ImagesAssumption
     DEF AssertImages, IsThere, Truncate, Write, Goto, Panic, directory, ImagesInv, ImagesTyped,
         WithdrawnFirst, RemovedBefore, ThereToHandle, MadeOfIt, Making, CompleteToWrite,
         VersionMeansComplete

LEMMA ImagesNextKeeps == ImagesInv /\ ImagesNext => ImagesInv'
  BY StartKeeps, CompareKeeps, WithdrawKeeps, ChmodKeeps, UnmountKeeps, RemoveKeeps, SweepKeeps,
     AcquireKeeps, ScriptKeeps, SealKeeps, DownloadKeeps, WriteKeeps
  DEF ImagesNext, InitStep

(* amba run leaves the images alone.                                       *)
LEMMA ImagesLeft == ImagesInv /\ UNCHANGED imageVars => ImagesInv'
  BY DEF imageVars, directory, process, ImagesInv, ImagesTyped, WithdrawnFirst, RemovedBefore,
         ThereToHandle, MadeOfIt, Making, CompleteToWrite, VersionMeansComplete

LEMMA NextKeeps == ImagesInv /\ [Next]_vars => ImagesInv'
  BY ImagesNextKeeps, ImagesLeft
     DEF Next, RunStep, Tick, Configure, Check, Look, CreateDirs, CopyFile, Record, LinkTools,
         Save, GetRecipe, GetFile, vars

-----------------------------------------------------------------------------
(* version.txt never names a version of which images does not hold all:    *)
(* amba init removes it first and writes it last.                          *)
THEOREM CompleteWhenNamed == Spec => []VersionMeansComplete
<1>1. ImagesInv => VersionMeansComplete
  BY DEF ImagesInv
<1>2. QED
  BY <1>1, InitImagesInv, NextKeeps, PTL DEF Spec

-----------------------------------------------------------------------------
(* What is where in the instances of amba run.                             *)

DoingTyped == doing \in [Instances -> Doing]

(* A step of one instance leaves the places of the others.                 *)
LEMMA OneMoves ==
  ASSUME NEW i \in Instances, RunStep(i)
  PROVE  /\ \A j \in Instances \ {i} : DoingTyped => doing'[j] = doing[j]
         /\ DoingTyped => DoingTyped'
<1> SUFFICES ASSUME DoingTyped
             PROVE  (\A j \in Instances \ {i} : doing'[j] = doing[j]) /\ DoingTyped'
  OBVIOUS
<1>1. doing' = doing \/ \E next \in Doing : Does(i, next)
  BY DEF RunStep, Configure, Check, Look, CreateDirs, CopyFile, Record, LinkTools, Save,
         GetRecipe, GetFile, Doing, InGuest, Does
<1>2. QED
  BY <1>1 DEF DoingTyped, Does

LEMMA InitDoing == Init => DoingTyped
  BY DEF Init, Only, DoingTyped, Doing

LEMMA NextDoing == DoingTyped /\ [Next]_vars => DoingTyped'
<1> SUFFICES ASSUME DoingTyped, [Next]_vars PROVE DoingTyped'
  OBVIOUS
<1>1. CASE \E i \in Instances : RunStep(i)
  BY <1>1, OneMoves
<1>2. CASE doing' = doing
  BY <1>2 DEF DoingTyped
<1>3. QED
  BY <1>1, <1>2 DEF Next, Tick, vars, sessionVars

(* amba run gets past its check only where version.txt names a version.    *)
LEMMA LooksOnImages ==
  ASSUME ImagesInv, DoingTyped, [Next]_vars,
         NEW i \in Instances, doing[i] = "checking", doing'[i] = "looking"
  PROVE  images.exists /\ images.whole
<1>1. PICK j \in Instances : RunStep(j)
  BY DEF Next, Tick, vars, sessionVars
<1>2. j = i
  BY <1>1, OneMoves
<1>3. Check(i)
  BY <1>1, <1>2
     DEF RunStep, Configure, Look, CreateDirs, CopyFile, Record, LinkTools, Save, GetRecipe, GetFile
<1>4. Initialized
  BY <1>3 DEF Check, Does, DoingTyped
<1>5. version \in Versions
  BY <1>4 DEF Initialized, ImagesInv, ImagesTyped
<1>6. QED
  BY <1>5 DEF ImagesInv, VersionMeansComplete

(* However amba init and its crashes go on beside it, amba run only starts *)
(* on images that are complete.                                            *)
THEOREM StartsOnComplete == Spec => StartsOnImages
<1>1. ImagesInv /\ DoingTyped /\ [Next]_vars =>
        [\A i \in Instances :
           doing[i] = "checking" /\ doing'[i] = "looking" => images.exists /\ images.whole]_vars
  BY LooksOnImages
<1>2. QED
  BY <1>1, InitImagesInv, InitDoing, NextKeeps, NextDoing, PTL DEF Spec, StartsOnImages

-----------------------------------------------------------------------------
(* amba init implements Published.                                         *)

UsableAs ==
  /\ version \notin Versions => usable = Usable!Nothing
  /\ version \in Versions =>
       usable = [of |-> version, whole |-> TRUE] /\ usable \in Usable!Whole

LEMMA UsableIs == ImagesInv => UsableAs
<1> SUFFICES ASSUME ImagesInv PROVE UsableAs
  OBVIOUS
<1>1. CASE version \notin Versions
  BY <1>1 DEF UsableAs, usable, Usable!Nothing
<1>2. CASE version \in Versions
  <2>1. images.exists /\ images.whole /\ images.of = version /\ images \in Images
    BY <1>2 DEF ImagesInv, ImagesTyped, VersionMeansComplete
  <2>2. images.whole = TRUE
    BY <2>1, ImagesFields
  <2>3. QED
    BY <1>2, <2>1, <2>2 DEF UsableAs, usable, Usable!Whole
<1>3. QED
  BY <1>1, <1>2

(* While version.txt names a version, all amba init does to it is to       *)
(* withdraw it.                                                            *)
LEMMA NamedStays ==
  ASSUME ImagesInv, [Next]_vars, version \in Versions
  PROVE  version' = version \/ version' \notin Versions
<1>1. CASE version' = version
  BY <1>1
<1>2. CASE version' # version
  <2>1. ImagesNext
    BY <1>2 DEF Next, RunStep, Tick, Configure, Check, Look, CreateDirs, CopyFile, Record,
                LinkTools, Save, GetRecipe, GetFile, vars, imageVars, directory
  <2>2. step \in {"idle", "compare", "withdraw"}
    BY DEF ImagesInv, WithdrawnFirst
  <2>3. version' = "none"
    BY <1>2, <2>1, <2>2
       DEF ImagesNext, Start, InitStep, Compare, Withdraw, Withdrawn, Chmod, Unmount, RemoveImages,
           Sweep, Acquire, ScriptWorks, ScriptEnds, Seal, Download, AssertImages, Truncate, Write,
           Crash, directory
  <2>4. QED
    BY <2>3, ImagesAssumption
<1>3. QED
  BY <1>1, <1>2

(* What amba run finds is published all at once and withdrawn before it    *)
(* changes, and amba run starts on nothing else.                           *)
THEOREM OnlyOnPublished == Spec => RunsOnPublished
<1>1. ImagesInv => Usable!Init
  BY UsableIs DEF Usable!Init, UsableAs
<1>2. UsableAs /\ UsableAs' /\ ImagesInv /\ [Next]_vars => [Usable!Next]_usable
  <2> SUFFICES ASSUME UsableAs, UsableAs', ImagesInv, [Next]_vars PROVE [Usable!Next]_usable
    OBVIOUS
  <2>1. CASE version' \notin Versions
    BY <2>1 DEF Usable!Next, Usable!Withdraw, UsableAs
  <2>2. CASE version' \in Versions /\ version \notin Versions
    BY <2>2 DEF Usable!Next, Usable!Publish, UsableAs
  <2>3. CASE version' \in Versions /\ version \in Versions
    BY <2>3, NamedStays DEF UsableAs
  <2>4. QED
    BY <2>1, <2>2, <2>3
<1>3. QED
  BY <1>1, <1>2, UsableIs, InitImagesInv, NextKeeps, StartsOnComplete, PTL
     DEF Spec, RunsOnPublished, ImagesPublished, Usable!Spec

-----------------------------------------------------------------------------
\* Instances that made their links.
Linked == {"saving"} \cup InGuest

\* No more of a directory than that it may hold the links.
Directories ==
  /\ now \in Seconds
  /\ at \in [Instances -> Seconds]
  /\ DOMAIN dirs = Seconds
  /\ \A s \in Seconds : "tools" \in DOMAIN dirs[s]

\* Who made the links was the only one there.
OneLinked ==
  /\ \A i \in Instances : doing[i] \in Linked => dirs[at[i]].tools
  /\ \A i, j \in Instances :
       doing[i] \in Linked /\ doing[j] \in Linked /\ at[i] = at[j] => i = j

SessionsInv == DoingTyped /\ Directories /\ OneLinked

LEMMA InitSessionsInv == Init => SessionsInv
<1> SUFFICES ASSUME Init PROVE SessionsInv
  OBVIOUS
<1>1. DoingTyped
  BY InitDoing
<1>2. Directories
  BY SessionsAssumption DEF Init, SessionsInit, Directories, NewDir, Seconds
<1>3. \A i \in Instances : doing[i] \in {"off", "none"}
  BY DEF Init, Only
<1>4. QED
  BY <1>1, <1>2, <1>3 DEF SessionsInv, OneLinked, Linked, InGuest

(* A step that makes no links, or none of its own.                         *)
LEMMA NoLinksKeep ==
  ASSUME SessionsInv, NEW i \in Instances, DoingTyped',
         \A j \in Instances \ {i} : doing'[j] = doing[j] /\ at'[j] = at[j],
         doing'[i] \in Linked => doing[i] \in Linked /\ at'[i] = at[i],
         Directories', \A s \in Seconds : dirs'[s].tools = dirs[s].tools
  PROVE  SessionsInv'
<1>1. \A j \in Instances : doing'[j] \in Linked => doing[j] \in Linked /\ at'[j] = at[j]
  OBVIOUS
<1>2. \A j \in Instances : at'[j] \in Seconds
  BY DEF Directories
<1>3. \A j \in Instances : doing'[j] \in Linked => dirs'[at'[j]].tools
  <2> SUFFICES ASSUME NEW j \in Instances, doing'[j] \in Linked PROVE dirs'[at'[j]].tools
    OBVIOUS
  <2>1. doing[j] \in Linked /\ at'[j] = at[j] /\ at[j] \in Seconds
    BY <1>1, <1>2
  <2>2. dirs[at[j]].tools
    BY <2>1 DEF SessionsInv, OneLinked
  <2>3. dirs'[at[j]].tools = dirs[at[j]].tools
    BY <2>1
  <2>4. QED
    BY <2>1, <2>2, <2>3
<1>4. \A j, k \in Instances :
        doing'[j] \in Linked /\ doing'[k] \in Linked /\ at'[j] = at'[k] => j = k
  BY <1>1 DEF SessionsInv, OneLinked
<1>5. OneLinked'
  BY <1>3, <1>4 DEF OneLinked, Linked, InGuest
<1>6. QED
  BY <1>5 DEF SessionsInv

(* Writing a host file, or making the directory, makes no links.           *)
LEMMA HostWritten ==
  ASSUME Directories, UNCHANGED <<now, at>>, NEW i \in Instances,
         \/ dirs' = dirs
         \/ dirs' = [dirs EXCEPT ![at[i]].exists = TRUE]
         \/ \E name, content : WriteHost(i, name, content)
  PROVE  Directories' /\ \A s \in Seconds : dirs'[s].tools = dirs[s].tools
<1>1. CASE dirs' = dirs
  BY <1>1 DEF Directories
<1>2. CASE \E what : dirs' = [dirs EXCEPT ![at[i]] = [dirs[at[i]] EXCEPT !.exists = what]]
  <2>1. PICK what : dirs' = [dirs EXCEPT ![at[i]] = [dirs[at[i]] EXCEPT !.exists = what]]
    BY <1>2
  <2>2. QED
    BY <2>1 DEF Directories
<1>3. CASE \E what : dirs' = [dirs EXCEPT ![at[i]] = [dirs[at[i]] EXCEPT !.host = what]]
  <2>1. PICK what : dirs' = [dirs EXCEPT ![at[i]] = [dirs[at[i]] EXCEPT !.host = what]]
    BY <1>3
  <2>2. QED
    BY <2>1 DEF Directories
<1>4. QED
  BY <1>1, <1>2, <1>3 DEF WriteHost

LEMMA RunKeeps ==
  ASSUME SessionsInv, NEW i \in Instances,
         \/ Check(i) \/ Look(i) \/ CreateDirs(i) \/ CopyFile(i) \/ Record(i) \/ Save(i)
         \/ GetRecipe(i) \/ GetFile(i)
  PROVE  SessionsInv'
<1>1. RunStep(i)
  BY DEF RunStep
<1>2. DoingTyped' /\ \A j \in Instances \ {i} : doing'[j] = doing[j]
  BY <1>1, OneMoves DEF SessionsInv
<1>3. UNCHANGED <<now, at>>
  BY DEF Check, Look, CreateDirs, CopyFile, Record, Save, GetRecipe, GetFile
<1>4. Directories' /\ \A s \in Seconds : dirs'[s].tools = dirs[s].tools
  BY <1>3, HostWritten
     DEF Check, Look, CreateDirs, CopyFile, Record, Save, GetRecipe, GetFile, SessionsInv
<1>5. doing'[i] \in Linked => doing[i] \in Linked
  BY DEF Check, Look, CreateDirs, CopyFile, Record, Save, GetRecipe, GetFile, Does, Linked,
         InGuest, SessionsInv, DoingTyped
<1>6. QED
  BY <1>2, <1>3, <1>4, <1>5, NoLinksKeep

LEMMA ConfigureKeeps ==
  ASSUME SessionsInv, NEW i \in Instances, Configure(i)
  PROVE  SessionsInv'
<1>1. DoingTyped' /\ \A j \in Instances \ {i} : doing'[j] = doing[j]
  BY OneMoves DEF SessionsInv, RunStep
<1>2. doing'[i] \notin Linked
  BY DEF Configure, Does, Linked, InGuest, SessionsInv, DoingTyped
<1>3. /\ Directories' /\ \A s \in Seconds : dirs'[s].tools = dirs[s].tools
      /\ \A j \in Instances \ {i} : at'[j] = at[j]
  BY DEF Configure, SessionsInv, Directories
<1>4. QED
  BY <1>1, <1>2, <1>3, NoLinksKeep

(* A link is made once, so nobody else in this directory has made it.      *)
LEMMA LinkToolsKeeps ==
  ASSUME SessionsInv, NEW i \in Instances, LinkTools(i)
  PROVE  SessionsInv'
<1>1. DoingTyped' /\ \A j \in Instances \ {i} : doing'[j] = doing[j]
  BY OneMoves DEF SessionsInv, RunStep
<1>2. UNCHANGED <<now, at>> /\ at[i] \in Seconds
  BY DEF LinkTools, SessionsInv, Directories
<1>3. /\ Directories'
      /\ dirs'[at[i]].tools
      /\ \A s \in Seconds \ {at[i]} : dirs'[s].tools = dirs[s].tools
  BY <1>2 DEF LinkTools, SessionsInv, Directories
<1>4. doing'[i] \in Linked => ~dirs[at[i]].tools
  BY DEF LinkTools, IsLinked, Does, Linked, InGuest, SessionsInv, DoingTyped
<1>5. \A j \in Instances : doing'[j] \in Linked => dirs'[at'[j]].tools
  BY <1>1, <1>2, <1>3 DEF SessionsInv, OneLinked, Directories
<1>6. \A j, k \in Instances :
        doing'[j] \in Linked /\ doing'[k] \in Linked /\ at'[j] = at'[k] => j = k
  BY <1>1, <1>2, <1>4 DEF SessionsInv, OneLinked
<1>7. QED
  BY <1>1, <1>3, <1>5, <1>6 DEF SessionsInv, OneLinked

LEMMA SessionsNext == SessionsInv /\ [Next]_vars => SessionsInv'
<1> SUFFICES ASSUME SessionsInv, [Next]_vars PROVE SessionsInv'
  OBVIOUS
<1>1. CASE Tick
  BY <1>1, SessionsAssumption DEF Tick, SessionsInv, DoingTyped, Directories, OneLinked, Seconds
<1>2. CASE UNCHANGED sessionVars
  BY <1>2 DEF sessionVars, SessionsInv, DoingTyped, Directories, OneLinked
<1>3. CASE \E i \in Instances : RunStep(i)
  BY <1>3, RunKeeps, ConfigureKeeps, LinkToolsKeeps DEF RunStep
<1>4. QED
  BY <1>1, <1>2, <1>3 DEF Next, vars

(* Of all instances that were started in one second, only one gets to a    *)
(* guest.                                                                  *)
THEOREM OneGuest == Spec => []OneGuestPerSession
<1>1. SessionsInv => OneGuestPerSession
  BY DEF SessionsInv, OneLinked, OneGuestPerSession, Linked
<1>2. QED
  BY <1>1, InitSessionsInv, SessionsNext, PTL DEF Spec

-----------------------------------------------------------------------------
(* What an unfinished amba init leaves behind.                             *)

\* A removal gets past chmod only with images that are writable, and a panic
\* ends amba init.
RemovalInv ==
  /\ building \in Buildings
  /\ step # "idle" => failedAt = "none"
  /\ step \in {"unmount", "remove"} => ~images.readonly
  /\ step = "unmount" => images.mount # "mounted"
  /\ RemainsRemoved

LEMMA InitRemoval == Init => RemovalInv
  BY DEF Init, ImagesInit, Ready, RemovalInv, Buildings, None, RemainsRemoved, Removals

(* Buildings that exist are a record of all their fields.                  *)
LEMMA BuildingWritable ==
  ASSUME building \in Buildings, building.exists
  PROVE  ~Writable(building).readonly
<1>1. building # None
  <2>1. None.exists = FALSE
    BY Zenon DEF None
  <2>2. QED
    BY <2>1, Zenon
<1>2. building \in [exists : {TRUE}, readonly : BOOLEAN]
  BY <1>1, Zenon DEF Buildings
<1>3. QED
  BY <1>2 DEF Writable

(* Steps outside the removal of images, none of which panics in a removal. *)
LEMMA NoRemovalKeeps ==
  ASSUME RemovalInv, building' \in Buildings, step' \notin {"unmount", "remove"},
         \/ failedAt' = failedAt /\ step # "idle"
         \/ failedAt' = "none"
         \/ failedAt' = step /\ step' = "idle" /\ step \notin Removals
  PROVE  RemovalInv'
  BY DEF RemovalInv, RemainsRemoved, Removals

LEMMA ChmodRemoves ==
  ASSUME ImagesInv, RemovalInv, Chmod
  PROVE  RemovalInv'
<1>1. CASE ~images.exists
  BY <1>1, NoRemovalKeeps DEF Chmod, Goto, RemovalInv
<1>2. CASE images.exists /\ images.mount = "mounted"
  BY <1>2 DEF Chmod, Panic, RemovalInv, RemainsRemoved
<1>3. CASE images.exists /\ images.mount # "mounted"
  <2>1. images' = Writable(images) /\ step' = "unmount" /\ failedAt' = "none"
        /\ building' = building
    BY <1>3 DEF Chmod, Goto, RemovalInv
  <2>2. ~images'.readonly /\ images'.mount = images.mount
    BY <1>3, <2>1, ImagesFields DEF Writable, ImagesInv, ImagesTyped
  <2>3. QED
    BY <1>3, <2>1, <2>2 DEF RemovalInv, RemainsRemoved, Removals
<1>4. QED
  BY <1>1, <1>2, <1>3

LEMMA UnmountRemoves ==
  ASSUME ImagesInv, RemovalInv, Unmount("unmount", "remove")
  PROVE  RemovalInv'
<1>1. images.exists /\ ~images.readonly /\ images.mount # "mounted" /\ failedAt = "none"
  BY DEF Unmount, ImagesInv, ThereToHandle, RemovalInv
<1>2. /\ step' = "remove" /\ failedAt' = "none" /\ building' = building
      /\ images' \in {images, [images EXCEPT !.mount = "none"]}
  BY <1>1 DEF Unmount, Goto
<1>3. ~images'.readonly
  BY <1>1, <1>2, ImagesFields DEF ImagesInv, ImagesTyped
<1>4. QED
  BY <1>2, <1>3 DEF RemovalInv, RemainsRemoved, Removals

LEMMA RemoveRemoves ==
  ASSUME ImagesInv, RemovalInv, RemoveImages
  PROVE  RemovalInv'
<1>1. images.exists /\ ~images.readonly /\ failedAt = "none"
  BY DEF RemoveImages, ImagesInv, ThereToHandle, RemovalInv
<1>2. /\ failedAt' = "none" /\ building' = building
      /\ \/ step' = "sweep"
         \/ step' = "remove" /\ images' = [images EXCEPT !.whole = FALSE]
  BY <1>1 DEF RemoveImages, Goto
<1>3. step' = "remove" => ~images'.readonly
  BY <1>1, <1>2, ImagesFields DEF ImagesInv, ImagesTyped
<1>4. QED
  BY <1>2, <1>3 DEF RemovalInv, RemainsRemoved, Removals

LEMMA SweepRemoves ==
  ASSUME RemovalInv, Sweep("sweep", "acquire") \/ Sweep("sweep new", "assert")
  PROVE  RemovalInv'
<1>1. building' = None /\ failedAt' = "none" /\ step' \in {"acquire", "assert"}
  BY BuildingWritable DEF Sweep, Goto, RemovalInv
<1>2. QED
  BY <1>1, NoRemovalKeeps DEF Buildings

LEMMA NextRemoves == ImagesInv /\ RemovalInv /\ [Next]_vars => RemovalInv'
<1> SUFFICES ASSUME ImagesInv, RemovalInv, [Next]_vars PROVE RemovalInv'
  OBVIOUS
<1>1. CASE Acquire \/ ScriptWorks \/ ScriptEnds
  <2>1. building' \in Buildings
    <3>1. [exists |-> TRUE, readonly |-> FALSE] \in Buildings
      BY DEF Buildings
    <3>2. QED
      BY <1>1, <3>1 DEF Acquire, ScriptWorks, ScriptEnds, RemovalInv
  <2>2. /\ step \in {"acquire", "making"} /\ failedAt' = failedAt
        /\ step' \in {"idle", "downloading", "making", "unmount new"}
    BY <1>1 DEF Acquire, ScriptWorks, ScriptEnds, Goto, process
  <2>3. QED
    BY <2>1, <2>2, NoRemovalKeeps
<1>2. CASE Start \/ Compare \/ Withdraw \/ Crash
  BY <1>2, NoRemovalKeeps DEF Start, Compare, Withdraw, Crash, Goto, directory, RemovalInv
<1>3. CASE Unmount("unmount new", "seal") \/ Seal
  BY <1>3, NoRemovalKeeps DEF Unmount, Seal, Goto, Panic, Removals, RemovalInv
<1>4. CASE Download \/ AssertImages \/ Truncate \/ Write
  BY <1>4, NoRemovalKeeps
     DEF Download, AssertImages, Truncate, Write, Goto, Panic, process, directory, Removals,
         RemovalInv
<1>5. CASE UNCHANGED imageVars
  BY <1>5 DEF imageVars, directory, process, RemovalInv, RemainsRemoved
<1>6. QED
  BY <1>1, <1>2, <1>3, <1>4, <1>5, ChmodRemoves, UnmountRemoves, RemoveRemoves, SweepRemoves
     DEF Next, ImagesNext, InitStep, RunStep, Tick, Configure, Check, Look, CreateDirs, CopyFile,
         Record, LinkTools, Save, GetRecipe, GetFile, vars

(* However an amba init ended, the next one gets past its removals, unless *)
(* the old images were left mounted.                                       *)
THEOREM RemainsAreRemoved == Spec => []RemainsRemoved
<1>1. RemovalInv => RemainsRemoved
  BY DEF RemovalInv
<1>2. QED
  BY <1>1, InitImagesInv, NextKeeps, InitRemoval, NextRemoves, PTL DEF Spec

-----------------------------------------------------------------------------
(* The download.                                                           *)

\* A server that honours Range goes on where the reader stopped.
DownloadInv ==
  /\ DownloadTypeOK
  /\ stage \in Requests => hops < MaxHops
  /\ honours => /\ current <= FileLength
                /\ stage = "reading" => position = current
                /\ DownloadedOnce

LEMMA InitDownload == Init => DownloadInv
<1> SUFFICES ASSUME DownloadInit PROVE DownloadInv
  BY DEF Init, ImagesInit, Ready
<1>1. DownloadTypeOK
  <2>1. delivered = <<>> /\ delivered \in Seq(1 .. FileLength)
    <3>1. delivered = <<>>
      BY DEF DownloadInit
    <3>2. QED
      BY <3>1
  <2>2. Len(delivered) = 0
    BY <2>1
  <2>3. QED
    BY <2>1, <2>2, DownloadAssumption DEF DownloadInit, DownloadTypeOK
<1>2. QED
  BY <1>1, DownloadAssumption DEF DownloadInit, DownloadInv, DownloadedOnce, Requests

LEMMA BeginDownload ==
  ASSUME DownloadInv, Begin
  PROVE  DownloadInv'
<1>1. /\ stage' = "cookie" /\ hops' = 0 /\ current' = 0 /\ position' = 0 /\ delivered' = <<>>
      /\ UNCHANGED <<honours, timeouts>>
  BY DEF Begin
<1>2. delivered' \in Seq(1 .. FileLength) /\ Len(delivered') = 0
  BY <1>1
<1>3. QED
  BY <1>1, <1>2, DownloadAssumption DEF DownloadInv, DownloadTypeOK, DownloadedOnce, Requests

(* Reading appends the next bytes of the file.                             *)
LEMMA ReadKeeps ==
  ASSUME DownloadInv, ReadSome
  PROVE  DownloadInv'
<1>1. PICK n \in 1 .. FileLength - position :
        /\ delivered' = delivered \o [k \in 1 .. n |-> position + k]
        /\ current' = current + n
        /\ position' = position + n
  BY DEF ReadSome
<1>2. stage = "reading" /\ UNCHANGED <<stage, hops, honours, timeouts>>
  BY DEF ReadSome
<1>3. /\ position \in 0 .. FileLength /\ FileLength \in Nat /\ n \in Nat \ {0}
      /\ delivered \in Seq(1 .. FileLength) /\ current = Len(delivered)
  BY DownloadAssumption DEF DownloadInv, DownloadTypeOK
<1> DEFINE bytes == [k \in 1 .. n |-> position + k]
<1>4. bytes \in Seq(1 .. FileLength) /\ Len(bytes) = n
  <2>1. \A k \in 1 .. n : position + k \in 1 .. FileLength
    BY <1>3
  <2>2. QED
    BY <2>1, <1>3
<1>5. /\ delivered' \in Seq(1 .. FileLength) /\ Len(delivered') = Len(delivered) + n
      /\ \A k \in 1 .. Len(delivered) + n :
           delivered'[k] = IF k <= Len(delivered) THEN delivered[k] ELSE bytes[k - Len(delivered)]
  <2> HIDE DEF bytes
  <2>1. QED
    BY <1>1, <1>3, <1>4 DEF bytes
<1>6. DownloadTypeOK'
  BY <1>1, <1>2, <1>3, <1>5 DEF DownloadInv, DownloadTypeOK
<1>7. ASSUME honours
      PROVE  current' <= FileLength /\ position' = current' /\ DownloadedOnce'
  <2>1. position = current /\ \A k \in 1 .. Len(delivered) : delivered[k] = k
    BY <1>2, <1>3, <1>7 DEF DownloadInv, DownloadedOnce
  <2>2. \A k \in 1 .. n : bytes[k] = position + k
    OBVIOUS
  <2>3. \A k \in 1 .. Len(delivered) + n : delivered'[k] = k
    <3> HIDE DEF bytes
    <3> TAKE k \in 1 .. Len(delivered) + n
    <3>1. CASE k <= Len(delivered)
      BY <1>3, <1>5, <2>1, <3>1
    <3>2. CASE k > Len(delivered)
      <4>1. k - Len(delivered) \in 1 .. n
        BY <1>3, <3>2
      <4>2. delivered'[k] = bytes[k - Len(delivered)]
        BY <1>3, <1>5, <3>2
      <4>3. bytes[k - Len(delivered)] = position + (k - Len(delivered))
        BY <2>2, <4>1
      <4>4. position = Len(delivered)
        BY <1>3, <2>1
      <4>5. QED
        BY <1>3, <4>2, <4>3, <4>4
    <3>3. QED
      BY <1>3, <3>1, <3>2
  <2>4. DOMAIN delivered' = 1 .. Len(delivered) + n
    BY <1>5
  <2>5. QED
    BY <1>1, <1>2, <1>3, <2>1, <2>3, <2>4 DEF DownloadedOnce
<1>8. QED
  BY <1>2, <1>6, <1>7 DEF DownloadInv, Requests

LEMMA DownloadStepKeeps ==
  ASSUME DownloadInv, DownloadStep
  PROVE  DownloadInv'
<1>1. CASE Redirected
  BY <1>1, DownloadAssumption
     DEF Redirected, TooMany, DownloadInv, DownloadTypeOK, DownloadedOnce, Requests, Ended
<1>2. CASE Refused \/ Broke \/ Unpacked
  BY <1>2
     DEF Refused, Broke, Unpacked, DownloadInv, DownloadTypeOK, DownloadedOnce, Requests, Ended
<1>3. CASE Succeeded
  <2>1. /\ hops' = 0 /\ UNCHANGED <<honours, current, delivered, timeouts>>
        /\ stage' \in {"confirm", "file", "reading"}
        /\ position' = position \/ position' = IF honours THEN current ELSE 0
        /\ stage' = "reading" /\ honours => position' = current
    BY <1>3 DEF Succeeded, Requests, Offset
  <2>2. position' \in 0 .. FileLength
    BY <2>1, DownloadAssumption DEF DownloadInv, DownloadTypeOK
  <2>3. QED
    BY <2>1, <2>2, DownloadAssumption
       DEF DownloadInv, DownloadTypeOK, DownloadedOnce, Requests, Ended
<1>4. CASE TimedOut
  BY <1>4, DownloadAssumption
     DEF TimedOut, DownloadInv, DownloadTypeOK, DownloadedOnce, Requests, Ended
<1>5. QED
  BY <1>1, <1>2, <1>3, <1>4, ReadKeeps DEF DownloadStep

LEMMA DownloadLeft ==
  ASSUME DownloadInv, UNCHANGED download
  PROVE  DownloadInv'
  BY DEF download, DownloadInv, DownloadTypeOK, DownloadedOnce

LEMMA NextDownloads == DownloadInv /\ [Next]_vars => DownloadInv'
<1> SUFFICES ASSUME DownloadInv, [Next]_vars PROVE DownloadInv'
  OBVIOUS
<1>1. Begin \/ DownloadStep \/ UNCHANGED download
  BY DEF Next, ImagesNext, InitStep, Start, Compare, Withdraw, Chmod, Unmount, RemoveImages, Sweep,
         Acquire, ScriptWorks, ScriptEnds, Seal, Download, AssertImages, Truncate, Write, Crash,
         RunStep, Tick, Configure, Check, Look, CreateDirs, CopyFile, Record, LinkTools, Save,
         GetRecipe, GetFile, vars, imageVars
<1>2. QED
  BY <1>1, BeginDownload, DownloadStepKeeps, DownloadLeft

(* From a server that honours Range, however often it stalls, the reader   *)
(* gets the bytes of the file in order, each once.                         *)
THEOREM EachByteOnce == Spec => []DownloadedOnce
<1>1. DownloadInv => DownloadedOnce
  BY DEF DownloadInv, DownloadedOnce
<1>2. QED
  BY <1>1, InitDownload, NextDownloads, PTL DEF Spec

-----------------------------------------------------------------------------
(* Types.                                                                  *)
StepsTyped ==
  /\ step \in Steps /\ failedAt \in Steps \cup {"none"}
  /\ forced \in BOOLEAN
  /\ inits \in 0 .. MaxInits

LEMMA InitSteps == Init => StepsTyped
<1> SUFFICES ASSUME Init PROVE StepsTyped
  OBVIOUS
<1>1. step = "idle" /\ failedAt = "none" /\ inits \in {0, MaxInits}
  BY DEF Init, ImagesInit, Ready
<1>2. forced = FALSE
  BY DEF Init, ImagesInit, Ready
<1>3. forced \in BOOLEAN
  BY <1>2, Zenon
<1>4. QED
  BY <1>1, <1>3, ImagesAssumption DEF StepsTyped, Steps

LEMMA NextSteps == StepsTyped /\ [Next]_vars => StepsTyped'
<1> SUFFICES ASSUME StepsTyped, [Next]_vars PROVE StepsTyped'
  OBVIOUS
<1>1. CASE Start
  <2>1. step' = "compare" /\ failedAt' = "none" /\ inits' = inits + 1 /\ inits < MaxInits
    BY <1>1 DEF Start
  <2>2. step' \in Steps /\ failedAt' \in Steps \cup {"none"} /\ inits' \in 0 .. MaxInits
    <3>1. inits \in 0 .. MaxInits /\ MaxInits \in Nat
      BY ImagesAssumption DEF StepsTyped
    <3>2. QED
      BY <2>1, <3>1 DEF Steps
  <2>3. forced' \in BOOLEAN
    BY <1>1, Zenon DEF Start
  <2>4. QED
    BY <2>2, <2>3 DEF StepsTyped
<1>2. ASSUME step' \in Steps, failedAt' \in {failedAt, step}, UNCHANGED <<forced, inits>>
      PROVE  StepsTyped'
  BY <1>2 DEF StepsTyped
<1>3. CASE Compare \/ Withdraw \/ Chmod \/ Unmount("unmount", "remove") \/ RemoveImages
  BY <1>2, <1>3 DEF Compare, Withdraw, Chmod, Unmount, RemoveImages, Goto, Panic, Steps, Removals
<1>4. CASE Sweep("sweep", "acquire") \/ Acquire \/ ScriptWorks \/ ScriptEnds
  BY <1>2, <1>4
     DEF Sweep, Acquire, ScriptWorks, ScriptEnds, Goto, Panic, process, Steps, Removals,
         Acquisitions, StepsTyped
<1>5. CASE Unmount("unmount new", "seal") \/ Seal \/ Sweep("sweep new", "assert") \/ Download
  BY <1>2, <1>5
     DEF Unmount, Seal, Sweep, Download, Goto, Panic, process, Steps, StepsTyped
<1>6. CASE AssertImages \/ Truncate \/ Write \/ Crash
  BY <1>2, <1>6 DEF AssertImages, Truncate, Write, Crash, Goto, Panic, Steps
<1>7. CASE UNCHANGED imageVars
  BY <1>7 DEF imageVars, process, StepsTyped
<1>8. QED
  BY <1>1, <1>3, <1>4, <1>5, <1>6, <1>7
     DEF Next, ImagesNext, InitStep, RunStep, Tick, Configure, Check, Look, CreateDirs, CopyFile,
         Record, LinkTools, Save, GetRecipe, GetFile, vars

\* The ranges of a recipe's files, and what is left when they are normalised
\* on the host, and again in the guest.
OfRecipes == RangesOfRecipes \cup {<<>>, <<IndexRange(0)>>}
Once == {Normalize(ranges) : ranges \in OfRecipes}
Twice == {Normalize(ranges) : ranges \in Once}

FilesWith(rangesSet) ==
  [name : Names, symbolic : BOOLEAN, ranges : rangesSet, length : Word]

Directory == [exists : BOOLEAN, tools : BOOLEAN, host : [Names -> Contents]]

SessionsTyped ==
  /\ now \in Seconds
  /\ doing \in [Instances -> Doing]
  /\ checked \in BOOLEAN
  /\ at \in [Instances -> Seconds]
  /\ foundNone \in [Instances -> BOOLEAN]
  /\ dirs \in [Seconds -> Directory]
  /\ got \in [Instances -> [Names -> Contents]]
  /\ recipe \in [Instances -> Seq(FilesWith(OfRecipes))]
  /\ todo \in [Instances -> Seq(FilesWith(Once \cup Twice))]

(* To normalise is to change the ranges of each file.                      *)
LEMMA NormalFilesProperties ==
  ASSUME NEW R, NEW files \in Seq(FilesWith(R))
  PROVE  /\ NormalFiles(files) \in Seq(FilesWith({Normalize(ranges) : ranges \in R}))
         /\ DOMAIN NormalFiles(files) = DOMAIN files
         /\ \A k \in DOMAIN files : NormalFiles(files)[k].name = files[k].name
<1> DEFINE N == {Normalize(ranges) : ranges \in R}
<1>1. DOMAIN files = 1 .. Len(files) /\ Len(files) \in Nat
  OBVIOUS
<1>2. ASSUME NEW k \in DOMAIN files
      PROVE  Normal(files[k]) \in FilesWith(N) /\ Normal(files[k]).name = files[k].name
  <2>1. files[k] \in FilesWith(R)
    BY <1>2
  <2>2. files[k].ranges \in R
    BY <2>1 DEF FilesWith
  <2>3. Normalize(files[k].ranges) \in N
    BY <2>2
  <2> DEFINE ranges == Normalize(files[k].ranges)
  <2> HIDE DEF N, ranges
  <2>4. [files[k] EXCEPT !.ranges = ranges] \in FilesWith(N)
    BY <2>1, <2>3 DEF FilesWith, ranges
  <2>5. [files[k] EXCEPT !.ranges = ranges].name = files[k].name
    BY <2>1 DEF FilesWith
  <2>6. QED
    BY <2>4, <2>5 DEF Normal, ranges
<1>3. NormalFiles(files) = [k \in 1 .. Len(files) |-> Normal(files[k])]
  BY <1>1 DEF NormalFiles
<1> HIDE DEF N
<1>4. NormalFiles(files) \in Seq(FilesWith(N))
  BY <1>1, <1>2, <1>3
<1>5. QED
  BY <1>1, <1>2, <1>3, <1>4 DEF N

(* Every file a recipe may have.                                           *)
LEMMA RecipesTyped ==
  /\ Plain \in Seq(FilesWith(OfRecipes))
  /\ FewRecipes \subseteq Seq(FilesWith(OfRecipes))
  /\ SymbolicRecipes \subseteq Seq(FilesWith(OfRecipes))
<1>1. 0 \in Word /\ 1 \in Word
  BY RecipesAssumption DEF Word
<1>2. ASSUME NEW name \in Names
      PROVE  Concrete(name) \in FilesWith(OfRecipes)
  BY <1>1 DEF Concrete, FilesWith, OfRecipes
<1>3. ASSUME NEW ranges \in OfRecipes, NEW length \in Word
      PROVE  Symbolic("input", ranges, length) \in FilesWith(OfRecipes)
  BY DEF Symbolic, FilesWith, Names
<1>4. ASSUME NEW f \in FilesWith(OfRecipes), NEW g \in FilesWith(OfRecipes)
      PROVE  <<f, g>> \in Seq(FilesWith(OfRecipes))
  OBVIOUS
<1>5. Plain \in Seq(FilesWith(OfRecipes))
  <2>1. Symbolic("input", <<IndexRange(0)>>, 1) \in FilesWith(OfRecipes)
    BY <1>1, <1>3 DEF OfRecipes
  <2>2. QED
    BY <1>2, <1>4, <2>1 DEF Plain, Names
<1>6. FewRecipes \subseteq Seq(FilesWith(OfRecipes))
  BY <1>2, <1>4, <1>5 DEF FewRecipes, Names
<1>7. SymbolicRecipes \subseteq Seq(FilesWith(OfRecipes))
  <2>1. ASSUME NEW ranges \in RangesOfRecipes, NEW length \in Word
        PROVE  <<Symbolic("input", ranges, length), Concrete("prog")>> \in Seq(FilesWith(OfRecipes))
    <3>1. Symbolic("input", ranges, length) \in FilesWith(OfRecipes)
      BY <1>3 DEF OfRecipes
    <3>2. Concrete("prog") \in FilesWith(OfRecipes)
      BY <1>2 DEF Names
    <3>3. QED
      BY <1>4, <3>1, <3>2
  <2>2. ASSUME NEW files \in SymbolicRecipes
        PROVE  files \in Seq(FilesWith(OfRecipes))
    <3>1. PICK ranges \in RangesOfRecipes, length \in Word :
            files = <<Symbolic("input", ranges, length), Concrete("prog")>>
      BY SMT DEF SymbolicRecipes
    <3>2. QED
      BY <2>1, <3>1, Zenon
  <2>3. QED
    BY <2>2
<1>8. QED
  BY <1>5, <1>6, <1>7

LEMMA InitTyped == Init => SessionsTyped
<1> SUFFICES ASSUME Init PROVE SessionsTyped
  OBVIOUS
<1>1. recipe \in [Instances -> Seq(FilesWith(OfRecipes))] /\ checked \in BOOLEAN
  <2>1. CASE recipe = [i \in Instances |-> Plain] /\ checked = FALSE
    BY <2>1, RecipesTyped
  <2>2. CASE recipe \in [Instances -> FewRecipes] /\ checked = FALSE
    BY <2>2, RecipesTyped
  <2>3. CASE /\ \E files \in SymbolicRecipes : recipe = [i \in Instances |-> files]
             /\ checked \in BOOLEAN
    BY <2>3, RecipesTyped
  <2>4. QED
    BY <2>1, <2>2, <2>3 DEF Init
<1>2. doing \in [Instances -> Doing]
  BY InitDoing DEF DoingTyped
<1>3. NoFiles \in [Names -> Contents]
  BY DEF NoFiles, Contents
<1>4. NewDir \in Directory
  BY <1>3 DEF NewDir, Directory
<1>5. todo \in [Instances -> Seq(FilesWith(Once \cup Twice))]
  <2>1. <<>> \in Seq(FilesWith(Once \cup Twice))
    OBVIOUS
  <2>2. todo = [i \in Instances |-> <<>>]
    BY DEF Init, SessionsInit
  <2>3. QED
    BY <2>1, <2>2
<1>6. now \in Seconds /\ at \in [Instances -> Seconds] /\ foundNone \in [Instances -> BOOLEAN]
  BY SessionsAssumption DEF Init, SessionsInit, Seconds
<1>7. dirs \in [Seconds -> Directory] /\ got \in [Instances -> [Names -> Contents]]
  BY <1>3, <1>4 DEF Init, SessionsInit
<1>8. QED
  BY <1>1, <1>2, <1>5, <1>6, <1>7 DEF SessionsTyped

(* Writing a host file changes one name in one directory.                  *)
LEMMA WriteHostIs ==
  ASSUME SessionsTyped, NEW i \in Instances, NEW name \in Names, NEW content \in Contents,
         WriteHost(i, name, content)
  PROVE  /\ dirs' \in [Seconds -> Directory]
         /\ \A s \in Seconds \ {at[i]} : dirs'[s] = dirs[s]
         /\ \A n \in Names :
              dirs'[at[i]].host[n] = IF n = name THEN content ELSE dirs[at[i]].host[n]
<1>1. at[i] \in Seconds /\ dirs[at[i]] \in Directory
  BY DEF SessionsTyped
<1> DEFINE host == [dirs[at[i]].host EXCEPT ![name] = content]
           dir == [dirs[at[i]] EXCEPT !.host = host]
<1>2. dirs' = [dirs EXCEPT ![at[i]] = dir]
  BY DEF WriteHost
<1>3. host \in [Names -> Contents]
  BY <1>1 DEF Directory
<1>4. \A n \in Names : host[n] = IF n = name THEN content ELSE dirs[at[i]].host[n]
  BY <1>1 DEF Directory
<1> HIDE DEF host
<1>5. dir \in Directory /\ dir.host = host
  BY <1>1, <1>3 DEF Directory
<1> HIDE DEF dir
<1>6. QED
  BY <1>1, <1>2, <1>4, <1>5 DEF SessionsTyped

LEMMA ContentsOf ==
  ASSUME NEW i \in Instances
  PROVE  FileOf(i) \in Contents /\ RecipeOf(i) \in Contents /\ Script \in Contents /\ Link \in Contents
  BY DEF Contents

\* The names of the files in a directory, of those of an instance's recipe that
\* the session does not use itself, and of those still to be handled.
Host(i) == dirs[at[i]].host
OwnNames(i) == {recipe[i][k].name : k \in DOMAIN recipe[i]} \ Reserved
Left(i) == {todo[i][k].name : k \in DOMAIN todo[i]}

(* The file at the head of what is to be done is one with a name.          *)
LEMMA HeadTodo ==
  ASSUME SessionsTyped, NEW i \in Instances, todo[i] # <<>>
  PROVE  /\ Head(todo[i]).name \in Names
         /\ Tail(todo[i]) \in Seq(FilesWith(Once \cup Twice))
         /\ \A name : name \in Left(i) =>
              \/ name = Head(todo[i]).name
              \/ name \in {Tail(todo[i])[k].name : k \in DOMAIN Tail(todo[i])}
<1>1. todo[i] \in Seq(FilesWith(Once \cup Twice))
  BY DEF SessionsTyped
<1> DEFINE t == todo[i]
           F == FilesWith(Once \cup Twice)
<1>2. t \in Seq(F) /\ t # <<>>
  BY <1>1
<1>3. \A f \in F : f.name \in Names
  BY DEF FilesWith
<1> HIDE DEF t, F
<1>4. /\ Head(t) \in F /\ Tail(t) \in Seq(F) /\ Len(t) \in Nat \ {0}
      /\ Head(t) = t[1] /\ Len(Tail(t)) = Len(t) - 1 /\ DOMAIN t = 1 .. Len(t)
      /\ DOMAIN Tail(t) = 1 .. Len(t) - 1
      /\ \A k \in 1 .. Len(t) - 1 : Tail(t)[k] = t[k + 1]
  BY <1>2
<1>5. ASSUME NEW k \in DOMAIN t, k # 1
      PROVE  \E n \in DOMAIN Tail(t) : Tail(t)[n].name = t[k].name
  <2>1. k - 1 \in 1 .. Len(t) - 1 /\ (k - 1) + 1 = k
    BY <1>4, <1>5
  <2>2. Tail(t)[k - 1] = t[k]
    BY <1>4, <2>1
  <2>3. QED
    BY <1>4, <2>1, <2>2
<1>6. ASSUME NEW name, name \in {t[k].name : k \in DOMAIN t}
      PROVE  \/ name = Head(t).name
             \/ name \in {Tail(t)[k].name : k \in DOMAIN Tail(t)}
  BY <1>4, <1>5, <1>6
<1>7. QED
  BY <1>3, <1>4, <1>6 DEF t, F, Left

-----------------------------------------------------------------------------
(* Whose steps change what.                                                *)

\* Only those write to a session_dir who looked and found none.
NotYet == {"none", "off", "checking", "looking"}
Writing == {"creating", "copying", "recording", "linking", "saving"}

FoundBeforeWriting ==
  \A i \in Instances : /\ doing[i] \in NotYet => ~foundNone[i]
                       /\ doing[i] \in Writing => foundNone[i]

(* A step of one instance changes its own variables, and its directory     *)
(* while it is writing there.                                              *)
LEMMA OwnStep ==
  ASSUME SessionsTyped, NEW i \in Instances, RunStep(i)
  PROVE  /\ \A j \in Instances \ {i} :
              /\ doing'[j] = doing[j] /\ at'[j] = at[j] /\ foundNone'[j] = foundNone[j]
              /\ todo'[j] = todo[j] /\ got'[j] = got[j]
         /\ doing[i] \notin {"off", "looking"} => at'[i] = at[i] /\ foundNone'[i] = foundNone[i]
         /\ \A s \in Seconds : s # at[i] \/ doing[i] \notin Writing => dirs'[s] = dirs[s]
         /\ UNCHANGED <<now, recipe, checked>>
<1>1. \A j \in Instances \ {i} : doing'[j] = doing[j]
  BY OneMoves DEF SessionsTyped, DoingTyped
<1>2. \A j \in Instances \ {i} : at'[j] = at[j] /\ foundNone'[j] = foundNone[j]
  BY DEF RunStep, Configure, Check, Look, CreateDirs, CopyFile, Record, LinkTools, Save,
         GetRecipe, GetFile, SessionsTyped
<1>3. \A j \in Instances \ {i} : todo'[j] = todo[j]
  BY DEF RunStep, Configure, Check, Look, CreateDirs, CopyFile, Record, LinkTools, Save,
         GetRecipe, GetFile, SessionsTyped
<1>4. \A j \in Instances \ {i} : got'[j] = got[j]
  BY DEF RunStep, Configure, Check, Look, CreateDirs, CopyFile, Record, LinkTools, Save,
         GetRecipe, GetFile, SessionsTyped
<1>5. /\ doing[i] \notin {"off", "looking"} => at' = at /\ foundNone' = foundNone
      /\ UNCHANGED <<now, recipe, checked>>
  BY DEF RunStep, Configure, Check, Look, CreateDirs, CopyFile, Record, LinkTools, Save,
         GetRecipe, GetFile
<1>6. \/ dirs' = dirs
      \/ doing[i] \in Writing /\ \E dir : dirs' = [dirs EXCEPT ![at[i]] = dir]
  BY DEF RunStep, Configure, Check, Look, CreateDirs, CopyFile, Record, LinkTools, Save,
         GetRecipe, GetFile, WriteHost, Writing
<1>7. \A s \in Seconds : s # at[i] \/ doing[i] \notin Writing => dirs'[s] = dirs[s]
  BY <1>6 DEF SessionsTyped
<1>8. QED
  BY <1>1, <1>2, <1>3, <1>4, <1>5, <1>7

LEMMA FoundKeeps ==
  ASSUME SessionsTyped, FoundBeforeWriting, NEW i \in Instances, RunStep(i)
  PROVE  FoundBeforeWriting'
<1>1. \A j \in Instances \ {i} : doing'[j] = doing[j] /\ foundNone'[j] = foundNone[j]
  BY OwnStep
<1>2. doing'[i] \in NotYet => ~foundNone'[i]
  BY DEF RunStep, Configure, Check, Look, CreateDirs, CopyFile, Record, LinkTools, Save,
         GetRecipe, GetFile, Does, SessionsTyped, FoundBeforeWriting, NotYet
<1>3. doing'[i] \in Writing => foundNone'[i]
  <2>1. CASE Look(i)
    BY <2>1 DEF Look, IsTaken, Does, SessionsTyped, Writing
  <2>2. CASE ~Look(i)
    BY <2>2 DEF RunStep, Configure, Check, CreateDirs, CopyFile, Record, LinkTools, Save,
                GetRecipe, GetFile, Does, SessionsTyped, FoundBeforeWriting, Writing
  <2>3. QED
    BY <2>1, <2>2
<1>4. QED
  BY <1>1, <1>2, <1>3 DEF FoundBeforeWriting, NotYet, Writing

-----------------------------------------------------------------------------
(* Each step keeps the types.                                              *)
LEMMA TypedWithout ==
  ASSUME SessionsTyped, NEW i \in Instances, RunStep(i),
         at' \in [Instances -> Seconds], foundNone' \in [Instances -> BOOLEAN],
         dirs' \in [Seconds -> Directory], got' \in [Instances -> [Names -> Contents]],
         todo' \in [Instances -> Seq(FilesWith(Once \cup Twice))]
  PROVE  SessionsTyped'
<1>1. doing' \in [Instances -> Doing]
  BY OneMoves DEF SessionsTyped, DoingTyped
<1>2. UNCHANGED <<now, recipe, checked>>
  BY OwnStep
<1>3. QED
  BY <1>1, <1>2 DEF SessionsTyped

LEMMA RunTyped ==
  ASSUME SessionsTyped, NEW i \in Instances, RunStep(i)
  PROVE  SessionsTyped'
<1> DEFINE T == Seq(FilesWith(Once \cup Twice))
<1>1. /\ at \in [Instances -> Seconds] /\ foundNone \in [Instances -> BOOLEAN] /\ now \in Seconds
      /\ dirs \in [Seconds -> Directory] /\ got \in [Instances -> [Names -> Contents]]
      /\ todo \in [Instances -> T] /\ at[i] \in Seconds
      /\ \A j \in Instances : recipe[j] \in Seq(FilesWith(OfRecipes))
  BY DEF SessionsTyped
<1>2. ASSUME NEW j \in Instances
      PROVE  /\ NormalFiles(recipe[j]) \in Seq(FilesWith(Once))
             /\ NormalFiles(NormalFiles(recipe[j])) \in Seq(FilesWith(Twice))
  BY <1>1, NormalFilesProperties DEF Once, Twice
<1>3. Seq(FilesWith(Once)) \subseteq T /\ Seq(FilesWith(Twice)) \subseteq T
  <2>1. FilesWith(Once) \subseteq FilesWith(Once \cup Twice)
        /\ FilesWith(Twice) \subseteq FilesWith(Once \cup Twice)
    BY DEF FilesWith
  <2>2. ASSUME NEW A, NEW B, A \subseteq B
        PROVE  Seq(A) \subseteq Seq(B)
    BY <2>2
  <2>3. QED
    BY <2>1, <2>2
<1> HIDE DEF T
<1>4. CASE Configure(i)
  <2>1. /\ at' = [at EXCEPT ![i] = now]
        /\ todo' = todo \/ todo' = [todo EXCEPT ![i] = NormalFiles(recipe[i])]
        /\ UNCHANGED <<foundNone, dirs, got>>
    BY <1>4 DEF Configure
  <2>2. NormalFiles(recipe[i]) \in T
    BY <1>2, <1>3
  <2>3. at' \in [Instances -> Seconds] /\ todo' \in [Instances -> T]
    BY <1>1, <2>1, <2>2
  <2>4. QED
    BY <1>1, <2>1, <2>3, TypedWithout DEF T
<1>5. CASE Check(i)
  BY <1>1, <1>5, TypedWithout DEF Check, T
<1>6. CASE Look(i)
  <2>1. /\ foundNone' = [foundNone EXCEPT ![i] = ~dirs[at[i]].exists]
        /\ UNCHANGED <<at, dirs, got, todo>>
    BY <1>6 DEF Look
  <2>2. foundNone' \in [Instances -> BOOLEAN]
    BY <1>1, <2>1
  <2>3. QED
    BY <1>1, <2>1, <2>2, TypedWithout DEF T
<1>7. CASE CreateDirs(i)
  <2>1. /\ dirs' = [dirs EXCEPT ![at[i]] = [dirs[at[i]] EXCEPT !.exists = TRUE]]
        /\ UNCHANGED <<at, foundNone, got, todo>>
    BY <1>7 DEF CreateDirs
  <2>2. [dirs[at[i]] EXCEPT !.exists = TRUE] \in Directory
    BY <1>1 DEF Directory
  <2>3. dirs' \in [Seconds -> Directory]
    BY <1>1, <2>1, <2>2
  <2>4. QED
    BY <1>1, <2>1, <2>3, TypedWithout DEF T
<1>8. CASE CopyFile(i)
  <2>1. UNCHANGED <<at, foundNone, got>>
    BY <1>8 DEF CopyFile
  <2>2. CASE UNCHANGED <<todo, dirs>>
    BY <1>1, <2>1, <2>2, TypedWithout DEF T
  <2>3. CASE /\ todo[i] # <<>> /\ WriteHost(i, Head(todo[i]).name, FileOf(i))
             /\ todo' = [todo EXCEPT ![i] = Tail(@)]
    <3>1. dirs' \in [Seconds -> Directory]
      BY <2>3, HeadTodo, ContentsOf, WriteHostIs
    <3>2. Tail(todo[i]) \in T
      BY <2>3, HeadTodo DEF T
    <3>3. todo' \in [Instances -> T]
      BY <1>1, <2>3, <3>2
    <3>4. QED
      BY <1>1, <2>1, <3>1, <3>3, TypedWithout DEF T
  <2>4. QED
    BY <1>8, <2>2, <2>3 DEF CopyFile
<1>9. CASE Record(i) \/ Save(i)
  <2>1. UNCHANGED <<at, foundNone, got, todo>>
    BY <1>9 DEF Record, Save
  <2>2. dirs' \in [Seconds -> Directory]
    BY <1>9, ContentsOf, WriteHostIs DEF Record, Save, Names
  <2>3. QED
    BY <1>1, <2>1, <2>2, TypedWithout DEF T
<1>10. CASE LinkTools(i)
  <2>1. UNCHANGED <<at, foundNone, got, todo>>
    BY <1>10 DEF LinkTools
  <2>2. dirs' \in [Seconds -> Directory]
    <3> DEFINE old == dirs[at[i]].host["bootstrap.elf"]
               elf == IF old = Absent /\ ~IsLinked(i) THEN Link ELSE old
               tools == [dirs EXCEPT ![at[i]] = [dirs[at[i]] EXCEPT !.tools = TRUE]]
    <3>1. tools \in [Seconds -> Directory]
      BY <1>1 DEF Directory
    <3>2. elf \in Contents
      BY <1>1 DEF Directory, Names, Contents
    <3> HIDE DEF elf
    <3>3. [tools EXCEPT ![at[i]].host["bootstrap.elf"] = elf] \in [Seconds -> Directory]
      BY <1>1, <3>1, <3>2 DEF Directory
    <3>4. tools[at[i]].host["bootstrap.elf"] = old
      BY <1>1 DEF Directory
    <3>5. dirs' = [tools EXCEPT ![at[i]].host["bootstrap.elf"] = elf]
      BY <1>10, <3>4 DEF LinkTools, elf
    <3>6. QED
      BY <3>3, <3>5
  <2>3. QED
    BY <1>1, <2>1, <2>2, TypedWithout DEF T
<1>11. CASE GetRecipe(i)
  <2> DEFINE json == dirs[at[i]].host["recipe.json"]
  <2>1. /\ got' = [got EXCEPT ![i] = [got[i] EXCEPT !["recipe.json"] = json]]
        /\ UNCHANGED <<at, foundNone, dirs>>
        /\ \/ UNCHANGED todo
           \/ /\ json.is = "recipe"
              /\ todo' = [todo EXCEPT ![i] = NormalFiles(NormalFiles(recipe[json.owner]))]
    BY <1>11 DEF GetRecipe
  <2>2. json \in Contents
    BY <1>1 DEF Directory, Names
  <2>3. json.is = "recipe" => json.owner \in Instances
    <3>1. /\ Absent.is # "recipe" /\ Script.is # "recipe" /\ Link.is # "recipe"
          /\ \A j : FileOf(j).is # "recipe" /\ RecipeOf(j).owner = j
      BY DEF Absent, Script, Link, FileOf, RecipeOf
    <3> HIDE DEF json
    <3>2. QED
      BY <2>2, <3>1 DEF Contents
  <2> HIDE DEF json
  <2>4. got' \in [Instances -> [Names -> Contents]]
    BY <1>1, <2>1, <2>2
  <2>5. todo' \in [Instances -> T]
    <3>1. json.is = "recipe" => NormalFiles(NormalFiles(recipe[json.owner])) \in T
      BY <1>2, <1>3, <2>3
    <3>2. QED
      BY <1>1, <2>1, <3>1
  <2>6. QED
    BY <1>1, <2>1, <2>4, <2>5, TypedWithout DEF T
<1>12. CASE GetFile(i)
  <2>1. UNCHANGED <<at, foundNone, dirs>>
    BY <1>12 DEF GetFile
  <2>2. CASE UNCHANGED <<todo, got>>
    BY <1>1, <2>1, <2>2, TypedWithout DEF T
  <2>3. CASE todo[i] # <<>>
    <3> DEFINE name == Head(todo[i]).name
    <3>1. /\ got' = [got EXCEPT ![i] = [got[i] EXCEPT ![name] = dirs[at[i]].host[name]]]
          /\ todo' = todo \/ todo' = [todo EXCEPT ![i] = Tail(todo[i])]
      BY <1>12, <2>3 DEF GetFile
    <3>2. name \in Names /\ Tail(todo[i]) \in T
      BY <2>3, HeadTodo DEF T
    <3>3. dirs[at[i]].host[name] \in Contents
      BY <1>1, <3>2 DEF Directory
    <3> HIDE DEF name
    <3>4. got' \in [Instances -> [Names -> Contents]] /\ todo' \in [Instances -> T]
      BY <1>1, <3>1, <3>2, <3>3
    <3>5. QED
      BY <1>1, <2>1, <3>4, TypedWithout DEF T
  <2>4. QED
    BY <1>12, <2>2, <2>3 DEF GetFile
<1>13. QED
  BY <1>4, <1>5, <1>6, <1>7, <1>8, <1>9, <1>10, <1>11, <1>12 DEF RunStep

-----------------------------------------------------------------------------
(* What an instance that is alone in its directory copies, and gets.       *)
Alone(i) == \A j \in Instances \ {i} : ~(foundNone[j] /\ at[j] = at[i])

Own(i) ==
  /\ doing[i] \in {"checking", "looking", "creating"} => OwnNames(i) \subseteq Left(i)
  /\ doing[i] = "copying" => \A name \in OwnNames(i) \ Left(i) : Host(i)[name] = FileOf(i)
  /\ doing[i] \in {"recording", "linking", "saving", "getting", "fetching"} =>
       \A name \in OwnNames(i) : Host(i)[name] = FileOf(i)
  /\ doing[i] \in {"linking", "saving", "getting", "fetching"} =>
       Host(i)["recipe.json"] = RecipeOf(i)
  /\ doing[i] \in {"fetching", "analysing"} => got[i]["recipe.json"] = RecipeOf(i)
  /\ doing[i] = "fetching" => \A name \in OwnNames(i) \ Left(i) : got[i][name] = FileOf(i)
  /\ doing[i] = "analysing" => \A name \in OwnNames(i) : got[i][name] = FileOf(i)

OwnInv == SessionsTyped /\ FoundBeforeWriting /\ \A i \in Instances : Alone(i) => Own(i)

LEMMA InitOwn == Init => OwnInv
<1> SUFFICES ASSUME Init PROVE OwnInv
  OBVIOUS
<1>1. SessionsTyped
  BY InitTyped
<1>2. \A i \in Instances : doing[i] \in {"off", "none"} /\ foundNone[i] = FALSE
  BY DEF Init, SessionsInit, Only
<1>3. QED
  BY <1>1, <1>2 DEF OwnInv, FoundBeforeWriting, NotYet, Writing, Own

(* Who looked and found nothing stays so, in the same directory: nobody    *)
(* becomes alone.                                                          *)
LEMMA AloneBefore ==
  ASSUME SessionsTyped, FoundBeforeWriting, NEW i \in Instances, RunStep(i),
         NEW j \in Instances, Alone(j)', j # i \/ doing[i] # "off"
  PROVE  Alone(j)
<1> SUFFICES ASSUME NEW k \in Instances \ {j}, foundNone[k], at[k] = at[j] PROVE FALSE
  BY DEF Alone
<1>1. doing[k] \notin NotYet
  BY DEF FoundBeforeWriting
<1>2. foundNone'[k] = foundNone[k] /\ at'[k] = at[k]
  BY <1>1, OwnStep DEF NotYet
<1>3. at'[j] = at[j]
  <2>1. ASSUME doing[i] # "off" PROVE at' = at
    BY <2>1 DEF RunStep, Configure, Check, Look, CreateDirs, CopyFile, Record, LinkTools, Save,
                GetRecipe, GetFile
  <2>2. QED
    BY <2>1, OwnStep
<1>4. QED
  BY <1>2, <1>3 DEF Alone

(* An instance that stays alone is not disturbed by others.                *)
LEMMA OthersOwn ==
  ASSUME OwnInv, NEW i \in Instances, RunStep(i), NEW j \in Instances \ {i}, Alone(j)'
  PROVE  Own(j)'
<1>1. Alone(j) /\ Own(j)
  BY AloneBefore DEF OwnInv
<1>2. /\ doing'[j] = doing[j] /\ at'[j] = at[j] /\ todo'[j] = todo[j] /\ got'[j] = got[j]
      /\ recipe' = recipe
  BY OwnStep DEF OwnInv
<1>3. at[j] \in Seconds /\ (at[j] # at[i] \/ doing[i] \notin Writing)
  BY <1>1 DEF OwnInv, SessionsTyped, FoundBeforeWriting, Alone
<1>4. dirs'[at[j]] = dirs[at[j]]
  BY <1>3, OwnStep DEF OwnInv
<1>5. Host(j)' = Host(j) /\ OwnNames(j)' = OwnNames(j) /\ Left(j)' = Left(j)
  BY <1>2, <1>4 DEF Host, OwnNames, Left
<1>6. QED
  BY <1>1, <1>2, <1>5 DEF Own, FileOf, RecipeOf

LEMMA NamesOfRecipe ==
  ASSUME SessionsTyped, NEW i \in Instances
  PROVE  /\ OwnNames(i) \subseteq Names
         /\ OwnNames(i) \subseteq {NormalFiles(recipe[i])[k].name : k \in DOMAIN NormalFiles(recipe[i])}
         /\ OwnNames(i) \subseteq {NormalFiles(NormalFiles(recipe[i]))[k].name :
                                     k \in DOMAIN NormalFiles(NormalFiles(recipe[i]))}
<1> DEFINE files == recipe[i]
           once == NormalFiles(files)
           twice == NormalFiles(once)
<1>1. files \in Seq(FilesWith(OfRecipes))
  BY DEF SessionsTyped
<1> HIDE DEF files
<1>2. \A k \in DOMAIN files : files[k].name \in Names
  <2>1. \A f \in FilesWith(OfRecipes) : f.name \in Names
    BY DEF FilesWith
  <2>2. QED
    BY <1>1, <2>1
<1>3. /\ once \in Seq(FilesWith({Normalize(ranges) : ranges \in OfRecipes}))
      /\ DOMAIN once = DOMAIN files /\ \A k \in DOMAIN files : once[k].name = files[k].name
  BY <1>1, NormalFilesProperties
<1> HIDE DEF once
<1>4. DOMAIN twice = DOMAIN once /\ \A k \in DOMAIN once : twice[k].name = once[k].name
  BY <1>3, NormalFilesProperties
<1>5. OwnNames(i) \subseteq {files[k].name : k \in DOMAIN files}
  BY DEF OwnNames, files
<1> HIDE DEF twice
<1>6. /\ OwnNames(i) \subseteq Names
      /\ OwnNames(i) \subseteq {once[k].name : k \in DOMAIN once}
      /\ OwnNames(i) \subseteq {twice[k].name : k \in DOMAIN twice}
  BY <1>2, <1>3, <1>4, <1>5
<1>7. QED
  BY <1>6 DEF twice, once, files

LEMMA OwnAlone ==
  ASSUME OwnInv, NEW i \in Instances, RunStep(i), Alone(i)'
  PROVE  Own(i)'
<1>1. OwnNames(i)' = OwnNames(i) /\ OwnNames(i) \subseteq Names \ Reserved
  BY OwnStep, NamesOfRecipe DEF OwnNames, OwnInv
<1>2. CASE Configure(i)
  <2>1. doing'[i] \in {"panicked", "checking"}
    BY <1>2 DEF Configure, Does, OwnInv, SessionsTyped
  <2>2. doing'[i] = "checking" => todo'[i] = NormalFiles(recipe[i])
    BY <1>2 DEF Configure, Does, OwnInv, SessionsTyped
  <2>3. doing'[i] = "checking" => OwnNames(i)' \subseteq Left(i)'
    BY <1>1, <2>2, NamesOfRecipe DEF OwnInv, Left
  <2>4. QED
    BY <2>1, <2>3 DEF Own
<1>3. ASSUME ~Configure(i) PROVE Own(i) /\ at'[i] = at[i] /\ at[i] \in Seconds
  <2>1. doing[i] # "off"
    BY <1>3 DEF RunStep, Check, Look, CreateDirs, CopyFile, Record, LinkTools, Save, GetRecipe,
                GetFile
  <2>2. Own(i)
    BY <2>1, AloneBefore DEF OwnInv
  <2>3. at' = at
    BY <1>3 DEF RunStep, Check, Look, CreateDirs, CopyFile, Record, LinkTools, Save, GetRecipe,
                GetFile
  <2>4. QED
    BY <2>2, <2>3 DEF OwnInv, SessionsTyped
<1>4. CASE Check(i) \/ Look(i)
  <2>1. /\ doing[i] \in {"checking", "looking"}
        /\ doing'[i] \in {"looking", "creating", "failed"} /\ todo' = todo
    BY <1>4 DEF Check, Look, Does, OwnInv, SessionsTyped
  <2>2. Own(i)
    BY <2>1, <1>3 DEF Configure
  <2>3. QED
    BY <1>1, <2>1, <2>2 DEF Own, Left
<1>5. CASE CreateDirs(i)
  <2>1. doing[i] = "creating" /\ doing'[i] = "copying" /\ todo' = todo
    BY <1>5 DEF CreateDirs, Does, OwnInv, SessionsTyped
  <2>2. Own(i)
    BY <2>1, <1>3 DEF Configure
  <2>3. QED
    BY <1>1, <2>1, <2>2 DEF Own, Left
<1>6. CASE CopyFile(i)
  <2>1. doing[i] = "copying" /\ Own(i) /\ at'[i] = at[i]
    BY <1>6, <1>3 DEF CopyFile, Configure
  <2>2. CASE todo[i] = <<>>
    <3>1. doing'[i] = "recording" /\ dirs' = dirs
      BY <1>6, <2>2 DEF CopyFile, Does, OwnInv, SessionsTyped
    <3>2. Left(i) = {}
      BY <2>2 DEF Left
    <3>3. QED
      BY <1>1, <2>1, <3>1, <3>2 DEF Own, Host, FileOf
  <2>3. CASE doing'[i] = "panicked"
    BY <2>3 DEF Own
  <2>4. CASE /\ todo[i] # <<>> /\ WriteHost(i, Head(todo[i]).name, FileOf(i))
             /\ todo' = [todo EXCEPT ![i] = Tail(@)] /\ UNCHANGED doing
    <3>1. \A n \in Names : Host(i)'[n] =
            IF n = Head(todo[i]).name THEN FileOf(i) ELSE Host(i)[n]
      BY <2>1, <2>4, HeadTodo, ContentsOf, WriteHostIs DEF OwnInv, Host
    <3>2. todo'[i] = Tail(todo[i])
      BY <2>4 DEF OwnInv, SessionsTyped
    <3>3. \A name \in OwnNames(i) : name \notin Left(i)' =>
            name = Head(todo[i]).name \/ name \notin Left(i)
      <4>1. Left(i)' = {Tail(todo[i])[k].name : k \in DOMAIN Tail(todo[i])}
        BY <3>2 DEF Left
      <4>2. QED
        BY <2>4, <4>1, HeadTodo DEF OwnInv
    <3>4. \A name \in OwnNames(i) : name \notin Left(i)' => Host(i)'[name] = FileOf(i)
      BY <1>1, <2>1, <3>1, <3>3 DEF Own
    <3>5. QED
      BY <1>1, <2>1, <2>4, <3>4 DEF Own, FileOf
  <2>5. QED
    BY <1>6, <2>2, <2>3, <2>4 DEF CopyFile, Does, OwnInv, SessionsTyped
<1>7. CASE Record(i)
  <2>1. /\ doing[i] = "recording" /\ doing'[i] = "linking" /\ Own(i) /\ at'[i] = at[i]
    BY <1>7, <1>3 DEF Record, Configure, Does, OwnInv, SessionsTyped
  <2>2. \A n \in Names : Host(i)'[n] = IF n = "recipe.json" THEN RecipeOf(i) ELSE Host(i)[n]
    BY <1>7, <2>1, ContentsOf, WriteHostIs DEF Record, OwnInv, Host, Names
  <2>3. QED
    BY <1>1, <2>1, <2>2 DEF Own, Names, Reserved, FileOf, RecipeOf
<1>8. CASE LinkTools(i)
  <2>1. /\ doing[i] = "linking" /\ doing'[i] \in {"panicked", "saving"} /\ Own(i)
        /\ at'[i] = at[i] /\ at[i] \in Seconds
    BY <1>8, <1>3 DEF LinkTools, Configure, Does, OwnInv, SessionsTyped
  <2>2. \A n \in Names \ {"bootstrap.elf"} : Host(i)'[n] = Host(i)[n]
    BY <1>8, <2>1 DEF LinkTools, OwnInv, SessionsTyped, Directory, Host
  <2>3. QED
    BY <1>1, <2>1, <2>2 DEF Own, Names, Reserved, FileOf, RecipeOf
<1>9. CASE Save(i)
  <2>1. /\ doing[i] = "saving" /\ doing'[i] = "getting" /\ Own(i) /\ at'[i] = at[i]
    BY <1>9, <1>3 DEF Save, Configure, Does, OwnInv, SessionsTyped
  <2>2. \A n \in Names : Host(i)'[n] = IF n = "bootstrap.sh" THEN Script ELSE Host(i)[n]
    BY <1>9, <2>1, ContentsOf, WriteHostIs DEF Save, OwnInv, Host, Names
  <2>3. QED
    BY <1>1, <2>1, <2>2 DEF Own, Names, Reserved, FileOf, RecipeOf
<1>10. CASE GetRecipe(i)
  <2>1. /\ doing[i] = "getting" /\ Own(i) /\ at'[i] = at[i] /\ dirs' = dirs
    BY <1>10, <1>3 DEF GetRecipe, Configure
  <2>2. Host(i)["recipe.json"] = RecipeOf(i) /\ Host(i)' = Host(i)
    BY <2>1 DEF Own, Host
  <2>3. RecipeOf(i).is = "recipe" /\ RecipeOf(i).owner = i
    BY DEF RecipeOf
  <2>4. /\ doing'[i] = "fetching"
        /\ todo'[i] = NormalFiles(NormalFiles(recipe[i]))
        /\ got'[i]["recipe.json"] = RecipeOf(i)
    BY <1>10, <2>2, <2>3 DEF GetRecipe, Host, Does, OwnInv, SessionsTyped, Names
  <2>5. OwnNames(i) \subseteq Left(i)'
    BY <2>4, NamesOfRecipe DEF Left, OwnInv
  <2>6. QED
    BY <1>1, <2>1, <2>2, <2>4, <2>5 DEF Own, FileOf, RecipeOf
<1>11. CASE GetFile(i)
  <2>1. /\ doing[i] = "fetching" /\ Own(i) /\ at'[i] = at[i] /\ dirs' = dirs
    BY <1>11, <1>3 DEF GetFile, Configure
  <2>2. Host(i)' = Host(i)
    BY <2>1 DEF Host
  <2>3. CASE todo[i] = <<>>
    <3>1. doing'[i] = "analysing" /\ got' = got
      BY <1>11, <2>3 DEF GetFile, Does, OwnInv, SessionsTyped
    <3>2. Left(i) = {}
      BY <2>3 DEF Left
    <3>3. QED
      BY <1>1, <2>1, <3>1, <3>2 DEF Own, FileOf, RecipeOf
  <2>4. CASE doing'[i] = "lost"
    BY <2>4 DEF Own
  <2>5. CASE todo[i] # <<>> /\ doing'[i] # "lost"
    <3> DEFINE name == Head(todo[i]).name
    <3>1. /\ got' = [got EXCEPT ![i] = [got[i] EXCEPT ![name] = dirs[at[i]].host[name]]]
          /\ todo' = [todo EXCEPT ![i] = Tail(todo[i])] /\ doing' = doing
      BY <1>11, <2>5 DEF GetFile, Does, OwnInv, SessionsTyped
    <3>2. todo'[i] = Tail(todo[i]) /\ name \in Names
      BY <2>5, <3>1, HeadTodo DEF OwnInv, SessionsTyped
    <3>3. \A n \in OwnNames(i) : n \notin Left(i)' => n = name \/ n \notin Left(i)
      <4>1. Left(i)' = {Tail(todo[i])[k].name : k \in DOMAIN Tail(todo[i])}
        BY <3>2 DEF Left
      <4>2. QED
        BY <2>5, <4>1, HeadTodo DEF OwnInv
    <3> HIDE DEF name
    <3>4. \A n \in Names : got'[i][n] = IF n = name THEN Host(i)[n] ELSE got[i][n]
      BY <3>1, <3>2 DEF OwnInv, SessionsTyped, Host
    <3>5. got'[i]["recipe.json"] = RecipeOf(i)
      BY <2>1, <3>4 DEF Own, Names
    <3>6. \A n \in OwnNames(i) : n \notin Left(i)' => got'[i][n] = FileOf(i)
      BY <1>1, <2>1, <3>3, <3>4 DEF Own
    <3>7. QED
      BY <1>1, <2>1, <2>2, <3>1, <3>5, <3>6 DEF Own, FileOf, RecipeOf
  <2>6. QED
    BY <2>3, <2>4, <2>5
<1>12. QED
  BY <1>2, <1>4, <1>5, <1>6, <1>7, <1>8, <1>9, <1>10, <1>11 DEF RunStep

LEMMA NextOwn == OwnInv /\ [Next]_vars => OwnInv'
<1> SUFFICES ASSUME OwnInv, [Next]_vars PROVE OwnInv'
  OBVIOUS
<1>1. CASE \E i \in Instances : RunStep(i)
  <2>1. PICK i \in Instances : RunStep(i)
    BY <1>1
  <2>2. SessionsTyped' /\ FoundBeforeWriting'
    BY <2>1, RunTyped, FoundKeeps DEF OwnInv
  <2>3. \A j \in Instances : Alone(j)' => Own(j)'
    BY <2>1, OthersOwn, OwnAlone
  <2>4. QED
    BY <2>2, <2>3 DEF OwnInv
<1>2. CASE /\ UNCHANGED <<doing, recipe, checked, at, foundNone, todo, dirs, got>>
           /\ now' \in Seconds
  <2>1. SessionsTyped'
    BY <1>2 DEF OwnInv, SessionsTyped
  <2>2. FoundBeforeWriting'
    BY <1>2 DEF OwnInv, FoundBeforeWriting, NotYet, Writing
  <2>3. ASSUME NEW i \in Instances, Alone(i)'
        PROVE  Own(i)'
    <3>1. Own(i)
      BY <1>2, <2>3 DEF OwnInv, Alone
    <3>2. Host(i)' = Host(i) /\ OwnNames(i)' = OwnNames(i) /\ Left(i)' = Left(i)
      BY <1>2 DEF Host, OwnNames, Left
    <3>3. QED
      BY <1>2, <3>1, <3>2 DEF Own, FileOf, RecipeOf
  <2>4. QED
    BY <2>1, <2>2, <2>3 DEF OwnInv
<1>3. CASE Tick
  <2>1. now' = now + 1 /\ now < MaxTime /\ now \in 0 .. MaxTime /\ MaxTime \in Nat
    BY <1>3, SessionsAssumption DEF Tick, OwnInv, SessionsTyped, Seconds
  <2>2. now' \in Seconds
    BY <2>1 DEF Seconds
  <2>3. QED
    BY <1>2, <1>3, <2>2 DEF Tick
<1>4. CASE UNCHANGED sessionVars
  BY <1>2, <1>4 DEF sessionVars, OwnInv, SessionsTyped
<1>5. QED
  BY <1>1, <1>3, <1>4 DEF Next, vars

(* Instances of amba run that meet in one directory never have two guests, *)
(* and who meets nobody gets its own recipe and its own files, but for     *)
(* those the session itself writes.                                        *)
THEOREM SessionsStayApart == Spec => []SessionsApart
<1>1. ImagesInv /\ StepsTyped /\ RemovalInv /\ DownloadInv /\ OwnInv => TypeOK
  <2> SUFFICES ASSUME ImagesInv, StepsTyped, RemovalInv, DownloadInv, OwnInv
               PROVE  TypeOK
    OBVIOUS
  <2>1. ImagesTypeOK
    BY DEF ImagesInv, ImagesTyped, StepsTyped, RemovalInv, DownloadInv, ImagesTypeOK
  <2>2. \A s \in Seconds :
          dirs[s].exists \in BOOLEAN /\ dirs[s].tools \in BOOLEAN /\ dirs[s].host \in [Names -> Contents]
    BY DEF OwnInv, SessionsTyped, Directory
  <2>3. QED
    BY <2>1, <2>2 DEF OwnInv, SessionsTyped, TypeOK
<1>2. OwnInv => OwnFiles
  <2> SUFFICES ASSUME OwnInv, NEW i \in Instances, doing[i] = "analysing", Alone(i)
               PROVE  /\ got[i]["recipe.json"] = RecipeOf(i)
                      /\ \A k \in DOMAIN recipe[i] :
                           recipe[i][k].name \notin Reserved => got[i][recipe[i][k].name] = FileOf(i)
    BY DEF OwnFiles, Alone
  <2>1. Own(i)
    BY DEF OwnInv
  <2>2. QED
    BY <2>1 DEF Own, OwnNames
<1>3. TypeOK /\ OneGuestPerSession /\ OwnFiles => SessionsApart
  BY DEF SessionsApart
<1>4. QED
  BY <1>1, <1>2, <1>3, OneGuest, InitImagesInv, NextKeeps, InitSteps, NextSteps, InitRemoval,
     NextRemoves, InitDownload, NextDownloads, InitOwn, NextOwn, PTL DEF Spec

-----------------------------------------------------------------------------
(* Which bytes the ranges of a recipe leave symbolic, for any ranges.      *)

Pairs == Word \X Word

PairsOf(ranges) == [k \in DOMAIN ranges |-> Pair(ranges[k])]

\* A pair ends before it starts only where the end wrapped.
Sane(p) == p[1] <= p[2] \/ p[1] = MaxWord

Covers(p, x) == p[1] <= x /\ x < p[2]

Covered(pairs, x) == \E k \in DOMAIN pairs : Covers(pairs[k], x)

Ascends(pairs) == \A j, k \in DOMAIN pairs : j < k => pairs[j][1] <= pairs[k][1]

\* With a gap between any two.
Apart(pairs) ==
  \A j, k \in DOMAIN pairs : j < k /\ pairs[j][1] < MaxWord => pairs[j][2] < pairs[k][1]

\* Of the pairs in one order and in another.
SortsUpTo(f, pairs, n) ==
  /\ f \in [1 .. n -> 1 .. n]
  /\ \A j, k \in 1 .. n : f[j] = f[k] => j = k
  /\ \A k \in 1 .. n : \E j \in 1 .. n : f[j] = k
  /\ \A j, k \in 1 .. n : j < k => ~Before(pairs[f[k]], pairs[f[j]])

(* Before is an order.                                                     *)
LEMMA BeforeOrders ==
  ASSUME NEW p \in Pairs, NEW q \in Pairs, NEW r \in Pairs
  PROVE  /\ Before(p, q) => ~Before(q, p)
         /\ Before(p, q) /\ ~Before(r, q) => ~Before(r, p)
<1>1. /\ p[1] \in Nat /\ p[2] \in Nat /\ q[1] \in Nat /\ q[2] \in Nat
      /\ r[1] \in Nat /\ r[2] \in Nat
  BY RecipesAssumption DEF Pairs, Word
<1> QED
  BY <1>1 DEF Before

(* One more pair is put where the pairs after it are those it is before.   *)
LEMMA SortedOneMore ==
  ASSUME NEW pairs \in Seq(Pairs), NEW n \in Nat, n + 1 <= Len(pairs),
         NEW f, SortsUpTo(f, pairs, n)
  PROVE  \E g : SortsUpTo(g, pairs, n + 1)
<1> DEFINE q == pairs[n + 1]
           At == {k \in 1 .. n + 1 : k = n + 1 \/ Before(q, pairs[f[k]])}
<1>0. /\ Len(pairs) \in Nat
      /\ \A k \in 1 .. n + 1 : pairs[k] \in Pairs
      /\ q \in Pairs
  OBVIOUS
<1>1. \A k \in 1 .. n : f[k] \in 1 .. n /\ pairs[f[k]] \in Pairs
  <2>1. \A k \in 1 .. n : f[k] \in 1 .. n /\ f[k] \in 1 .. n + 1
    BY DEF SortsUpTo
  <2> QED
    BY <1>0, <2>1
<1>2. PICK i \in At : \A k \in At : i <= k
  <2>1. At \subseteq Nat /\ n + 1 \in At
    OBVIOUS
  <2> HIDE DEF At
  <2> QED
    BY <2>1, LeastNumber
<1>3. i \in 1 .. n + 1 /\ (i <= n => Before(q, pairs[f[i]]))
  BY <1>2
<1>4. \A k \in 1 .. n : k < i => ~Before(q, pairs[f[k]])
  BY <1>2
<1> DEFINE g == [k \in 1 .. n + 1 |-> IF k < i THEN f[k] ELSE IF k = i THEN n + 1 ELSE f[k - 1]]
<1>5. /\ \A k \in 1 .. n + 1 : k < i => k \in 1 .. n /\ g[k] = f[k]
      /\ g[i] = n + 1
      /\ \A k \in 1 .. n + 1 : k > i => k - 1 \in 1 .. n /\ k - 1 >= i /\ g[k] = f[k - 1]
  BY <1>3
<1>6. g \in [1 .. n + 1 -> 1 .. n + 1]
  BY <1>1, <1>3, <1>5
<1> HIDE DEF g, q, At
<1>7. \A j, k \in 1 .. n + 1 : g[j] = g[k] => j = k
  <2>1. \A k \in 1 .. n + 1 : k # i => g[k] \in 1 .. n
    BY <1>1, <1>3, <1>5
  <2>2. ASSUME NEW j \in 1 .. n + 1, NEW k \in 1 .. n + 1, j # i, k # i, g[j] = g[k]
        PROVE  j = k
    <3>1. /\ j < i \/ j > i
          /\ k < i \/ k > i
      BY <1>3, <2>2
    <3>2. \A a, b \in 1 .. n : f[a] = f[b] => a = b
      BY DEF SortsUpTo
    <3>3. CASE j < i /\ k < i
      BY <1>5, <2>2, <3>2, <3>3
    <3>4. CASE j > i /\ k > i
      <4>1. j - 1 = k - 1
        BY <1>5, <2>2, <3>2, <3>4
      <4> QED
        BY <4>1
    <3>5. CASE j < i /\ k > i
      <4>1. j = k - 1
        BY <1>5, <2>2, <3>2, <3>5
      <4> QED
        BY <1>3, <3>5, <4>1
    <3>6. CASE j > i /\ k < i
      <4>1. k = j - 1
        BY <1>5, <2>2, <3>2, <3>6
      <4> QED
        BY <1>3, <3>6, <4>1
    <3> QED
      BY <3>1, <3>3, <3>4, <3>5, <3>6
  <2> QED
    BY <1>3, <1>5, <2>1, <2>2
<1>8. ASSUME NEW k \in 1 .. n + 1 PROVE \E j \in 1 .. n + 1 : g[j] = k
  <2>1. CASE k = n + 1
    BY <1>3, <1>5, <2>1
  <2>2. CASE k # n + 1
    <3>1. PICK j \in 1 .. n : f[j] = k
      BY <2>2 DEF SortsUpTo
    <3>2. CASE j < i
      BY <1>5, <3>1, <3>2
    <3>3. CASE ~ (j < i)
      <4>1. j + 1 \in 1 .. n + 1 /\ j + 1 > i /\ (j + 1) - 1 = j
        BY <1>3, <3>3
      <4> QED
        BY <1>5, <3>1, <4>1
    <3> QED
      BY <3>2, <3>3
  <2> QED
    BY <2>1, <2>2
<1>9. ASSUME NEW j \in 1 .. n + 1, NEW k \in 1 .. n + 1, j < k
      PROVE  ~Before(pairs[g[k]], pairs[g[j]])
  <2>1. \A a, b \in 1 .. n : a < b => ~Before(pairs[f[b]], pairs[f[a]])
    BY DEF SortsUpTo
  <2>2. CASE k < i
    <3>1. j < i
      BY <1>3, <1>9, <2>2
    <3> QED
      BY <1>5, <1>9, <2>1, <2>2, <3>1
  <2>3. CASE k = i
    BY <1>4, <1>5, <1>9, <2>3 DEF q
  <2>4. CASE k > i /\ j < i
    <3>1. j < k - 1 /\ k - 1 \in 1 .. n /\ j \in 1 .. n
      BY <1>3, <1>5, <2>4
    <3> QED
      BY <1>5, <2>1, <2>4, <3>1
  <2>5. CASE k > i /\ j = i
    <3>1. k - 1 \in 1 .. n /\ i \in 1 .. n /\ k - 1 >= i /\ g[k] = f[k - 1] /\ pairs[g[j]] = q
      BY <1>3, <1>5, <2>5 DEF q
    <3>2. Before(q, pairs[f[i]]) /\ pairs[f[i]] \in Pairs /\ pairs[f[k - 1]] \in Pairs
      BY <1>1, <1>3, <3>1
    <3>3. CASE k - 1 = i
      BY <1>0, <3>1, <3>2, <3>3, BeforeOrders
    <3>4. CASE k - 1 # i
      <4>1. ~Before(pairs[f[k - 1]], pairs[f[i]])
        BY <1>3, <2>1, <3>1, <3>4
      <4> QED
        BY <1>0, <3>1, <3>2, <4>1, BeforeOrders
    <3> QED
      BY <3>3, <3>4
  <2>6. CASE k > i /\ j > i
    <3>1. j - 1 < k - 1 /\ j - 1 \in 1 .. n /\ k - 1 \in 1 .. n /\ g[j] = f[j - 1] /\ g[k] = f[k - 1]
      BY <1>5, <1>9, <2>6
    <3> QED
      BY <2>1, <3>1
  <2> QED
    BY <1>3, <1>9, <2>2, <2>3, <2>4, <2>5, <2>6
<1> QED
  BY <1>6, <1>7, <1>8, <1>9 DEF SortsUpTo

(* So there is an order.                                                   *)
LEMMA SortExists ==
  ASSUME NEW pairs \in Seq(Pairs)
  PROVE  \E f : SortsUpTo(f, pairs, Len(pairs))
<1> DEFINE T == {n \in Nat : n <= Len(pairs) => \E f : SortsUpTo(f, pairs, n)}
<1>1. 0 \in T
  <2>1. SortsUpTo([k \in 1 .. 0 |-> k], pairs, 0)
    BY DEF SortsUpTo
  <2> QED
    BY <2>1
<1>2. ASSUME NEW n \in Nat, n \in T PROVE n + 1 \in T
  <2> SUFFICES ASSUME n + 1 <= Len(pairs) PROVE \E g : SortsUpTo(g, pairs, n + 1)
    OBVIOUS
  <2>1. PICK f : SortsUpTo(f, pairs, n)
    BY <1>2
  <2> QED
    BY <2>1, SortedOneMore
<1>3. Len(pairs) \in T
  <2>1. Nat \subseteq T
    <3> HIDE DEF T
    <3> QED BY <1>1, <1>2, Induction
  <2> QED
    BY <2>1
<1> QED
  BY <1>3

(* sort_unstable_by_key: the same pairs, by their starts.                  *)
LEMMA SortedIs ==
  ASSUME NEW pairs \in Seq(Pairs)
  PROVE  /\ Sorted(pairs) \in Seq(Pairs) /\ Len(Sorted(pairs)) = Len(pairs)
         /\ \A k \in DOMAIN pairs : \E j \in DOMAIN pairs : Sorted(pairs)[j] = pairs[k]
         /\ \A k \in DOMAIN pairs : \E j \in DOMAIN pairs : Sorted(pairs)[k] = pairs[j]
         /\ Ascends(Sorted(pairs))
<1> DEFINE D == DOMAIN pairs
           Sorts(f) == \A j, k \in D : j < k => ~Before(pairs[f[k]], pairs[f[j]])
           f == CHOOSE f \in Bijection(D, D) : Sorts(f)
<1>1. D = 1 .. Len(pairs) /\ Len(pairs) \in Nat /\ \A k \in D : pairs[k] \in Pairs
  OBVIOUS
<1>2. f \in Bijection(D, D) /\ Sorts(f)
  <2>1. PICK g : SortsUpTo(g, pairs, Len(pairs))
    BY SortExists
  <2>2. g \in Bijection(D, D)
    <3>1. g \in [D -> D] /\ DOMAIN g = D
      BY <1>1, <2>1 DEF SortsUpTo
    <3>2. IsInjective(g)
      BY <1>1, <2>1, <3>1 DEF SortsUpTo, IsInjective
    <3> QED
      BY <1>1, <2>1, <3>1, <3>2 DEF SortsUpTo, Bijection, Injection, Surjection
  <2>3. Sorts(g)
    BY <1>1, <2>1 DEF SortsUpTo
  <2> HIDE DEF Sorts, D
  <2> QED
    BY <2>2, <2>3
<1>3. f \in [D -> D] /\ \A k \in D : \E j \in D : f[j] = k
  BY <1>2 DEF Bijection, Injection, Surjection
<1>4. Sorted(pairs) = [k \in D |-> pairs[f[k]]]
  BY DEF Sorted
<1> HIDE DEF f
<1>5. Sorted(pairs) \in Seq(Pairs) /\ DOMAIN Sorted(pairs) = D /\ Len(Sorted(pairs)) = Len(pairs)
  BY <1>1, <1>3, <1>4
<1>6. Ascends(Sorted(pairs))
  <2>1. ASSUME NEW p \in Pairs, NEW q \in Pairs, ~Before(q, p) PROVE p[1] <= q[1]
    <3>1. p[1] \in Nat /\ q[1] \in Nat
      BY RecipesAssumption DEF Pairs, Word
    <3> QED
      BY <2>1, <3>1 DEF Before
  <2>2. ASSUME NEW j \in D, NEW k \in D, j < k PROVE Sorted(pairs)[j][1] <= Sorted(pairs)[k][1]
    <3>1. /\ Sorted(pairs)[j] = pairs[f[j]] /\ pairs[f[j]] \in Pairs
          /\ Sorted(pairs)[k] = pairs[f[k]] /\ pairs[f[k]] \in Pairs
      BY <1>1, <1>3, <1>4
    <3>2. ~Before(pairs[f[k]], pairs[f[j]])
      BY <1>2, <2>2
    <3> QED
      BY <2>1, <3>1, <3>2
  <2> HIDE DEF D
  <2> QED
    BY <1>5, <2>2 DEF Ascends
<1> QED
  BY <1>1, <1>3, <1>4, <1>5, <1>6

\* What merging keeps, of the pairs merged so far and the next one.
Merges(m) == Apart(m) /\ \A k \in DOMAIN m : Sane(m[k])
StartsBy(m, n) == \A k \in DOMAIN m : m[k][1] <= n

LEMMA PairIs ==
  ASSUME NEW p \in Pairs
  PROVE  p = <<p[1], p[2]>> /\ p[1] \in Nat /\ p[2] \in Nat /\ p[1] <= MaxWord /\ p[2] <= MaxWord
  BY RecipesAssumption DEF Pairs, Word

LEMMA HullIs ==
  ASSUME NEW p \in Pairs, NEW q \in Pairs
  PROVE  /\ Hull(p, q) \in Pairs
         /\ p[1] <= q[1] => Hull(p, q)[1] = p[1]
         /\ Hull(p, q)[2] = IF p[2] > q[2] THEN p[2] ELSE q[2]
<1>1. p[1] \in Word /\ p[2] \in Word /\ q[1] \in Word /\ q[2] \in Word
  BY DEF Pairs
<1>2. p[1] \in Nat /\ q[1] \in Nat
  BY PairIs
<1> QED
  BY <1>1, <1>2 DEF Hull, Pairs

\* Where a pair is put: over the last one, or behind it.
Overlaps(m, q) == m # <<>> /\ q[1] <= m[Len(m)][2]

LEMMA MergedTwoWays ==
  ASSUME NEW m \in Seq(Pairs), NEW q \in Pairs
  PROVE  /\ Merged(m, q) \in Seq(Pairs)
         /\ Overlaps(m, q) => /\ Len(Merged(m, q)) = Len(m)
                              /\ \A k \in 1 .. Len(m) - 1 : Merged(m, q)[k] = m[k]
                              /\ Merged(m, q)[Len(m)] = Hull(m[Len(m)], q)
         /\ ~Overlaps(m, q) => /\ Len(Merged(m, q)) = Len(m) + 1
                               /\ \A k \in 1 .. Len(m) : Merged(m, q)[k] = m[k]
                               /\ Merged(m, q)[Len(m) + 1] = q
<1>1. CASE Overlaps(m, q)
  <2>1. m # <<>> /\ Len(m) \in Nat \ {0} /\ m[Len(m)] \in Pairs
    BY <1>1 DEF Overlaps
  <2>2. /\ Front(m) \in Seq(Pairs) /\ Len(Front(m)) = Len(m) - 1
        /\ \A k \in 1 .. Len(m) - 1 : Front(m)[k] = m[k]
    <3>1. Front(m) = [k \in 1 .. Len(m) - 1 |-> m[k]]
      BY DEF Front
    <3>2. Len(m) - 1 \in Nat /\ \A k \in 1 .. Len(m) - 1 : m[k] \in Pairs
      BY <2>1
    <3> QED
      BY <3>1, <3>2
  <2>3. Last(m) = m[Len(m)]
    BY DEF Last
  <2>4. Merged(m, q) = Append(Front(m), Hull(m[Len(m)], q))
    BY <1>1, <2>3 DEF Overlaps, Merged
  <2>5. Hull(m[Len(m)], q) \in Pairs
    BY <2>1, HullIs
  <2> QED
    BY <1>1, <2>1, <2>2, <2>4, <2>5
<1>2. CASE ~Overlaps(m, q)
  <2>1. Last(m) = m[Len(m)]
    BY DEF Last
  <2>2. Merged(m, q) = Append(m, q)
    BY <1>2, <2>1 DEF Overlaps, Merged
  <2> QED
    BY <1>2, <2>2
<1> QED
  BY <1>1, <1>2

(* A turn of the loop covers what the next pair does, and leaves gaps.     *)
LEMMA MergeOne ==
  ASSUME NEW m \in Seq(Pairs), NEW q \in Pairs, Sane(q), Merges(m), StartsBy(m, q[1])
  PROVE  /\ Merges(Merged(m, q)) /\ StartsBy(Merged(m, q), q[1])
         /\ \A x \in Nat : x < MaxWord =>
              (Covered(Merged(m, q), x) <=> Covered(m, x) \/ Covers(q, x))
<1> DEFINE n == Len(m)
           M == Merged(m, q)
<1>1. n \in Nat /\ DOMAIN m = 1 .. n /\ \A k \in 1 .. n : m[k] \in Pairs
  OBVIOUS
<1>2. /\ q[1] \in Nat /\ q[2] \in Nat /\ q[1] <= MaxWord /\ MaxWord \in Nat
      /\ \A k \in 1 .. n : m[k][1] \in Nat /\ m[k][2] \in Nat /\ m[k][1] <= q[1] /\ Sane(m[k])
  BY <1>1, PairIs, RecipesAssumption DEF StartsBy, Merges
<1>3. M \in Seq(Pairs)
  BY MergedTwoWays
<1>4. CASE Overlaps(m, q)
  <2> DEFINE l == m[n]
             h == Hull(l, q)
  <2>1. /\ n \in 1 .. n /\ l \in Pairs /\ q[1] <= l[2] /\ n # 0
        /\ l[1] \in Nat /\ l[2] \in Nat /\ l[1] <= q[1] /\ Sane(l)
    <3>1. n # 0 /\ q[1] <= l[2]
      BY <1>4 DEF Overlaps
    <3> QED
      BY <1>1, <1>2, <3>1
  <2>2. DOMAIN M = 1 .. n /\ M[n] = h /\ \A k \in 1 .. n : k # n => k \in 1 .. n - 1 /\ M[k] = m[k]
    <3>1. \A k \in 1 .. n : k # n => k \in 1 .. n - 1
      <4> HIDE DEF n
      <4> QED
        BY <1>1
    <3> QED
      BY <1>3, <1>4, <3>1, MergedTwoWays
  <2>3. h \in Pairs /\ h[1] = l[1] /\ h[2] = IF l[2] > q[2] THEN l[2] ELSE q[2]
    BY <2>1, HullIs
  <2> HIDE DEF M, h
  <2>4. Sane(h)
    BY <1>2, <2>1, <2>3 DEF Sane
  <2>5. \A j, k \in 1 .. n : j < k => j # n
    <3> HIDE DEF n
    <3> QED
      BY <1>1
  <2>6. Apart(M)
    <3>1. \A k \in 1 .. n : M[k][1] = m[k][1]
      BY <2>2, <2>3
    <3>2. \A j, k \in 1 .. n : j < k /\ m[j][1] < MaxWord => m[j][2] < m[k][1]
      BY <1>1 DEF Merges, Apart
    <3> HIDE DEF n, l
    <3> QED
      BY <2>2, <2>5, <3>1, <3>2 DEF Apart
  <2>7. Merges(M) /\ StartsBy(M, q[1])
    BY <1>2, <2>1, <2>2, <2>3, <2>4, <2>6 DEF Merges, StartsBy
  <2>8. ASSUME NEW x \in Nat, x < MaxWord PROVE Covered(M, x) <=> Covered(m, x) \/ Covers(q, x)
    <3>1. Covers(h, x) <=> Covers(l, x) \/ Covers(q, x)
      BY <1>2, <2>1, <2>3, <2>8 DEF Covers, Sane
    <3>2. \A k \in 1 .. n : k # n => (Covers(M[k], x) <=> Covers(m[k], x))
      BY <2>2
    <3>3. Covered(M, x) <=> \E k \in 1 .. n : Covers(M[k], x)
      BY <2>2 DEF Covered
    <3>4. Covered(m, x) <=> \E k \in 1 .. n : Covers(m[k], x)
      BY <1>1 DEF Covered
    <3> QED
      BY <2>1, <2>2, <3>1, <3>2, <3>3, <3>4
  <2> QED
    BY <2>7, <2>8 DEF M
<1>5. CASE ~Overlaps(m, q)
  <2>1. /\ DOMAIN M = 1 .. n + 1 /\ M[n + 1] = q /\ \A k \in 1 .. n : M[k] = m[k]
        /\ \A k \in 1 .. n + 1 : k \in 1 .. n \/ k = n + 1
    <3>1. DOMAIN M = 1 .. n + 1 /\ M[n + 1] = q /\ \A k \in 1 .. n : M[k] = m[k]
      BY <1>3, <1>5, MergedTwoWays
    <3> HIDE DEF n, M
    <3> QED
      BY <1>1, <3>1
  <2> HIDE DEF M
  <2>2. ASSUME NEW j \in 1 .. n, m[j][1] < MaxWord PROVE m[j][2] < q[1]
    <3>1. n \in 1 .. n /\ m # <<>> /\ ~ (q[1] <= m[n][2])
      BY <1>1, <1>5, <2>2 DEF Overlaps
    <3>2. j < n => m[j][2] < m[n][1]
      BY <1>1, <2>2, <3>1 DEF Merges, Apart
    <3>3. m[n][1] <= q[1] /\ m[n][1] \in Nat /\ m[n][2] \in Nat /\ m[j][2] \in Nat
      BY <1>2, <3>1
    <3> HIDE DEF n
    <3>4. j < n \/ j = n
      BY <1>1
    <3> QED
      BY <1>2, <3>1, <3>2, <3>3, <3>4
  <2>3. Apart(M)
    <3>1. ASSUME NEW j \in 1 .. n + 1, NEW k \in 1 .. n + 1, j < k, M[j][1] < MaxWord
          PROVE  M[j][2] < M[k][1]
      <4>1. j \in 1 .. n /\ M[j] = m[j]
        BY <1>1, <2>1, <3>1
      <4>2. CASE k = n + 1
        BY <2>1, <2>2, <3>1, <4>1, <4>2
      <4>3. CASE k \in 1 .. n
        BY <1>1, <2>1, <3>1, <4>1, <4>3 DEF Merges, Apart
      <4> QED
        BY <2>1, <4>2, <4>3
    <3> HIDE DEF n
    <3> QED
      BY <2>1, <3>1 DEF Apart
  <2>4. \A k \in 1 .. n + 1 : Sane(M[k]) /\ M[k][1] <= q[1]
    BY <1>2, <2>1
  <2>5. Merges(M) /\ StartsBy(M, q[1])
    BY <2>1, <2>3, <2>4 DEF Merges, StartsBy
  <2>6. ASSUME NEW x \in Nat, x < MaxWord PROVE Covered(M, x) <=> Covered(m, x) \/ Covers(q, x)
    <3>1. Covered(M, x) <=> \E k \in 1 .. n + 1 : Covers(M[k], x)
      BY <2>1 DEF Covered
    <3>2. Covered(m, x) <=> \E k \in 1 .. n : Covers(m[k], x)
      BY <1>1 DEF Covered
    <3>3. n + 1 \in 1 .. n + 1 /\ \A k \in 1 .. n : k \in 1 .. n + 1
      BY <1>1
    <3> QED
      BY <2>1, <3>1, <3>2, <3>3
  <2> QED
    BY <2>5, <2>6 DEF M
<1> QED
  BY <1>4, <1>5

(* The loop of normalize, over pairs in order.                             *)
LEMMA MergedAllIs ==
  ASSUME NEW pairs \in Seq(Pairs), Ascends(pairs), \A k \in DOMAIN pairs : Sane(pairs[k])
  PROVE  /\ MergedAll(pairs) \in Seq(Pairs) /\ Merges(MergedAll(pairs))
         /\ \A x \in Nat : x < MaxWord => (Covered(MergedAll(pairs), x) <=> Covered(pairs, x))
<1> DEFINE N == Len(pairs)
           D == 0 .. N
           S == Seq(Pairs)
           Turn(f, n) == IF n = 0 THEN <<>> ELSE Merged(f[n - 1], pairs[n])
           F == CHOOSE f : f = [n \in D |-> Turn(f, n)]
           turns == [n \in 1 .. N |-> [m \in S |-> Merged(m, pairs[n])]]
<1>0. N \in Nat /\ DOMAIN pairs = 1 .. N /\ \A n \in 1 .. N : pairs[n] \in Pairs
  OBVIOUS
<1>1. MergedAll(pairs) = F[N]
  BY DEF MergedAll
<1>2. turns \in [1 .. N -> [S -> S]]
  BY <1>0, MergedTwoWays
<1>3. PICK f \in [D -> S] : \A n \in D : f[n] = IF n = 0 THEN <<>> ELSE turns[n][f[n - 1]]
  <2>1. N \in Nat /\ <<>> \in S
    OBVIOUS
  <2> HIDE DEF turns, N, S
  <2>2. CanStep(S, <<>>, N, turns)
    BY <1>2, <2>1, StepsExist
  <2> QED
    BY <2>2 DEF CanStep
<1>4. \A n \in D : n # 0 => n \in 1 .. N /\ n - 1 \in D
  BY <1>0
<1>5. \A n \in D : f[n] = Turn(f, n)
  <2>1. ASSUME NEW n \in D, n # 0 PROVE f[n] = Merged(f[n - 1], pairs[n])
    <3>1. f[n - 1] \in S /\ n \in 1 .. N
      BY <1>4, <2>1
    <3> HIDE DEF N, S
    <3>2. turns[n][f[n - 1]] = Merged(f[n - 1], pairs[n])
      BY <3>1
    <3> QED
      BY <1>3, <2>1, <3>2
  <2> QED
    BY <1>3, <2>1
<1>6. F = [n \in D |-> Turn(F, n)]
  <2>1. f = [n \in D |-> Turn(f, n)]
    BY <1>5
  <2> QED
    BY <2>1, Zenon
<1> HIDE DEF F, N, S
<1>7. \A n \in D : F[n] = Turn(F, n)
  BY <1>6
<1> DEFINE Same(n) == \A x \in Nat : x < MaxWord =>
                        (Covered(F[n], x) <=> \E j \in 1 .. n : Covers(pairs[j], x))
           MergedUpTo(n) == /\ F[n] \in S /\ Merges(F[n])
                            /\ \A k \in n + 1 .. N : StartsBy(F[n], pairs[k][1])
                            /\ Same(n)
           T == {n \in Nat : n \in D => MergedUpTo(n)}
<1>8. 0 \in T
  <2>1. F[0] = <<>>
    BY <1>0, <1>7
  <2>2. <<>> \in S /\ DOMAIN <<>> = {}
    BY DEF S
  <2>3. Merges(<<>>) /\ \A k \in 1 .. N : StartsBy(<<>>, pairs[k][1])
    BY <2>2, Zenon DEF Merges, Apart, StartsBy
  <2>4. \A x \in Nat : ~Covered(<<>>, x) /\ ~ (\E j \in 1 .. 0 : Covers(pairs[j], x))
    BY <2>2 DEF Covered
  <2> QED
    BY <2>1, <2>2, <2>3, <2>4
<1>9. ASSUME NEW n \in Nat, n \in T PROVE n + 1 \in T
  <2> SUFFICES ASSUME n + 1 \in D PROVE MergedUpTo(n + 1)
    OBVIOUS
  <2> DEFINE q == pairs[n + 1]
  <2>1. n \in D /\ n + 1 \in 1 .. N /\ MergedUpTo(n) /\ n + 1 \in n + 1 .. N
    BY <1>0, <1>9
  <2>2. F[n + 1] = Merged(F[n], q)
    <3>1. F[n + 1] = Turn(F, n + 1) /\ n + 1 # 0 /\ (n + 1) - 1 = n
      BY <1>7
    <3> QED
      BY <3>1
  <2>3. q \in Pairs /\ Sane(q) /\ F[n] \in Seq(Pairs) /\ StartsBy(F[n], q[1]) /\ Merges(F[n])
    BY <1>0, <2>1 DEF S
  <2>4. /\ Merges(F[n + 1]) /\ StartsBy(F[n + 1], q[1])
        /\ \A x \in Nat : x < MaxWord => (Covered(F[n + 1], x) <=> Covered(F[n], x) \/ Covers(q, x))
    BY <2>2, <2>3, MergeOne
  <2>5. F[n + 1] \in Seq(Pairs)
    BY <2>2, <2>3, MergedTwoWays
  <2>6. ASSUME NEW k \in n + 2 .. N PROVE StartsBy(F[n + 1], pairs[k][1])
    <3>1. k \in 1 .. N /\ n + 1 < k /\ n + 1 \in 1 .. N
      BY <2>1
    <3>2. q[1] <= pairs[k][1] /\ pairs[k] \in Pairs
      BY <1>0, <3>1 DEF Ascends
    <3>3. \A i \in DOMAIN F[n + 1] : F[n + 1][i] \in Pairs
      BY <2>5
    <3>4. q[1] \in Nat /\ pairs[k][1] \in Nat /\ \A i \in DOMAIN F[n + 1] : F[n + 1][i][1] \in Nat
      BY <2>3, <3>2, <3>3, PairIs
    <3> HIDE DEF q
    <3> QED
      BY <2>4, <3>2, <3>4 DEF StartsBy
  <2>7. Same(n + 1)
    <3>1. \A j \in 1 .. n + 1 : j \in 1 .. n \/ j = n + 1
      OBVIOUS
    <3>2. n + 1 \in 1 .. n + 1 /\ \A j \in 1 .. n : j \in 1 .. n + 1
      OBVIOUS
    <3> QED
      BY <2>1, <2>4, <3>1, <3>2
  <2>8. (n + 1) + 1 = n + 2
    OBVIOUS
  <2> QED
    BY <2>4, <2>5, <2>6, <2>7, <2>8 DEF S
<1>10. N \in T
  <2>1. Nat \subseteq T
    <3> HIDE DEF T
    <3> QED BY <1>8, <1>9, Induction
  <2> QED
    BY <1>0, <2>1
<1>11. MergedUpTo(N)
  BY <1>0, <1>10
<1>12. \A x : Covered(pairs, x) <=> \E j \in 1 .. N : Covers(pairs[j], x)
  BY <1>0 DEF Covered
<1> QED
  BY <1>1, <1>11, <1>12 DEF S

\* Ranges with both ends, which is what is left of any.
FullRanges == {FullRange(a, b) : a, b \in Word}

LEMMA FullRangeIs ==
  ASSUME NEW r \in FullRanges
  PROVE  /\ r = FullRange(r.a, r.b) /\ r.a \in Word /\ r.b \in Word
         /\ Pair(r) = <<r.a, r.b>> /\ r \in SymbolicRange
  BY DEF FullRanges, FullRange, Pair, SymbolicRange

LEMMA RangeIs ==
  ASSUME NEW r \in SymbolicRange
  PROVE  /\ r.a \in Word /\ r.kind \in {"Index", "Begin", "Range"}
         /\ r.kind = "Range" => r.b \in Word
  BY DEF SymbolicRange, IndexRange, BeginRange, FullRange

LEMMA WrappedIs ==
  ASSUME NEW n \in Nat
  PROVE  /\ n <= MaxWord => Wrapped(n) = n
         /\ n = MaxWord + 1 => Wrapped(n) = 0
  BY RecipesAssumption DEF Wrapped

LEMMA PairsIn ==
  ASSUME NEW r \in SymbolicRange
  PROVE  /\ Pair(r) \in Pairs
         /\ ~Reversed(r) => Sane(Pair(r))
<1>1. r.a \in Nat /\ r.a <= MaxWord /\ MaxWord \in Nat
  BY RangeIs, RecipesAssumption DEF Word
<1>2. CASE r.kind = "Index"
  <2>1. Pair(r) = <<r.a, Wrapped(r.a + 1)>>
    BY <1>2 DEF Pair
  <2>2. CASE r.a < MaxWord
    <3>1. Wrapped(r.a + 1) = r.a + 1
      BY <1>1, <2>2, WrappedIs
    <3> QED
      BY <1>1, <2>1, <2>2, <3>1 DEF Pairs, Word, Sane
  <2>3. CASE r.a = MaxWord
    <3>1. Wrapped(r.a + 1) = 0
      BY <1>1, <2>3, WrappedIs
    <3> QED
      BY <1>1, <2>1, <2>3, <3>1 DEF Pairs, Word, Sane
  <2> QED
    BY <1>1, <2>2, <2>3
<1>3. CASE r.kind = "Begin"
  <2>1. Pair(r) = <<r.a, MaxWord>>
    BY <1>3 DEF Pair
  <2> QED
    BY <1>1, <2>1 DEF Pairs, Word, Sane
<1>4. CASE r.kind = "Range"
  <2>1. Pair(r) = <<r.a, r.b>> /\ r.b \in Word
    BY <1>4, RangeIs DEF Pair
  <2> QED
    BY <1>1, <1>4, <2>1 DEF Pairs, Word, Sane, Reversed
<1> QED
  BY <1>2, <1>3, <1>4, RangeIs

(* normalize leaves ranges with gaps between them that cover the same.     *)
LEMMA NormalizeIs ==
  ASSUME NEW ranges \in Seq(SymbolicRange), \A k \in DOMAIN ranges : Sane(Pair(ranges[k]))
  PROVE  /\ Normalize(ranges) \in Seq(FullRanges)
         /\ Merges(PairsOf(Normalize(ranges)))
         /\ \A x \in Nat : x < MaxWord =>
              (Covered(PairsOf(Normalize(ranges)), x) <=> Covered(PairsOf(ranges), x))
<1> DEFINE pairs == PairsOf(ranges)
           sorted == Sorted(pairs)
           ret == MergedAll(sorted)
<1>1. /\ pairs \in Seq(Pairs) /\ DOMAIN pairs = DOMAIN ranges /\ Len(pairs) = Len(ranges)
      /\ \A k \in DOMAIN ranges : pairs[k] = Pair(ranges[k])
  <2>1. \A k \in DOMAIN ranges : Pair(ranges[k]) \in Pairs
    BY PairsIn
  <2>2. DOMAIN ranges = 1 .. Len(ranges) /\ Len(ranges) \in Nat
    OBVIOUS
  <2> QED
    BY <2>1, <2>2 DEF PairsOf
<1>2. /\ sorted \in Seq(Pairs) /\ DOMAIN sorted = DOMAIN pairs /\ Ascends(sorted)
      /\ \A k \in DOMAIN pairs : \E j \in DOMAIN pairs : sorted[j] = pairs[k]
      /\ \A k \in DOMAIN pairs : \E j \in DOMAIN pairs : sorted[k] = pairs[j]
  <2>1. Len(sorted) = Len(pairs) /\ sorted \in Seq(Pairs)
    BY <1>1, SortedIs
  <2>2. DOMAIN sorted = 1 .. Len(sorted) /\ DOMAIN pairs = 1 .. Len(pairs)
    BY <1>1, <2>1
  <2> QED
    BY <1>1, <2>1, <2>2, SortedIs
<1> HIDE DEF pairs
<1>3. \A k \in DOMAIN sorted : Sane(sorted[k])
  BY <1>1, <1>2
<1>4. \A x : Covered(sorted, x) <=> Covered(pairs, x)
  BY <1>2 DEF Covered
<1> HIDE DEF sorted
<1>5. /\ ret \in Seq(Pairs) /\ Merges(ret)
      /\ \A x \in Nat : x < MaxWord => (Covered(ret, x) <=> Covered(sorted, x))
  BY <1>2, <1>3, MergedAllIs
<1>6. Normalize(ranges) = [k \in DOMAIN ret |-> FullRange(ret[k][1], ret[k][2])]
  BY DEF Normalize, PairsOf, pairs, sorted
<1> HIDE DEF ret
<1>7. DOMAIN ret = 1 .. Len(ret) /\ Len(ret) \in Nat /\ \A k \in DOMAIN ret : ret[k] \in Pairs
  BY <1>5
<1>8. ASSUME NEW k \in DOMAIN ret
      PROVE  /\ FullRange(ret[k][1], ret[k][2]) \in FullRanges
             /\ Pair(FullRange(ret[k][1], ret[k][2])) = ret[k]
  <2>1. ret[k] = <<ret[k][1], ret[k][2]>> /\ ret[k][1] \in Word /\ ret[k][2] \in Word
    BY <1>7 DEF Pairs
  <2> QED
    BY <2>1 DEF FullRanges, FullRange, Pair
<1>9. Normalize(ranges) \in Seq(FullRanges)
  BY <1>6, <1>7, <1>8
<1>10. PairsOf(Normalize(ranges)) = ret
  <2>1. PairsOf(Normalize(ranges)) = [k \in DOMAIN ret |-> ret[k]]
    BY <1>6, <1>8 DEF PairsOf
  <2> QED
    BY <1>5, <1>7, <2>1
<1> QED
  BY <1>4, <1>5, <1>9, <1>10 DEF pairs

\* The ranges that start in the file, in their order.
Keeps(kept, ranges, n, total) ==
  /\ \A k \in DOMAIN kept : \E j \in 1 .. n : kept[k] = ranges[j] /\ ranges[j].a < total
  /\ \A j \in 1 .. n : ranges[j].a < total => \E k \in DOMAIN kept : kept[k] = ranges[j]
  /\ \A i, k \in DOMAIN kept : i < k => kept[i].b < kept[k].a

LEMMA KeepsOneMore ==
  ASSUME NEW ranges \in Seq(FullRanges), Apart(PairsOf(ranges)), NEW total \in Word,
         NEW n \in Nat, n + 1 \in 1 .. Len(ranges), NEW kept \in Seq(FullRanges),
         Keeps(kept, ranges, n, total), ranges[n + 1].a < total
  PROVE  Keeps(Append(kept, ranges[n + 1]), ranges, n + 1, total)
<1> DEFINE r == ranges[n + 1]
           more == Append(kept, r)
           m == Len(kept)
<1>1. /\ m \in Nat /\ DOMAIN kept = 1 .. m /\ r \in FullRanges
      /\ DOMAIN more = 1 .. m + 1 /\ more[m + 1] = r
      /\ \A k \in 1 .. m : more[k] = kept[k]
  OBVIOUS
<1>2. \A k \in 1 .. m : kept[k].b < r.a
  <2>1. ASSUME NEW k \in 1 .. m PROVE kept[k].b < r.a
    <3>1. PICK j \in 1 .. n : kept[k] = ranges[j] /\ ranges[j].a < total
      BY <1>1 DEF Keeps
    <3>2. j \in DOMAIN ranges /\ n + 1 \in DOMAIN ranges /\ j < n + 1
      OBVIOUS
    <3>3. PairsOf(ranges)[j] = Pair(ranges[j]) /\ PairsOf(ranges)[n + 1] = Pair(r)
          /\ DOMAIN PairsOf(ranges) = DOMAIN ranges
      BY <3>2 DEF PairsOf
    <3>4. ranges[j] \in FullRanges
      BY <3>2
    <3>5. Pair(ranges[j]) = <<ranges[j].a, ranges[j].b>> /\ Pair(r) = <<r.a, r.b>>
      BY <1>1, <3>4, FullRangeIs
    <3>6. ranges[j].a < MaxWord
      <4>1. ranges[j].a \in Word /\ MaxWord \in Nat
        BY <3>4, FullRangeIs, RecipesAssumption
      <4> QED
        BY <3>1, <4>1 DEF Word
    <3> HIDE DEF r
    <3>7. ranges[j].b < r.a
      BY <3>2, <3>3, <3>5, <3>6 DEF Apart
    <3> QED
      BY <3>1, <3>7
  <2> QED
    BY <2>1
<1> HIDE DEF r, more, m
<1>3. \A k \in 1 .. m + 1 : k \in 1 .. m \/ k = m + 1
  BY <1>1
<1>4. m + 1 \in 1 .. m + 1 /\ \A k \in 1 .. m : k \in 1 .. m + 1
  BY <1>1
<1>5. \A j \in 1 .. n + 1 : j \in 1 .. n \/ j = n + 1
  OBVIOUS
<1>6. n + 1 \in 1 .. n + 1 /\ \A j \in 1 .. n : j \in 1 .. n + 1
  OBVIOUS
<1>7. \A k \in 1 .. m + 1 : \E j \in 1 .. n + 1 : more[k] = ranges[j] /\ ranges[j].a < total
  <2>1. \A k \in 1 .. m : \E j \in 1 .. n : kept[k] = ranges[j] /\ ranges[j].a < total
    BY <1>1 DEF Keeps
  <2>2. more[m + 1] = ranges[n + 1]
    BY <1>1 DEF r
  <2> SUFFICES ASSUME NEW k \in 1 .. m + 1
               PROVE  \E j \in 1 .. n + 1 : more[k] = ranges[j] /\ ranges[j].a < total
    OBVIOUS
  <2>3. CASE k \in 1 .. m
    <3>1. PICK j \in 1 .. n : kept[k] = ranges[j] /\ ranges[j].a < total
      BY <2>1, <2>3
    <3> QED
      BY <1>1, <1>6, <2>3, <3>1
  <2>4. CASE k = m + 1
    BY <1>6, <2>2, <2>4
  <2> QED
    BY <1>3, <2>3, <2>4
<1>8. \A j \in 1 .. n + 1 : ranges[j].a < total => \E k \in 1 .. m + 1 : more[k] = ranges[j]
  BY <1>1, <1>4, <1>5 DEF Keeps, r
<1>9. ASSUME NEW i \in 1 .. m + 1, NEW k \in 1 .. m + 1, i < k PROVE more[i].b < more[k].a
  <2>1. i \in 1 .. m
    BY <1>1, <1>9
  <2>2. CASE k = m + 1
    BY <1>1, <1>2, <2>1, <2>2
  <2>3. CASE k \in 1 .. m
    BY <1>1, <1>9, <2>1, <2>3 DEF Keeps
  <2> QED
    BY <1>3, <2>2, <2>3
<1> QED
  BY <1>1, <1>7, <1>8, <1>9 DEF Keeps, r, more

LEMMA InFileIs ==
  ASSUME NEW ranges \in Seq(FullRanges), Apart(PairsOf(ranges)), NEW total \in Word
  PROVE  /\ InFile(ranges, total) \in Seq(FullRanges)
         /\ Keeps(InFile(ranges, total), ranges, Len(ranges), total)
<1> DEFINE N == Len(ranges)
           D == 0 .. N
           S == Seq(FullRanges)
           KeptOf(m, r) == IF RangeStart(r) < total THEN Append(m, r) ELSE m
           Turn(f, n) == IF n = 0 THEN <<>>
                         ELSE IF RangeStart(ranges[n]) < total THEN Append(f[n - 1], ranges[n])
                         ELSE f[n - 1]
           F == CHOOSE f : f = [n \in D |-> Turn(f, n)]
           turns == [n \in 1 .. N |-> [m \in S |-> KeptOf(m, ranges[n])]]
<1>0. N \in Nat /\ \A n \in 1 .. N : ranges[n] \in FullRanges
  OBVIOUS
<1>1. InFile(ranges, total) = F[N]
  BY DEF InFile
<1>2. turns \in [1 .. N -> [S -> S]]
  BY <1>0
<1>3. PICK f \in [D -> S] : \A n \in D : f[n] = IF n = 0 THEN <<>> ELSE turns[n][f[n - 1]]
  <2>1. N \in Nat /\ <<>> \in S
    OBVIOUS
  <2> HIDE DEF turns, N, S
  <2>2. CanStep(S, <<>>, N, turns)
    BY <1>2, <2>1, StepsExist
  <2> QED
    BY <2>2 DEF CanStep
<1>4. \A n \in D : n # 0 => n \in 1 .. N /\ n - 1 \in D
  BY <1>0
<1>5. \A n \in D : f[n] = Turn(f, n)
  <2>1. ASSUME NEW n \in D, n # 0 PROVE f[n] = KeptOf(f[n - 1], ranges[n])
    <3>1. f[n - 1] \in S /\ n \in 1 .. N
      BY <1>4, <2>1
    <3> HIDE DEF N, S, KeptOf
    <3>2. turns[n][f[n - 1]] = KeptOf(f[n - 1], ranges[n])
      BY <3>1
    <3> QED
      BY <1>3, <2>1, <3>2
  <2> QED
    BY <1>3, <2>1
<1>6. F = [n \in D |-> Turn(F, n)]
  <2>1. f = [n \in D |-> Turn(f, n)]
    BY <1>5
  <2> QED
    BY <2>1, Zenon
<1> HIDE DEF F, N, S
<1>7. \A n \in D : F[n] = Turn(F, n)
  BY <1>6
<1> DEFINE KeptUpTo(n) == F[n] \in S /\ Keeps(F[n], ranges, n, total)
           T == {n \in Nat : n \in D => KeptUpTo(n)}
<1>8. 0 \in T
  <2>1. F[0] = <<>>
    BY <1>0, <1>7
  <2>2. <<>> \in S /\ DOMAIN <<>> = {} /\ 1 .. 0 = {}
    BY DEF S
  <2>3. Keeps(<<>>, ranges, 0, total)
    BY <2>2, Zenon DEF Keeps
  <2> QED
    BY <2>1, <2>2, <2>3
<1>9. ASSUME NEW n \in Nat, n \in T PROVE n + 1 \in T
  <2> SUFFICES ASSUME n + 1 \in D PROVE KeptUpTo(n + 1)
    OBVIOUS
  <2> DEFINE r == ranges[n + 1]
  <2>1. n \in D /\ n + 1 \in 1 .. N /\ KeptUpTo(n)
    BY <1>0, <1>9
  <2>2. F[n + 1] = IF RangeStart(r) < total THEN Append(F[n], r) ELSE F[n]
    <3>1. F[n + 1] = Turn(F, n + 1) /\ n + 1 # 0 /\ (n + 1) - 1 = n
      BY <1>7
    <3> QED
      BY <3>1
  <2>3. r \in FullRanges /\ F[n] \in Seq(FullRanges)
    BY <1>0, <2>1 DEF S
  <2>4. RangeStart(r) = r.a
    BY <2>3, FullRangeIs DEF RangeStart
  <2>5. CASE r.a < total
    <3>1. F[n + 1] = Append(F[n], r)
      BY <2>2, <2>4, <2>5
    <3>2. Keeps(Append(F[n], r), ranges, n + 1, total)
      BY <2>1, <2>3, <2>5, KeepsOneMore DEF N
    <3> QED
      BY <2>3, <3>1, <3>2 DEF S
  <2>6. CASE ~ (r.a < total)
    <3>1. F[n + 1] = F[n]
      BY <2>2, <2>4, <2>6
    <3>2. (\A j \in 1 .. n + 1 : j \in 1 .. n \/ j = n + 1) /\ \A j \in 1 .. n : j \in 1 .. n + 1
      OBVIOUS
    <3>3. Keeps(F[n], ranges, n + 1, total)
      BY <2>1, <2>6, <3>2 DEF Keeps
    <3> QED
      BY <2>1, <3>1, <3>3
  <2> QED
    BY <2>5, <2>6
<1>10. N \in T
  <2>1. Nat \subseteq T
    <3> HIDE DEF T
    <3> QED BY <1>8, <1>9, Induction
  <2> QED
    BY <1>0, <2>1
<1> QED
  BY <1>0, <1>1, <1>10 DEF S, N

\* The bytes of marks.
Marked(marks) == UNION {BytesOf(marks[n]) : n \in DOMAIN marks}

NamedOnce(marks) ==
  \A m, n \in DOMAIN marks : m < n => BytesOf(marks[m]) \cap BytesOf(marks[n]) = {}

(* symbfile hands over the bytes of the file that the ranges cover.        *)
LEMMA SymbfileIs ==
  ASSUME NEW ranges \in Seq(FullRanges), Merges(PairsOf(ranges)), NEW total \in Word
  PROVE  /\ Marked(Symbfile(ranges, total)) = {x \in 0 .. total - 1 : Covered(PairsOf(ranges), x)}
         /\ NamedOnce(Symbfile(ranges, total))
<1> DEFINE in == InFile(ranges, total)
           marks == Symbfile(ranges, total)
<1>1. in \in Seq(FullRanges) /\ Keeps(in, ranges, Len(ranges), total)
  BY InFileIs DEF Merges
<1>2. total \in Nat /\ total <= MaxWord /\ MaxWord \in Nat
  BY RecipesAssumption DEF Word
<1>3. DOMAIN marks = DOMAIN in /\ \A k \in DOMAIN in : marks[k] = <<RangeStart(in[k]), Cut(in[k], total)>>
  BY DEF Symbfile
<1> HIDE DEF in, marks
<1>4. DOMAIN ranges = 1 .. Len(ranges) /\ \A j \in DOMAIN ranges : ranges[j] \in FullRanges
  OBVIOUS
<1>5. DOMAIN PairsOf(ranges) = DOMAIN ranges
      /\ \A j \in DOMAIN ranges : PairsOf(ranges)[j] = <<ranges[j].a, ranges[j].b>>
  BY <1>4, FullRangeIs DEF PairsOf
<1>6. ASSUME NEW k \in DOMAIN in
      PROVE  /\ in[k].a \in Nat /\ in[k].b \in Nat /\ in[k].a < total
             /\ \A x : x \in BytesOf(marks[k]) <=> x \in Nat /\ in[k].a <= x /\ x < in[k].b /\ x < total
  <2>1. in[k] \in FullRanges
    BY <1>1, <1>6
  <2>2. in[k].a \in Nat /\ in[k].b \in Nat /\ in[k].b <= MaxWord /\ in[k].a <= MaxWord
    BY <1>2, <2>1, FullRangeIs DEF Word
  <2>3. PICK j \in DOMAIN ranges : in[k] = ranges[j] /\ ranges[j].a < total
    BY <1>1, <1>4, <1>6 DEF Keeps
  <2>4. in[k].a <= in[k].b
    <3>1. Sane(PairsOf(ranges)[j])
      BY <1>5 DEF Merges
    <3> QED
      BY <1>2, <1>5, <2>2, <2>3, <3>1 DEF Sane
  <2> DEFINE a == in[k].a
             b == in[k].b
  <2>5. RangeStart(in[k]) = a
    BY <2>1, FullRangeIs DEF RangeStart
  <2>6. RangeLen(in[k]) = b - a
    BY <1>2, <2>2, <2>4, WrappedIs DEF RangeLen
  <2>7. marks[k] = <<a, IF b - a < total - a THEN b - a ELSE total - a>>
    BY <1>3, <1>6, <2>5, <2>6 DEF Cut
  <2>8. a < total
    BY <2>3
  <2> HIDE DEF a, b
  <2>9. a \in Nat /\ b \in Nat /\ a <= b
    BY <2>2, <2>4 DEF a, b
  <2>10. BytesOf(marks[k]) = a .. a + (IF b - a < total - a THEN b - a ELSE total - a) - 1
    BY <2>7 DEF BytesOf
  <2>11. \A x : x \in BytesOf(marks[k]) <=> x \in Nat /\ a <= x /\ x < b /\ x < total
    BY <1>2, <2>8, <2>9, <2>10
  <2> QED
    BY <2>8, <2>9, <2>11 DEF a, b
<1>7. ASSUME NEW m \in DOMAIN marks, NEW n \in DOMAIN marks, m < n
      PROVE  BytesOf(marks[m]) \cap BytesOf(marks[n]) = {}
  <2>1. in[m].b < in[n].a
    BY <1>1, <1>3, <1>7 DEF Keeps
  <2>2. in[m].b \in Nat /\ in[n].a \in Nat
    BY <1>3, <1>6, <1>7
  <2>3. \A x \in Nat : ~ (x < in[m].b /\ in[n].a <= x)
    BY <2>1, <2>2
  <2> QED
    BY <1>3, <1>6, <1>7, <2>3
<1>8. ASSUME NEW x
      PROVE  x \in Marked(marks) <=> x \in 0 .. total - 1 /\ Covered(PairsOf(ranges), x)
  <2>1. ASSUME x \in Marked(marks) PROVE x \in 0 .. total - 1 /\ Covered(PairsOf(ranges), x)
    <3>1. PICK k \in DOMAIN marks : x \in BytesOf(marks[k])
      BY <2>1 DEF Marked
    <3>2. x \in Nat /\ in[k].a <= x /\ x < in[k].b /\ x < total
      BY <1>3, <1>6, <3>1
    <3>3. PICK j \in DOMAIN ranges : in[k] = ranges[j]
      BY <1>1, <1>3, <1>4 DEF Keeps
    <3>4. Covers(PairsOf(ranges)[j], x)
      BY <1>5, <3>2, <3>3 DEF Covers
    <3> QED
      BY <1>2, <1>5, <3>2, <3>4 DEF Covered
  <2>2. ASSUME x \in 0 .. total - 1, Covered(PairsOf(ranges), x) PROVE x \in Marked(marks)
    <3>1. PICK j \in DOMAIN ranges : Covers(PairsOf(ranges)[j], x)
      BY <1>5, <2>2 DEF Covered
    <3>2. ranges[j].a <= x /\ x < ranges[j].b /\ x \in Nat /\ x < total
      BY <1>2, <1>5, <2>2, <3>1 DEF Covers
    <3>3. ranges[j].a \in Nat
      BY <1>4, FullRangeIs DEF Word
    <3>4. ranges[j].a < total
      BY <1>2, <3>2, <3>3
    <3>5. PICK k \in DOMAIN in : in[k] = ranges[j]
      BY <1>1, <1>4, <3>4 DEF Keeps
    <3> QED
      BY <1>3, <1>6, <3>2, <3>5 DEF Marked
  <2> QED
    BY <2>1, <2>2
<1>9. Marked(marks) = {x \in 0 .. total - 1 : Covered(PairsOf(ranges), x)}
  BY <1>8
<1> QED
  BY <1>7, <1>9 DEF NamedOnce, marks

(* What a recipe asks for is what its ranges cover, in a file that ends    *)
(* before the largest word.                                                *)
LEMMA AskedIs ==
  ASSUME NEW ranges \in Seq(SymbolicRange), NEW total \in Word
  PROVE  Asked(ranges, total) = {x \in 0 .. total - 1 : Covered(PairsOf(ranges), x)}
<1>1. total \in Nat /\ total <= MaxWord /\ MaxWord \in Nat
  BY RecipesAssumption DEF Word
<1>2. DOMAIN PairsOf(ranges) = DOMAIN ranges
      /\ \A k \in DOMAIN ranges : PairsOf(ranges)[k] = Pair(ranges[k])
  BY DEF PairsOf
<1> DEFINE IsNamed(r, x) == CASE r.kind = "Index" -> x = r.a
                            [] r.kind = "Begin" -> x >= r.a
                            [] r.kind = "Range" -> r.a <= x /\ x < r.b
<1>3. ASSUME NEW r \in SymbolicRange, NEW x \in 0 .. total - 1
      PROVE  IsNamed(r, x) <=> Covers(Pair(r), x)
  <2>1. r.a \in Nat /\ r.a <= MaxWord /\ x \in Nat /\ x < MaxWord
    BY <1>1, RangeIs DEF Word
  <2>2. CASE r.kind = "Index"
    <3>1. Pair(r) = <<r.a, Wrapped(r.a + 1)>>
      BY <2>2 DEF Pair
    <3>2. r.a < MaxWord => Wrapped(r.a + 1) = r.a + 1
      BY <1>1, <2>1, WrappedIs
    <3>3. r.a = MaxWord => Wrapped(r.a + 1) = 0
      BY <1>1, <2>1, WrappedIs
    <3>4. IsNamed(r, x) <=> x = r.a
      BY <2>2
    <3> HIDE DEF IsNamed
    <3> QED
      BY <1>1, <2>1, <3>1, <3>2, <3>3, <3>4 DEF Covers
  <2>3. CASE r.kind = "Begin"
    <3>1. Pair(r) = <<r.a, MaxWord>> /\ (IsNamed(r, x) <=> x >= r.a)
      BY <2>3 DEF Pair
    <3> HIDE DEF IsNamed
    <3> QED
      BY <1>1, <2>1, <3>1 DEF Covers
  <2>4. CASE r.kind = "Range"
    <3>1. Pair(r) = <<r.a, r.b>> /\ (IsNamed(r, x) <=> r.a <= x /\ x < r.b)
      BY <2>4 DEF Pair
    <3> HIDE DEF IsNamed
    <3> QED
      BY <3>1 DEF Covers
  <2> QED
    BY <2>2, <2>3, <2>4, RangeIs
<1>4. Asked(ranges, total) = {x \in 0 .. total - 1 : \E k \in DOMAIN ranges : IsNamed(ranges[k], x)}
  BY DEF Asked
<1>5. \A k \in DOMAIN ranges : ranges[k] \in SymbolicRange
  OBVIOUS
<1> HIDE DEF IsNamed
<1> QED
  BY <1>2, <1>3, <1>4, <1>5 DEF Covered

(* So it is, after normalising on the host and again in the guest.         *)
LEMMA MarkedAsAsked ==
  ASSUME NEW ranges \in Seq(SymbolicRange), \A n \in DOMAIN ranges : ~Reversed(ranges[n]),
         NEW total \in Word
  PROVE  /\ Marked(Symbfile(Normalize(Normalize(ranges)), total)) = Asked(ranges, total)
         /\ NamedOnce(Symbfile(Normalize(Normalize(ranges)), total))
<1> DEFINE once == Normalize(ranges)
           twice == Normalize(once)
<1>1. \A k \in DOMAIN ranges : Sane(Pair(ranges[k]))
  BY PairsIn
<1>2. /\ once \in Seq(FullRanges) /\ Merges(PairsOf(once))
      /\ \A x \in Nat : x < MaxWord => (Covered(PairsOf(once), x) <=> Covered(PairsOf(ranges), x))
  BY <1>1, NormalizeIs
<1> HIDE DEF once
<1>3. once \in Seq(SymbolicRange)
  <2>1. FullRanges \subseteq SymbolicRange
    BY FullRangeIs
  <2> QED
    BY <1>2, <2>1
<1>4. \A k \in DOMAIN once : Sane(Pair(once[k]))
  BY <1>2 DEF Merges, PairsOf
<1>5. /\ twice \in Seq(FullRanges) /\ Merges(PairsOf(twice))
      /\ \A x \in Nat : x < MaxWord => (Covered(PairsOf(twice), x) <=> Covered(PairsOf(once), x))
  BY <1>3, <1>4, NormalizeIs
<1> HIDE DEF twice
<1>6. /\ Marked(Symbfile(twice, total)) = {x \in 0 .. total - 1 : Covered(PairsOf(twice), x)}
      /\ NamedOnce(Symbfile(twice, total))
  BY <1>5, SymbfileIs
<1>7. \A x \in 0 .. total - 1 : x \in Nat /\ x < MaxWord
  BY RecipesAssumption DEF Word
<1>8. Marked(Symbfile(twice, total)) = Asked(ranges, total)
  BY <1>2, <1>5, <1>6, <1>7, AskedIs
<1> QED
  BY <1>6, <1>8 DEF twice, once

-----------------------------------------------------------------------------
(* What the guest tells S2E.                                               *)

\* The files as the guest has them, and what is marked of them.
Final(i) == NormalFiles(NormalFiles(recipe[i]))

ToMark(i) ==
  IF recipe[i][1].symbolic
  THEN Symbfile(Normalize(Normalize(recipe[i][1].ranges)), recipe[i][1].length)
  ELSE <<>>

\* Only the first file of a recipe may be symbolic.
OneSymbolic(files) == Len(files) = 2 /\ ~files[2].symbolic

Marking(i) ==
  /\ doing[i] = "fetching" =>
       \/ todo[i] = Final(i) /\ marked[i] = <<>>
       \/ todo[i] \in {Tail(Final(i)), <<>>} /\ marked[i] = ToMark(i)
  /\ doing[i] = "analysing" => marked[i] = ToMark(i)

SymbolicInv ==
  /\ DOMAIN marked = Instances
  /\ \A i \in Instances : OneSymbolic(recipe[i])
  /\ \A i \in Instances : doing[i] \notin {"fetching", "analysing", "lost"} => marked[i] = <<>>
  /\ \A i \in Instances : Alone(i) => Marking(i)

LEMMA InitSymbolic == Init => SymbolicInv
<1> SUFFICES ASSUME Init PROVE SymbolicInv
  OBVIOUS
<1>1. /\ marked = [i \in Instances |-> <<>>]
      /\ \A i \in Instances : doing[i] \in {"off", "none"}
  BY DEF Init, SessionsInit, Only
<1>2. ASSUME NEW name, NEW file PROVE OneSymbolic(<<file, Concrete(name)>>)
  <2>1. Concrete(name).symbolic = FALSE
    BY DEF Concrete
  <2> QED
    BY <2>1 DEF OneSymbolic
<1>3. OneSymbolic(Plain) /\ \A files \in FewRecipes : OneSymbolic(files)
  BY <1>2 DEF Plain, FewRecipes
<1>4. \A files \in SymbolicRecipes : OneSymbolic(files)
  BY <1>2 DEF SymbolicRecipes
<1>5. \A i \in Instances : OneSymbolic(recipe[i])
  BY <1>3, <1>4 DEF Init
<1> QED
  BY <1>1, <1>5 DEF SymbolicInv, Marking

LEMMA FinalIs ==
  ASSUME SessionsTyped, SymbolicInv, NEW i \in Instances
  PROVE  /\ Final(i) # <<>> /\ Tail(Final(i)) # <<>> /\ Tail(Tail(Final(i))) = <<>>
         /\ ToMark(i) = IF Head(Final(i)).symbolic
                        THEN Symbfile(Head(Final(i)).ranges, Head(Final(i)).length) ELSE <<>>
         /\ Head(Tail(Final(i))).symbolic = FALSE
<1> DEFINE files == recipe[i]
           once == NormalFiles(files)
           twice == NormalFiles(once)
<1>1. files \in Seq(FilesWith(OfRecipes)) /\ Len(files) = 2 /\ files[2].symbolic = FALSE
  <2>1. files \in Seq(FilesWith(OfRecipes)) /\ Len(files) = 2 /\ ~files[2].symbolic
    BY DEF SessionsTyped, SymbolicInv, OneSymbolic
  <2>2. files[2] \in FilesWith(OfRecipes)
    BY <2>1
  <2>3. files[2].symbolic \in BOOLEAN
    BY <2>2 DEF FilesWith
  <2> QED
    BY <2>1, <2>3
<1>2. ASSUME NEW R, NEW file \in FilesWith(R)
      PROVE  /\ Normal(file).symbolic = file.symbolic /\ Normal(file).length = file.length
             /\ Normal(file).ranges = Normalize(file.ranges)
  <2> DEFINE n == Normalize(file.ranges)
  <2>1. Normal(file) = [file EXCEPT !.ranges = n]
    BY DEF Normal
  <2> HIDE DEF n
  <2>2. /\ [file EXCEPT !.ranges = n].symbolic = file.symbolic
        /\ [file EXCEPT !.ranges = n].length = file.length
        /\ [file EXCEPT !.ranges = n].ranges = n
    BY DEF FilesWith
  <2> QED
    BY <2>1, <2>2, Zenon DEF n
<1>3. /\ once \in Seq(FilesWith({Normalize(ranges) : ranges \in OfRecipes}))
      /\ DOMAIN once = DOMAIN files /\ \A k \in DOMAIN files : once[k] = Normal(files[k])
  BY <1>1, NormalFilesProperties DEF NormalFiles
<1> DEFINE N == {Normalize(ranges) : ranges \in OfRecipes}
<1> HIDE DEF once, N
<1>4. /\ DOMAIN twice = DOMAIN once /\ \A k \in DOMAIN once : twice[k] = Normal(once[k])
      /\ twice \in Seq(FilesWith({Normalize(ranges) : ranges \in N}))
  BY <1>3, NormalFilesProperties DEF NormalFiles, N
<1> HIDE DEF twice
<1>5. DOMAIN files = 1 .. 2 /\ DOMAIN once = 1 .. 2 /\ DOMAIN twice = 1 .. 2
  BY <1>1, <1>3, <1>4
<1>6. \A k \in 1 .. 2 : files[k] \in FilesWith(OfRecipes) /\ once[k] \in FilesWith(N)
  BY <1>1, <1>3, <1>5 DEF N
<1>7. \A k \in 1 .. 2 :
        /\ twice[k].symbolic = files[k].symbolic /\ twice[k].length = files[k].length
        /\ twice[k].ranges = Normalize(Normalize(files[k].ranges))
  <2> SUFFICES ASSUME NEW k \in 1 .. 2
               PROVE  /\ twice[k].symbolic = files[k].symbolic /\ twice[k].length = files[k].length
                      /\ twice[k].ranges = Normalize(Normalize(files[k].ranges))
    OBVIOUS
  <2>1. once[k] = Normal(files[k]) /\ twice[k] = Normal(once[k])
    BY <1>3, <1>4, <1>5
  <2>2. /\ once[k].symbolic = files[k].symbolic /\ once[k].length = files[k].length
        /\ once[k].ranges = Normalize(files[k].ranges)
    BY <1>2, <1>6, <2>1, Zenon
  <2>3. /\ twice[k].symbolic = once[k].symbolic /\ twice[k].length = once[k].length
        /\ twice[k].ranges = Normalize(once[k].ranges)
    BY <1>2, <1>6, <2>1, Zenon
  <2> QED
    BY <2>2, <2>3, Zenon
<1>8. /\ twice # <<>> /\ Len(twice) = 2 /\ Head(twice) = twice[1]
      /\ Tail(twice) # <<>> /\ Head(Tail(twice)) = twice[2] /\ Tail(Tail(twice)) = <<>>
  <2>1. twice \in Seq(FilesWith({Normalize(ranges) : ranges \in N})) /\ Len(twice) = 2
    BY <1>4, <1>5
  <2> DEFINE S == FilesWith({Normalize(ranges) : ranges \in N})
  <2> HIDE DEF S
  <2>2. twice \in Seq(S) /\ Len(twice) = 2
    BY <2>1 DEF S
  <2> HIDE DEF twice
  <2>3. twice # <<>>
    BY <2>2, EmptyOrNot
  <2>4. PICK rest \in Seq(S) : rest = Tail(twice) /\ Len(rest) = 1 /\ rest[1] = twice[2]
    <3>1. /\ Tail(twice) \in Seq(S) /\ Len(Tail(twice)) = Len(twice) - 1
          /\ \A n \in 1 .. Len(Tail(twice)) : Tail(twice)[n] = twice[n + 1]
      BY <2>2, <2>3, HeadTailProperties
    <3>2. Len(Tail(twice)) = 1 /\ 1 \in 1 .. 1 /\ 1 + 1 = 2
      BY <2>2, <3>1
    <3>3. Tail(twice)[1] = twice[2]
      BY <3>1, <3>2
    <3> QED
      BY <3>1, <3>2, <3>3
  <2>5. rest # <<>>
    <3>1. Len(<<>>) # 1
      OBVIOUS
    <3> QED
      BY <2>4, <3>1, Zenon
  <2>6. PICK none \in Seq(S) : none = Tail(rest) /\ Len(none) = 0
    <3>1. Tail(rest) \in Seq(S) /\ Len(Tail(rest)) = Len(rest) - 1
      BY <2>5, HeadTailProperties
    <3>2. Len(Tail(rest)) = 0
      BY <2>4, <3>1
    <3> QED
      BY <3>1, <3>2
  <2>7. none = <<>>
    BY <2>6, EmptyOrNot
  <2>8. Head(twice) = twice[1] /\ Head(rest) = rest[1]
    OBVIOUS
  <2> QED
    BY <2>2, <2>3, <2>4, <2>5, <2>6, <2>7, <2>8
<1>9. Final(i) = twice
  BY DEF Final, twice, once
<1>10. 1 \in 1 .. 2 /\ 2 \in 1 .. 2
  OBVIOUS
<1> QED
  BY <1>1, <1>7, <1>8, <1>9, <1>10, Zenon DEF ToMark

(* A turns changes what is marked of its own guest, and there only for a    *)
(* file that the guest gets.                                               *)
LEMMA MarkedStep ==
  ASSUME OwnInv, SymbolicInv, NEW i \in Instances, RunStep(i)
  PROVE  /\ DOMAIN marked' = Instances
         /\ \A j \in Instances \ {i} : marked'[j] = marked[j]
         /\ ~GetFile(i) => marked' = marked
<1>1. ~GetFile(i) => marked' = marked
  BY DEF RunStep, Configure, Check, Look, CreateDirs, CopyFile, Record, LinkTools, Save, GetRecipe
<1>2. CASE GetFile(i)
  <2>1. marked' = marked \/ \E marks : marked' = [marked EXCEPT ![i] = marks]
    BY <1>2 DEF GetFile
  <2> QED
    BY <1>2, <2>1 DEF SymbolicInv
<1> QED
  BY <1>1, <1>2 DEF SymbolicInv

LEMMA GetRecipeMarks ==
  ASSUME OwnInv, SymbolicInv, NEW i \in Instances, GetRecipe(i), Alone(i)
  PROVE  Marking(i)' /\ marked' = marked
<1> DEFINE json == dirs[at[i]].host["recipe.json"]
<1>1. json = RecipeOf(i)
  BY DEF GetRecipe, OwnInv, Own, Host
<1>2. json.is = "recipe" /\ json.owner = i
  BY <1>1 DEF RecipeOf
<1>3. /\ Does(i, "fetching") /\ todo' = [todo EXCEPT ![i] = NormalFiles(NormalFiles(recipe[json.owner]))]
      /\ marked' = marked /\ recipe' = recipe /\ doing[i] = "getting"
  BY <1>2 DEF GetRecipe
<1> HIDE DEF json
<1>4. todo'[i] = Final(i)' /\ doing'[i] = "fetching"
  BY <1>2, <1>3 DEF Final, Does, OwnInv, SessionsTyped
<1>5. marked'[i] = <<>>
  BY <1>3 DEF SymbolicInv
<1> QED
  BY <1>3, <1>4, <1>5 DEF Marking

LEMMA GetFileMarks ==
  ASSUME OwnInv, SymbolicInv, NEW i \in Instances, GetFile(i), Alone(i)
  PROVE  Marking(i)'
<1>1. Marking(i) /\ doing[i] = "fetching"
  BY DEF GetFile, SymbolicInv
<1>2. recipe' = recipe /\ doing \in [Instances -> Doing] /\ DOMAIN todo = Instances
      /\ DOMAIN marked = Instances
  BY DEF GetFile, OwnInv, SessionsTyped, SymbolicInv
<1>3. Final(i)' = Final(i) /\ ToMark(i)' = ToMark(i)
  BY <1>2 DEF Final, ToMark
<1>4. CASE todo[i] = <<>>
  <2>1. doing'[i] = "analysing" /\ marked' = marked
    BY <1>2, <1>4 DEF GetFile, Does
  <2>2. marked[i] = ToMark(i)
    BY <1>1, <1>4, FinalIs DEF Marking, OwnInv
  <2> QED
    BY <1>3, <2>1, <2>2 DEF Marking
<1>5. CASE todo[i] # <<>> /\ doing'[i] = "lost"
  BY <1>5 DEF Marking
<1>6. CASE todo[i] # <<>> /\ doing'[i] # "lost"
  <2> DEFINE file == Head(todo[i])
  <2>1. /\ todo' = [todo EXCEPT ![i] = Tail(todo[i])] /\ doing' = doing
        /\ marked' = [marked EXCEPT ![i] = IF file.symbolic THEN Symbfile(file.ranges, file.length)
                                           ELSE marked[i]]
    BY <1>2, <1>6 DEF GetFile, Does
  <2>2. /\ todo'[i] = Tail(todo[i])
        /\ marked'[i] = IF file.symbolic THEN Symbfile(file.ranges, file.length) ELSE marked[i]
    BY <1>2, <2>1
  <2>3. CASE todo[i] = Final(i) /\ marked[i] = <<>>
    <3>1. todo'[i] = Tail(Final(i)) /\ marked'[i] = ToMark(i)
      BY <2>2, <2>3, FinalIs DEF OwnInv
    <3> QED
      BY <1>1, <1>3, <2>1, <3>1 DEF Marking
  <2>4. CASE todo[i] = Tail(Final(i)) /\ marked[i] = ToMark(i)
    <3>1. todo'[i] = <<>> /\ marked'[i] = ToMark(i)
      BY <2>2, <2>4, FinalIs DEF OwnInv
    <3> QED
      BY <1>1, <1>3, <2>1, <3>1 DEF Marking
  <2> QED
    BY <1>1, <1>6, <2>3, <2>4 DEF Marking
<1> QED
  BY <1>4, <1>5, <1>6

LEMMA RunMarks ==
  ASSUME OwnInv, SymbolicInv, NEW i \in Instances, RunStep(i)
  PROVE  SymbolicInv'
<1>1. recipe' = recipe /\ \A j \in Instances \ {i} : doing'[j] = doing[j] /\ todo'[j] = todo[j]
  BY OwnStep DEF OwnInv
<1>2. \A j \in Instances : Final(j)' = Final(j) /\ ToMark(j)' = ToMark(j)
  BY <1>1 DEF Final, ToMark
<1>3. /\ DOMAIN marked' = Instances /\ \A j \in Instances \ {i} : marked'[j] = marked[j]
      /\ ~GetFile(i) => marked' = marked
  BY MarkedStep
<1>4. ASSUME ~GetRecipe(i), ~GetFile(i)
      PROVE  doing[i] \notin {"getting", "fetching", "analysing", "lost"}
             /\ doing'[i] \notin {"fetching", "analysing", "lost"}
  BY <1>4 DEF RunStep, Configure, Check, Look, CreateDirs, CopyFile, Record, LinkTools, Save,
              Does, OwnInv, SessionsTyped
<1>5. ASSUME doing'[i] \notin {"fetching", "analysing", "lost"}
      PROVE  marked'[i] = <<>>
  <2>1. ASSUME GetFile(i) PROVE FALSE
    BY <1>5, <2>1 DEF GetFile, Does, OwnInv, SessionsTyped
  <2>2. ~GetRecipe(i) \/ doing[i] = "getting"
    BY DEF GetRecipe
  <2> QED
    BY <1>3, <1>4, <2>1, <2>2 DEF SymbolicInv
<1>6. ASSUME Alone(i)' PROVE Marking(i)'
  <2>1. CASE GetRecipe(i)
    <3>1. Alone(i)
      BY <1>6, <2>1, AloneBefore DEF GetRecipe, OwnInv
    <3> QED
      BY <2>1, <3>1, GetRecipeMarks
  <2>2. CASE GetFile(i)
    <3>1. Alone(i)
      BY <1>6, <2>2, AloneBefore DEF GetFile, OwnInv
    <3> QED
      BY <2>2, <3>1, GetFileMarks
  <2>3. CASE ~GetRecipe(i) /\ ~GetFile(i)
    BY <1>4, <2>3 DEF Marking
  <2> QED
    BY <2>1, <2>2, <2>3
<1>7. ASSUME NEW j \in Instances \ {i}, Alone(j)' PROVE Marking(j)'
  <2>1. Alone(j)
    BY <1>7, AloneBefore DEF OwnInv
  <2>2. Marking(j)
    BY <2>1 DEF SymbolicInv
  <2> QED
    BY <1>1, <1>2, <1>3, <2>2 DEF Marking
<1>8. \A j \in Instances : OneSymbolic(recipe[j])'
  BY <1>1 DEF SymbolicInv, OneSymbolic
<1>9. \A j \in Instances : doing'[j] \notin {"fetching", "analysing", "lost"} => marked'[j] = <<>>
  BY <1>1, <1>3, <1>5 DEF SymbolicInv
<1> QED
  BY <1>3, <1>6, <1>7, <1>8, <1>9 DEF SymbolicInv

LEMMA NextSymbolic == OwnInv /\ SymbolicInv /\ [Next]_vars => SymbolicInv'
<1> SUFFICES ASSUME OwnInv, SymbolicInv, [Next]_vars PROVE SymbolicInv'
  OBVIOUS
<1>1. CASE \E i \in Instances : RunStep(i)
  BY <1>1, RunMarks
<1>2. CASE UNCHANGED <<doing, recipe, at, foundNone, todo, marked>>
  <2>1. \A i \in Instances : Alone(i)' => Alone(i)
    BY <1>2 DEF Alone
  <2>2. \A i \in Instances : Marking(i) => Marking(i)'
    BY <1>2 DEF Marking, Final, ToMark
  <2>3. \A i \in Instances : OneSymbolic(recipe[i])'
    BY <1>2 DEF SymbolicInv, OneSymbolic
  <2> QED
    BY <1>2, <2>1, <2>2, <2>3 DEF SymbolicInv
<1> QED
  BY <1>1, <1>2 DEF Next, Tick, vars, sessionVars

LEMMA MarkedMeans ==
  ASSUME OwnInv, SymbolicInv
  PROVE  SymbolicAsAsked
<1> SUFFICES ASSUME NEW i \in Instances, NEW k \in DOMAIN recipe[i],
                    doing = [Only(i) EXCEPT ![i] = "analysing"], recipe[i][k].symbolic,
                    \A n \in DOMAIN recipe[i][k].ranges : ~Reversed(recipe[i][k].ranges[n])
             PROVE  /\ UNION {BytesOf(marked[i][n]) : n \in DOMAIN marked[i]}
                         = Asked(recipe[i][k].ranges, recipe[i][k].length)
                    /\ \A m, n \in DOMAIN marked[i] :
                         m < n => BytesOf(marked[i][m]) \cap BytesOf(marked[i][n]) = {}
  BY DEF SymbolicAsAsked
<1>1. doing[i] = "analysing" /\ \A j \in Instances \ {i} : doing[j] = "none"
  BY DEF Only
<1>2. Alone(i)
  BY <1>1 DEF Alone, OwnInv, FoundBeforeWriting, NotYet
<1>3. marked[i] = ToMark(i)
  BY <1>1, <1>2 DEF SymbolicInv, Marking
<1>4. recipe[i] \in Seq(FilesWith(OfRecipes)) /\ Len(recipe[i]) = 2 /\ ~recipe[i][2].symbolic
  BY DEF OwnInv, SessionsTyped, SymbolicInv, OneSymbolic
<1>5. k = 1
  BY <1>4
<1> DEFINE file == recipe[i][1]
<1>6. file \in FilesWith(OfRecipes)
  BY <1>4
<1>7. file.ranges \in OfRecipes /\ file.length \in Word
  BY <1>6 DEF FilesWith
<1>8. file.ranges \in Seq(SymbolicRange)
  <2>1. <<IndexRange(0)>> \in Seq(SymbolicRange)
    <3>1. IndexRange(0) \in SymbolicRange
      BY RecipesAssumption DEF SymbolicRange, Word
    <3> QED
      BY <3>1
  <2>2. RangesOfRecipes \subseteq Seq(SymbolicRange)
    BY SessionsAssumption DEF RangesOfRecipes
  <2>3. <<>> \in Seq(SymbolicRange)
    OBVIOUS
  <2> HIDE DEF file
  <2> QED
    BY <1>7, <2>1, <2>2, <2>3, Zenon DEF OfRecipes
<1>9. marked[i] = Symbfile(Normalize(Normalize(file.ranges)), file.length)
  BY <1>3, <1>5 DEF ToMark
<1> QED
  BY <1>5, <1>7, <1>8, <1>9, MarkedAsAsked DEF Marked, NamedOnce

(* The program in the guest meets exactly the symbolic bytes its recipe    *)
(* asks for, for ranges of any kind and number over words of any size.     *)
THEOREM BytesAreAsAsked == Spec => []SymbolicAsAsked
<1>1. Init => OwnInv /\ SymbolicInv
  BY InitOwn, InitSymbolic
<1>2. OwnInv /\ SymbolicInv /\ [Next]_vars => OwnInv' /\ SymbolicInv'
  BY NextOwn, NextSymbolic
<1>3. OwnInv /\ SymbolicInv => SymbolicAsAsked
  BY MarkedMeans
<1> QED
  BY <1>1, <1>2, <1>3, PTL DEF Spec
=============================================================================
