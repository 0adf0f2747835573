----------------------------- MODULE InbandUpdate -----------------------------
(***************************************************************************)
(* oem/ibm: the update the host drives through a state effecter.  It opens *)
(* the update (START), writes LID files into the staging directory, closes *)
(* it (END), and a forked process makes one image of them, which the       *)
(* software manager activates.  A LID is written in two chunks, the first  *)
(* of which holds its header.                                              *)
(***************************************************************************)
EXTENDS Integers, Sequences, FiniteSets, SequencesExt

CONSTANTS
  Lids,         \* the LID files of an update
  BmcLids,      \* those of the BMC class, which go to the tar file
  MaxUpdates,   \* bound: updates the host starts
  NoImage

VARIABLES
  cu,           \* CodeUpdate: [inProgress, newImageId, match]
  deferred,     \* startUpdateEvent and assembleImageEvent, when pending
  staged,       \* files of LID_STAGING_DIR: lid -> the update each chunk is of,
                \* 0 for a hole; an absent file is <<>>
  dirs,         \* below it: [made, lids, tar, hostfw, update]
  child,        \* process -> where it is in assembling its update (UpdateOf)
  images,       \* objects of the software manager: [content, of, state, clean]
  told,         \* last value of the firmware update sensor sent to the host
  host,         \* [update, sent: lid -> chunks, clean] (history)
  answer        \* completion code of the last write

vars == <<cu, deferred, staged, dirs, child, images, told, host, answer>>

NoDirs == [made |-> FALSE, lids |-> {}, tar |-> <<>>, hostfw |-> {},
           update |-> <<>>]
Empty == [l \in Lids |-> <<>>]

\* The second process of an update is that of a repeated END.
Processes == 1..(2 * MaxUpdates)
UpdateOf(p) == IF p > MaxUpdates THEN p - MaxUpdates ELSE p

Init ==
  /\ cu = [inProgress |-> FALSE, newImageId |-> NoImage, match |-> NoImage]
  /\ deferred = {} /\ staged = Empty /\ dirs = NoDirs
  /\ child = [p \in Processes |-> "none"]
  /\ images = <<>> /\ told = "END" /\ answer = ""
  /\ host = [update |-> 0, sent |-> [l \in Lids |-> 0], clean |-> TRUE]

\* Nothing of an earlier update is at work or left; ABORT clears the files, END
\* does not.
Undisturbed ==
  /\ \A p \in Processes : child[p] = "none"
  /\ \A i \in DOMAIN images : images[i].state \in {"active", "failed", "idle", "gone"}
  /\ deferred = {}
  /\ told = "ABORT" \/ (told = "END" /\ staged = Empty /\ dirs = NoDirs)

-----------------------------------------------------------------------------
\* The effecter set to START: the rest is deferred.
StartUpdate ==
  /\ told # "START" /\ "start" \notin deferred /\ host.update < MaxUpdates
  /\ cu' = [cu EXCEPT !.inProgress = TRUE]
  /\ deferred' = deferred \union {"start"}
  /\ host' = [update |-> host.update + 1, sent |-> [l \in Lids |-> 0],
              clean |-> Undisturbed]
  /\ UNCHANGED <<staged, dirs, child, images, told, answer>>

\* Deletes the images that do not run; a failure to set the apply time is told
\* to the host and leaves the update open.
processStartUpdate ==
  /\ "start" \in deferred
  /\ deferred' = deferred \ {"start"}
  /\ images' = [i \in DOMAIN images |->
                  IF images[i].state = "active" THEN images[i]
                  ELSE [images[i] EXCEPT !.state = "gone"]]
  /\ told' \in {"START", "FAIL"}
  /\ UNCHANGED <<cu, staged, dirs, child, host, answer>>

-----------------------------------------------------------------------------
\* processCodeUpdateLid, with a file of full size: its content is appended to
\* the tar file, or becomes a file of the lid directory, and the file goes.
Processed(l, file) ==
  /\ staged' = [staged EXCEPT ![l] = <<>>]
  /\ dirs' = [dirs EXCEPT !.made = TRUE,
                          !.tar = IF l \in BmcLids THEN Append(@, <<l, file>>) ELSE @,
                          !.lids = IF l \in BmcLids THEN @
                                   ELSE {f \in @ : f[1] # l} \union {<<l, file>>}]

\* What becomes of a written file: one without a header has a header of zeros,
\* so that its size suffices but not its magic number.
processCodeUpdateLid(l, file) ==
  IF Len(file) = 2 /\ file[1] # 0
    THEN Processed(l, file) /\ answer' = "success"
  ELSE /\ staged' = [staged EXCEPT ![l] = file] /\ UNCHANGED dirs
       /\ answer' = IF file[1] = 0 THEN "error" ELSE "success"

\* A file after its chunk k was written.
Written(file, k) ==
  [j \in 1..(IF Len(file) < k THEN k ELSE Len(file)) |->
     IF j = k THEN host.update ELSE IF j \in DOMAIN file THEN file[j] ELSE 0]

\* The host writes the next chunk, or repeats the last whose answer it lost.
Chunk(l, k) ==
  /\ told = "START" /\ deferred = {} /\ k \in 1..2
  /\ k \in {host.sent[l], host.sent[l] + 1}

\* LidHandler::write refuses an offset past the end of the file.  Outside an
\* update it writes the installed LID, which is left out here.
Write(l, k) ==
  /\ Chunk(l, k)
  /\ IF k > Len(staged[l]) + 1
       THEN answer' = "out of range" /\ UNCHANGED <<staged, dirs, host>>
     ELSE /\ IF cu.inProgress THEN processCodeUpdateLid(l, Written(staged[l], k))
             ELSE answer' = "success" /\ UNCHANGED <<staged, dirs>>
          /\ host' = [host EXCEPT !.sent[l] = k]
  /\ UNCHANGED <<cu, deferred, child, images, told>>

\* LidHandler::writeFromMemory does not look at the offset: a chunk repeated
\* after its file went leaves a file with a hole.
WriteFromMemory(l, k) ==
  /\ Chunk(l, k)
  /\ IF cu.inProgress THEN processCodeUpdateLid(l, Written(staged[l], k))
     ELSE answer' = "success" /\ UNCHANGED <<staged, dirs>>
  /\ host' = [host EXCEPT !.sent[l] = k]
  /\ UNCHANGED <<cu, deferred, child, images, told>>

-----------------------------------------------------------------------------
AtWork(u) == \E p \in Processes : UpdateOf(p) = u /\ child[p] # "none"

\* Bound: END is repeated in the last update only, and if that was undisturbed.
EndsAgain == host.clean /\ host.update = MaxUpdates

\* END is taken again while a process is at work on the files.
EndUpdate ==
  /\ told = "START" /\ deferred = {} /\ (AtWork(host.update) => EndsAgain)
  /\ \A l \in Lids : host.sent[l] = 2
  /\ deferred' = {"end"}
  /\ host' = [host EXCEPT !.clean = @ /\ ~AtWork(host.update)]
  /\ UNCHANGED <<cu, staged, dirs, child, images, told, answer>>

Forked == IF child[host.update] = "none" THEN host.update ELSE host.update + MaxUpdates

\* The parent learns only whether the fork worked.
processEndUpdate ==
  /\ "end" \in deferred
  /\ deferred' = deferred \ {"end"}
  /\ \/ /\ child' = [child EXCEPT ![Forked] = "squash"]
        /\ UNCHANGED <<cu, told>>
     \/ cu' = [cu EXCEPT !.inProgress = FALSE] /\ told' = "FAIL" /\ UNCHANGED child
  /\ UNCHANGED <<staged, dirs, images, host, answer>>

\* The process tells the host of a failure; what it clears is its own copy of
\* codeUpdateInProgress.
ChildFails(u) ==
  /\ child' = [child EXCEPT ![u] = "none"] /\ told' = "FAIL"
  /\ UNCHANGED <<cu, deferred, staged, dirs, images, host, answer>>

Squash(u) ==
  /\ child[u] = "squash"
  /\ \/ ChildFails(u)
     \/ /\ dirs.made
        /\ dirs' = [dirs EXCEPT !.hostfw = @ \union dirs.lids]
        /\ child' = [child EXCEPT ![u] = "extract"]
        /\ UNCHANGED <<cu, deferred, staged, images, told, host, answer>>

Extract(u) ==
  /\ child[u] = "extract"
  /\ \/ ChildFails(u)
     \/ /\ dirs.tar # <<>>
        /\ dirs' = [dirs EXCEPT !.update = dirs.tar]
        /\ child' = [child EXCEPT ![u] = "publish"]
        /\ UNCHANGED <<cu, deferred, staged, images, told, host, answer>>

\* The host image joins what was extracted, the tar file is made again and
\* copied to where the software manager finds it.  Copying a host image that an
\* ABORT removed throws, which ends the process without a word.
Publish(u) ==
  /\ child[u] = "publish"
  /\ \/ ChildFails(u)
     \/ /\ ~dirs.made
        /\ child' = [child EXCEPT ![u] = "none"]
        /\ UNCHANGED <<cu, deferred, staged, dirs, images, told, host, answer>>
     \/ /\ dirs.made
        /\ images' = Append(images,
             [content |-> dirs.update \o SetToSeq(dirs.hostfw), of |-> UpdateOf(u),
              state |-> "added", clean |-> host.clean /\ host.update = UpdateOf(u)])
        /\ child' = [child EXCEPT ![u] = "clean"]
        /\ UNCHANGED <<cu, deferred, staged, dirs, told, host, answer>>

Cleanup(u) ==
  /\ child[u] = "clean"
  /\ dirs' = NoDirs
  /\ child' = [child EXCEPT ![u] = "none"]
  /\ UNCHANGED <<cu, deferred, staged, images, told, host, answer>>

\* Mutant for ImageIsWhole: ABORT leaves the files.
MutCleared == <<staged, dirs>>
\* clearDirPath(LID_STAGING_DIR): the directories are below it.
Cleared == <<Empty, NoDirs>>

AbortUpdate ==
  /\ told \in {"START", "FAIL"} /\ "start" \notin deferred
  /\ cu' = [cu EXCEPT !.inProgress = FALSE]
  /\ staged' = Cleared[1] /\ dirs' = Cleared[2]
  /\ told' = "ABORT"
  /\ UNCHANGED <<deferred, child, images, host, answer>>

-----------------------------------------------------------------------------
\* InterfacesAdded of the software manager.  The match for the activation is
\* made for the first image of the daemon's life only; without an update in
\* progress this is the rename of the boot side (module BootSide).
ImageAdded(i) ==
  /\ images[i].state = "added"
  /\ IF cu.inProgress
       THEN \/ /\ cu' = [cu EXCEPT !.newImageId = i,
                                   !.match = IF @ = NoImage THEN i ELSE @]
               /\ images' = [images EXCEPT ![i].state = "activating"]
               /\ UNCHANGED told
            \/ /\ cu' = [cu EXCEPT !.newImageId = i, !.inProgress = FALSE,
                                   !.match = IF @ = NoImage THEN i ELSE @]
               /\ images' = [images EXCEPT ![i].state = "failed"]
               /\ told' = "FAIL"
     ELSE images' = [images EXCEPT ![i].state = "idle"] /\ UNCHANGED <<cu, told>>
  /\ UNCHANGED <<deferred, staged, dirs, child, host, answer>>

\* Mutant for EndMeansDone: activation is told but the update stays open.
MutConcluded(i, state) ==
  IF cu.match = i
    THEN /\ cu' = [cu EXCEPT !.newImageId = NoImage]
         /\ told' = IF state = "active" THEN "END" ELSE "FAIL"
  ELSE UNCHANGED <<cu, told>>
Concluded(i, state) ==
  IF cu.match = i
    THEN /\ cu' = [cu EXCEPT !.inProgress = FALSE, !.newImageId = NoImage]
         /\ told' = IF state = "active" THEN "END" ELSE "FAIL"
  ELSE UNCHANGED <<cu, told>>

ActivationChanged(i, state) ==
  /\ images[i].state = "activating"
  /\ images' = [images EXCEPT ![i].state = state]
  /\ Concluded(i, state)
  /\ UNCHANGED <<deferred, staged, dirs, child, host, answer>>

-----------------------------------------------------------------------------
Next ==
  \/ StartUpdate \/ processStartUpdate \/ EndUpdate \/ processEndUpdate
  \/ AbortUpdate
  \/ \E l \in Lids, k \in 1..2 : Write(l, k) \/ WriteFromMemory(l, k)
  \/ \E u \in Processes :
       Squash(u) \/ Extract(u) \/ Publish(u) \/ Cleanup(u)
  \/ \E i \in DOMAIN images :
       \/ ImageAdded(i)
       \/ \E state \in {"active", "failed"} : ActivationChanged(i, state)

Spec == Init /\ [][Next]_vars

\* What holds each LID of update u once and nothing else.
Whole(content, u) ==
  /\ Len(content) = Cardinality(Lids)
  /\ {content[k][1] : k \in DOMAIN content} = Lids
  /\ \A k \in DOMAIN content : content[k][2] = <<u, u>>

(* An image handed to the software manager holds every LID of its update, once, *)
(* and nothing of another update, whatever the host repeated by write: provided *)
(* that the earlier update had come to its end or was aborted when this one     *)
(* started, that nothing of it was still at work or left behind, and that the   *)
(* host did not close this one again while it was being assembled.  (The end of *)
(* the image of an aborted update ends the next one too, and what that one had  *)
(* written then stays for the one after it: START clears nothing.)              *)
ImageIsWhole ==
  \A i \in DOMAIN images :
    images[i].clean => Whole(images[i].content, images[i].of)

(* What ends an update for the host ends it for the BMC: after END or ABORT     *)
(* LIDs are read from either side again (LidHandler::constructLIDPath).         *)
EndMeansDone ==
  told \in {"END", "ABORT"} /\ "start" \notin deferred => ~cu.inProgress
-----------------------------------------------------------------------------
\* The inductive invariant of ImageIsWhole and EndMeansDone.

File == Lids \X Seq(Nat)
Image ==
  [content: Seq(File), of: Nat, clean: BOOLEAN,
   state: {"added", "activating", "active", "failed", "idle", "gone"}]

Dirs == [made: BOOLEAN, lids: SUBSET File, tar: Seq(File),
         hostfw: SUBSET File, update: Seq(File)]
Children == [Processes -> {"none", "squash", "extract", "publish", "clean"}]

InbandTypes ==
  /\ cu \in [inProgress: BOOLEAN, newImageId: Nat \union {NoImage},
            match: Nat \union {NoImage}]
  /\ deferred \subseteq {"start", "end"}
  /\ staged \in [Lids -> Seq(Nat)]
  /\ dirs \in Dirs
  /\ IsFiniteSet(dirs.lids) /\ IsFiniteSet(dirs.hostfw)
  /\ child \in Children
  /\ images \in Seq(Image)
  /\ told \in {"START", "END", "ABORT", "FAIL"}
  /\ host \in [update: 0..MaxUpdates, sent: [Lids -> 0..2], clean: BOOLEAN]
  /\ \A u \in Processes : child[u] # "none" => UpdateOf(u) <= host.update
  /\ \A i \in DOMAIN images : images[i].of <= host.update
  /\ told = "START" \/ deferred # {} => host.update >= 1

\* An ABORT leaves no files.
AbortClears == told = "ABORT" => staged = Empty /\ dirs = NoDirs

Begun == told = "START" \/ "start" \in deferred
Published == \E i \in DOMAIN images : images[i].of = host.update
ChildIn(places) == \E u \in Processes : child[u] \in places
Assembling == "end" \in deferred \/ ChildIn({"squash", "extract", "publish"})
AllSent == \A l \in Lids : host.sent[l] = 2

\* Nothing of another update is at work in a clean one.
Alone ==
  /\ \A u \in Processes : child[u] # "none" => u = host.update /\ deferred = {}
  /\ \A i \in DOMAIN images :
       images[i].state \in {"added", "activating"} => images[i].of = host.update
  /\ "start" \in deferred =>
       /\ deferred = {"start"} /\ told # "START" /\ ~Published
       /\ \A l \in Lids : host.sent[l] = 0

\* A file that went may come again, as a hole and a second chunk.
ChunksStaged ==
  Begun =>
    /\ host.update >= 1
    /\ \A l \in Lids :
         /\ host.sent[l] = 0 => staged[l] = <<>>
         /\ host.sent[l] = 1 => staged[l] = <<host.update>>
         /\ host.sent[l] = 2 => staged[l] \in {<<>>, <<0, host.update>>}

\* The files received of the LIDs of a set.
Received(lids) ==
  {<<l, <<host.update, host.update>>>> : l \in {l \in lids : host.sent[l] = 2}}

Stored ==
  /\ dirs.lids = Received(Lids \ BmcLids)
  /\ Range(dirs.tar) = Received(Lids \intersect BmcLids)
  /\ IsInjective(dirs.tar)

FilesStored ==
  /\ Begun /\ ~Published =>
       /\ cu.inProgress /\ Stored
       /\ ChildIn({"extract", "publish"}) \/ dirs.hostfw = {}
  /\ Begun /\ (Published \/ Assembling \/ ChildIn({"clean"})) => AllSent

\* The image is made of them once.
MadeOnce ==
  /\ told = "START" /\ ChildIn({"extract", "publish"}) =>
       ~Published /\ dirs.made /\ dirs.hostfw = dirs.lids
  /\ told = "START" /\ ChildIn({"publish"}) => dirs.update = dirs.tar
  /\ ChildIn({"clean"}) => Published

\* An update that ended or has its image leaves nothing to make one of.
NothingLeft ==
  /\ (told # "START" \/ Published) /\ Assembling => dirs = NoDirs
  /\ Begun /\ Published /\ ~ChildIn({"clean"}) => dirs = NoDirs

CleanUpdate == Alone /\ ChunksStaged /\ FilesStored /\ MadeOnce /\ NothingLeft

InbandInv ==
  /\ InbandTypes /\ AbortClears /\ EndMeansDone /\ ImageIsWhole
  /\ host.clean => CleanUpdate
===============================================================================
