--------------------------- MODULE ImageDownloader ---------------------------
(***************************************************************************)
(* The images of the photo cells: PhotoView and its ImageDownloader, with  *)
(* the ImageCache all of them share.  A collection view recycles a cell    *)
(* for another photo at any time; the handler of the cell's data task runs *)
(* on the shared session's queue and posts the image to the main queue.    *)
(* Whether that image still belongs in the cell is decided by one flag,    *)
(* isCancelled, which the cell's next photo takes down again.              *)
(***************************************************************************)
EXTENDS Naturals, Sequences

CONSTANTS
    Cells,      \* the PhotoViews of a collection view
    Photos,     \* photos, each with an image of its own
    NoPhoto,    \* a cell not yet used; no image
    Source,     \* [Photos -> {"remote", "local", "none"}]: where configure
                \* takes the image from; "none": no URL, or being downloaded
    Tasks,      \* URLSessionDataTasks alive at once
    NoTask,     \* imageDataTask is nil
    MaxBlocks   \* blocks waiting on the main queue when a cell is recycled

ASSUME ImageConstants ==
    /\ NoPhoto \notin Photos /\ NoTask \notin Tasks \cup Cells
    /\ Source \in [Photos -> {"remote", "local", "none"}]
    /\ MaxBlocks \in Nat

VARIABLES
    photo,          \* [Cells -> the photo the cell was configured with]
    image,          \* [Cells -> the photo whose image it shows]
    imageDataTask,  \* [Cells -> Tasks or NoTask]
    isCancelled,    \* [Cells -> BOOLEAN]
    tasks,          \* the data tasks
    cache,          \* photos whose image ImageCache holds
    mainQueue,      \* completions given to DispatchQueue.main.async
    missed,         \* history: why the cell's photo was given up
    overtaken       \* history: cells recycled before a finished image was shown

downloader == <<imageDataTask, isCancelled>>
vars == <<photo, image, downloader, tasks, cache, mainQueue, missed, overtaken>>

----------------------------------------------------------------------------
\* received, failed: the transfer has ended and the handler is to run;
\* decoded: the handler has let go of the task and is about to store the
\* image and post it.
TaskState == {"unused", "running", "received", "failed", "decoded"}

Task == [state: TaskState, cell: Cells \cup {NoTask}, photo: Photos \cup {NoPhoto}]

Unused == [state |-> "unused", cell |-> NoTask, photo |-> NoPhoto]

Block == [cell: Cells, photo: Photos]

Missed == {"none", "dropped", "failed", "noSource"}

Init ==
    /\ photo = [c \in Cells |-> NoPhoto]
    /\ image = [c \in Cells |-> NoPhoto]
    /\ imageDataTask = [c \in Cells |-> NoTask]
    /\ isCancelled = [c \in Cells |-> FALSE]
    /\ tasks = [t \in Tasks |-> Unused]
    /\ cache = {}
    /\ mainQueue = <<>>
    /\ missed = [c \in Cells |-> "none"]
    /\ overtaken = {}

----------------------------------------------------------------------------
\* Mutant: leaves the flag alone.
CancelledFlag_kept(c) == isCancelled[c]

\* What ImageDownloader.cancel leaves in isCancelled: a cell is recycled with
\* prepareForReuse, except the first time it is used.
CancelledFlag(c) == photo[c] # NoPhoto

\* ... and in the tasks: one that has ended still runs its handler.
CancelledTasks(c) ==
    [t \in Tasks |-> IF t = imageDataTask[c] /\ tasks[t].state = "running"
                     THEN [tasks[t] EXCEPT !.state = "failed"] ELSE tasks[t]]

\* An image of the cell that is on its way to the main thread.
Finished(c) ==
    \/ \E t \in Tasks : tasks[t].state = "decoded" /\ tasks[t].cell = c
    \/ \E i \in DOMAIN mainQueue : mainQueue[i].cell = c

Shows(c, p) == image' = [image EXCEPT ![c] = p]

Misses(c, why) == missed' = [missed EXCEPT ![c] = why]

\* Mutant: the flag stays up.
Accepts_flagUp(c) == /\ isCancelled' = [isCancelled EXCEPT ![c] = CancelledFlag(c)]
                     /\ Misses(c, "none")

\* downloadPhoto goes past its guard.
Accepts(c) == isCancelled' = [isCancelled EXCEPT ![c] = FALSE] /\ Misses(c, "none")

StartTask(c, p) ==
    \E t \in Tasks :
        /\ tasks[t] = Unused
        /\ tasks' = [tasks EXCEPT ![t] = [state |-> "running", cell |-> c, photo |-> p]]
        /\ imageDataTask' = [imageDataTask EXCEPT ![c] = t]

\* Mutant: does not look for a task first.
downloadPhoto_unguarded(c, p, before) ==
    /\ Source[p] = "remote"
    /\ Accepts(c)
    /\ \/ /\ p \in cache
          /\ Shows(c, p)
          /\ UNCHANGED <<tasks, imageDataTask>>
       \/ /\ p \notin cache
          /\ Shows(c, before)
          /\ StartTask(c, p)

\* downloadPhoto in a cell that waits for no task: answered from the cache, or
\* by a new task, until which the cell shows what it showed before.
downloadPhoto(c, p, before) ==
    /\ Source[p] = "remote"
    /\ imageDataTask[c] = NoTask
    /\ Accepts(c)
    /\ \/ /\ p \in cache
          /\ Shows(c, p)
          /\ UNCHANGED <<tasks, imageDataTask>>
       \/ /\ p \notin cache
          /\ Shows(c, before)
          /\ StartTask(c, p)

\* A local file is read at once; it may be missing, or no image.
showFile(c, p) ==
    /\ Source[p] = "local"
    /\ \/ Shows(c, p) /\ Misses(c, "none")
       \/ Shows(c, NoPhoto) /\ Misses(c, "noSource")

\* The cell stays as prepareForReuse left it: nothing to show, or
\* downloadPhoto found the task of the cell's last photo.
staysEmpty(c, p) ==
    /\ Shows(c, NoPhoto)
    /\ \/ Source[p] = "none" /\ Misses(c, "noSource")
       \/ Source[p] = "remote" /\ imageDataTask[c] # NoTask /\ Misses(c, "dropped")

\* collectionView(cellForItemAt:): dequeues a cell, which prepares it for
\* reuse, and configures it.
cellForItem(c, p) ==
    /\ Len(mainQueue) < MaxBlocks
    /\ photo' = [photo EXCEPT ![c] = p]
    /\ \/ downloadPhoto(c, p, NoPhoto)
       \/ /\ showFile(c, p) \/ staysEmpty(c, p)
          /\ isCancelled' = [isCancelled EXCEPT ![c] = CancelledFlag(c)]
          /\ tasks' = CancelledTasks(c)
          /\ UNCHANGED imageDataTask
    /\ overtaken' = IF Finished(c) THEN overtaken \cup {c} ELSE overtaken \ {c}
    /\ UNCHANGED <<cache, mainQueue>>

\* A visible cell is configured again with its own photo, not prepared for
\* reuse: updateItemWithId, updateFavoriteForDownloads, updateFavoriteForFav.
\* Only what changes something is an alternative here.
configureAgain(c) ==
    /\ photo[c] # NoPhoto
    /\ Len(mainQueue) < MaxBlocks
    /\ \/ downloadPhoto(c, photo[c], image[c])
       \/ showFile(c, photo[c]) /\ UNCHANGED <<isCancelled, tasks, imageDataTask>>
    /\ overtaken' = IF Finished(c) THEN overtaken \cup {c} ELSE overtaken
    /\ UNCHANGED <<photo, cache, mainQueue>>

\* The completion downloadImage(with:) gave to downloadPhoto
runBlock ==
    /\ mainQueue # <<>>
    /\ LET b == Head(mainQueue)
       IN  image' = IF isCancelled[b.cell] THEN image ELSE [image EXCEPT ![b.cell] = b.photo]
    /\ mainQueue' = Tail(mainQueue)
    /\ UNCHANGED <<photo, downloader, tasks, cache, missed, overtaken>>

----------------------------------------------------------------------------
\* The network.
transferEnds(t) ==
    /\ tasks[t].state = "running"
    /\ \E s \in {"received", "failed"} : tasks' = [tasks EXCEPT ![t].state = s]
    /\ UNCHANGED <<photo, image, downloader, cache, mainQueue, missed, overtaken>>

\* The handler of a data task: a failure, or data that is not an image, ends
\* it there.
handle(t) ==
    /\ tasks[t].state \in {"received", "failed"}
    /\ LET c == tasks[t].cell
       IN  /\ imageDataTask' = [imageDataTask EXCEPT ![c] = NoTask]
           /\ \/ /\ tasks[t].state = "received"
                 /\ tasks' = [tasks EXCEPT ![t].state = "decoded"]
                 /\ UNCHANGED missed
              \/ /\ tasks' = [tasks EXCEPT ![t] = Unused]
                 /\ missed' = IF isCancelled[c] THEN missed ELSE [missed EXCEPT ![c] = "failed"]
    /\ UNCHANGED <<photo, image, isCancelled, cache, mainQueue, overtaken>>

\* Mutant: does not give the image to the main queue.
post_storedOnly(t) ==
    /\ tasks[t].state = "decoded"
    /\ cache' = cache \cup {tasks[t].photo}
    /\ tasks' = [tasks EXCEPT ![t] = Unused]
    /\ UNCHANGED <<photo, image, downloader, mainQueue, missed, overtaken>>

\* It stores the response and posts the image.
post(t) ==
    /\ tasks[t].state = "decoded"
    /\ cache' = cache \cup {tasks[t].photo}
    /\ mainQueue' = Append(mainQueue, [cell |-> tasks[t].cell, photo |-> tasks[t].photo])
    /\ tasks' = [tasks EXCEPT ![t] = Unused]
    /\ UNCHANGED <<photo, image, downloader, missed, overtaken>>

\* ImageCache is a URLCache of limited capacity.
evict ==
    /\ \E p \in cache : cache' = cache \ {p}
    /\ UNCHANGED <<photo, image, downloader, tasks, mainQueue, missed, overtaken>>

----------------------------------------------------------------------------
Work(t) == transferEnds(t) \/ handle(t) \/ post(t)

Next ==
    \/ \E c \in Cells : configureAgain(c) \/ \E p \in Photos : cellForItem(c, p)
    \/ runBlock
    \/ \E t \in Tasks : Work(t)
    \/ evict

Spec == Init /\ [][Next]_vars

\* The main queue and the session's queue run what they are given, and a data
\* task ends, by its time-out at the latest.
FairSpec == Spec /\ WF_vars(runBlock) /\ \A t \in Tasks : WF_vars(Work(t))

----------------------------------------------------------------------------
\* The type invariant of the cells and their downloads.
TypeOK ==
    /\ photo \in [Cells -> Photos \cup {NoPhoto}]
    /\ image \in [Cells -> Photos \cup {NoPhoto}]
    /\ imageDataTask \in [Cells -> Tasks \cup {NoTask}]
    /\ isCancelled \in [Cells -> BOOLEAN]
    /\ tasks \in [Tasks -> Task]
    /\ cache \subseteq Photos
    /\ mainQueue \in Seq(Block)
    /\ missed \in [Cells -> Missed]
    /\ overtaken \subseteq Cells

Busy(t) == tasks[t].state \in {"running", "received", "failed"}

\* However fast cells are recycled, a cell waits for one task at a time, and
\* imageDataTask is that task: a handler never lets go of another's.
OneTaskPerCell ==
    \A t \in Tasks : Busy(t) <=> tasks[t].cell \in Cells /\ imageDataTask[tasks[t].cell] = t

\* The image of the cell's photo is on its way and will not be ignored.
OnItsWay(c) ==
    /\ ~isCancelled[c]
    /\ \/ \E t \in Tasks : /\ tasks[t].state \in {"running", "received", "failed", "decoded"}
                           /\ tasks[t].cell = c /\ tasks[t].photo = photo[c]
       \/ \E i \in DOMAIN mainQueue : mainQueue[i] = [cell |-> c, photo |-> photo[c]]

\* A cell stays empty only while its image is on its way, or when the code
\* gave the photo up: its task failed, it has no source, or the cell was
\* recycled before the handler of its last task had run.
EmptyCellHasReason ==
    \A c \in Cells :
        photo[c] # NoPhoto /\ image[c] = NoPhoto => OnItsWay(c) \/ missed[c] # "none"

\* A cell shows another photo's image only if it was recycled when that image
\* had been fetched but not shown yet: the next photo's download took
\* isCancelled down before the completion looked at it.
WrongImageHasReason ==
    \A c \in Cells : image[c] \in {NoPhoto, photo[c]} \/ c \in overtaken

\* The image on its way arrives and, if it was not the cell's last word,
\* replaces whatever the cell shows, unless its task fails or the cell is
\* recycled.
ImageArrives ==
    \A c \in Cells, p \in Photos :
        (photo[c] = p /\ OnItsWay(c)) ~> (image[c] = p \/ photo[c] # p \/ missed[c] # "none")
==============================================================================
