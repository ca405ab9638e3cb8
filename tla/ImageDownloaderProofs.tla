----------------------- MODULE ImageDownloaderProofs -----------------------
(***************************************************************************)
(* Proofs, for any number of cells, photos and tasks, of the invariants    *)
(* ImageDownloader.cfg model-checks.  Bookkeeping says whose task a task   *)
(* is; LateImages says which of the images still on their way the cell     *)
(* would refuse.                                                           *)
(***************************************************************************)
EXTENDS ImageDownloader, TLAPS

\* A cell's task is one of its own that has not called back, and only cells
\* that have been configured have tasks.
Bookkeeping ==
    /\ \A c \in Cells : imageDataTask[c] # NoTask =>
          Busy(imageDataTask[c]) /\ tasks[imageDataTask[c]].cell = c
    /\ \A t \in Tasks : tasks[t].state # "unused" =>
          /\ tasks[t].cell \in Cells /\ tasks[t].photo \in Photos
          /\ photo[tasks[t].cell] # NoPhoto

Typed == TypeOK /\ OneTaskPerCell /\ Bookkeeping

----------------------------------------------------------------------------
\* The first block of a queue and the blocks behind it.
LEMMA QueueHead ==
    ASSUME NEW S, NEW q \in Seq(S), q # <<>>
    PROVE  /\ 1 \in DOMAIN q /\ Head(q) = q[1] /\ q[1] \in S
           /\ \A i \in DOMAIN Tail(q) : i + 1 \in DOMAIN q /\ Tail(q)[i] = q[i + 1]
           /\ \A i \in DOMAIN q : i = 1 \/ i - 1 \in DOMAIN Tail(q)
  OBVIOUS

LEMMA TypedInit == Init => Typed
<1> USE ImageConstants DEF Init, Unused
<1>1. Init => TypeOK
  BY DEF TypeOK, Task, TaskState, Missed
<1>2. Init => OneTaskPerCell /\ Bookkeeping
  BY DEF OneTaskPerCell, Bookkeeping, Busy
<1>. QED
  BY <1>1, <1>2 DEF Typed

\* Nothing of the tasks has changed but what a cell that is recycled cancels.
LEMMA CancelledTasksTyped ==
    ASSUME Typed, NEW c \in Cells
    PROVE  /\ CancelledTasks(c) \in [Tasks -> Task]
           /\ \A t \in Tasks :
                /\ CancelledTasks(c)[t].cell = tasks[t].cell
                /\ CancelledTasks(c)[t].photo = tasks[t].photo
                /\ \/ CancelledTasks(c)[t].state = tasks[t].state
                   \/ tasks[t].state = "running" /\ CancelledTasks(c)[t].state = "failed"
<1>1. \A t \in Tasks : tasks[t] \in Task
  BY DEF Typed, TypeOK
<1>2. \A k \in Task : /\ [k EXCEPT !.state = "failed"] \in Task
                      /\ [k EXCEPT !.state = "failed"].state = "failed"
                      /\ [k EXCEPT !.state = "failed"].cell = k.cell
                      /\ [k EXCEPT !.state = "failed"].photo = k.photo
  BY DEF Task, TaskState
<1>. QED
  BY <1>1, <1>2 DEF CancelledTasks

\* An action of a cell leaves the types alone, starts a task for it or cancels
\* the one it has.
LEMMA DownloadTyped ==
    ASSUME Typed, NEW c \in Cells, NEW p \in Photos, NEW q \in Photos \cup {NoPhoto},
           downloadPhoto(c, p, q)
    PROVE  /\ image' \in [Cells -> Photos \cup {NoPhoto}]
           /\ imageDataTask' \in [Cells -> Tasks \cup {NoTask}]
           /\ isCancelled' = [isCancelled EXCEPT ![c] = FALSE]
           /\ isCancelled' \in [Cells -> BOOLEAN]
           /\ missed' \in [Cells -> Missed]
           /\ tasks' \in [Tasks -> Task]
           /\ photo' \in [Cells -> Photos \cup {NoPhoto}] /\ photo'[c] # NoPhoto
              /\ (\A d \in Cells : photo[d] # NoPhoto => photo'[d] # NoPhoto)
              => OneTaskPerCell' /\ Bookkeeping'
<1> USE ImageConstants
<1>1. /\ isCancelled' = [isCancelled EXCEPT ![c] = FALSE]
      /\ missed' = [missed EXCEPT ![c] = "none"]
      /\ imageDataTask[c] = NoTask
  BY DEF downloadPhoto, Accepts, Misses
<1>2. isCancelled' \in [Cells -> BOOLEAN] /\ missed' \in [Cells -> Missed]
  BY <1>1 DEF Typed, TypeOK, Missed
<1>3. CASE UNCHANGED <<tasks, imageDataTask>>
  <2>1. \E r \in Photos \cup {NoPhoto} : image' = [image EXCEPT ![c] = r]
    BY DEF downloadPhoto, Shows
  <2>2. image' \in [Cells -> Photos \cup {NoPhoto}]
    BY <2>1 DEF Typed, TypeOK
  <2>. QED
    BY <1>1, <1>2, <1>3, <2>2 DEF Typed, TypeOK, OneTaskPerCell, Bookkeeping, Busy
<1>4. CASE StartTask(c, p) /\ image' = [image EXCEPT ![c] = q]
  <2>1. PICK t \in Tasks :
          /\ tasks[t] = Unused
          /\ tasks' = [tasks EXCEPT ![t] = [state |-> "running", cell |-> c, photo |-> p]]
          /\ imageDataTask' = [imageDataTask EXCEPT ![c] = t]
    BY <1>4 DEF StartTask
  <2>2. [state |-> "running", cell |-> c, photo |-> p] \in Task
    BY DEF Task, TaskState
  <2>3. /\ tasks' \in [Tasks -> Task]
        /\ imageDataTask' \in [Cells -> Tasks \cup {NoTask}]
        /\ image' \in [Cells -> Photos \cup {NoPhoto}]
    BY <1>4, <2>1, <2>2 DEF Typed, TypeOK
  <2>4. /\ tasks'[t] = [state |-> "running", cell |-> c, photo |-> p]
        /\ \A s \in Tasks \ {t} : tasks'[s] = tasks[s]
        /\ imageDataTask'[c] = t
        /\ \A d \in Cells \ {c} : imageDataTask'[d] = imageDataTask[d]
    BY <2>1 DEF Typed, TypeOK
  <2>5. ~Busy(t) /\ \A d \in Cells : imageDataTask[d] # t
    BY <2>1 DEF Typed, Bookkeeping, Busy, Unused
  <2>6. OneTaskPerCell'
    BY <1>1, <2>4, <2>5 DEF Typed, OneTaskPerCell, Busy
  <2>7. photo'[c] # NoPhoto /\ (\A d \in Cells : photo[d] # NoPhoto => photo'[d] # NoPhoto)
        => Bookkeeping'
    BY <2>4, <2>5 DEF Typed, TypeOK, Bookkeeping, Busy
  <2>. QED
    BY <1>1, <1>2, <2>3, <2>6, <2>7
<1>. QED
  BY <1>3, <1>4 DEF downloadPhoto, Shows

LEMMA FileTyped ==
    ASSUME Typed, NEW c \in Cells, NEW p \in Photos, showFile(c, p) \/ staysEmpty(c, p)
    PROVE  image' \in [Cells -> Photos \cup {NoPhoto}] /\ missed' \in [Cells -> Missed]
<1>1. \E r \in Photos \cup {NoPhoto} : image' = [image EXCEPT ![c] = r]
  BY DEF showFile, staysEmpty, Shows
<1>2. \E m \in Missed : missed' = [missed EXCEPT ![c] = m]
  BY DEF showFile, staysEmpty, Misses, Missed
<1>. QED
  BY <1>1, <1>2 DEF Typed, TypeOK

LEMMA TypedNext == Typed /\ [Next]_vars => Typed'
<1> SUFFICES ASSUME Typed, [Next]_vars PROVE Typed'
  OBVIOUS
<1> USE ImageConstants
<1>1. ASSUME NEW c \in Cells, NEW p \in Photos, cellForItem(c, p) PROVE Typed'
  <2>1. /\ photo' = [photo EXCEPT ![c] = p]
        /\ photo' \in [Cells -> Photos \cup {NoPhoto}]
        /\ photo'[c] # NoPhoto
        /\ \A d \in Cells : photo[d] # NoPhoto => photo'[d] # NoPhoto
    BY <1>1 DEF cellForItem, Typed, TypeOK
  <2>2. UNCHANGED <<cache, mainQueue>> /\ overtaken' \subseteq Cells
    BY <1>1 DEF cellForItem, Typed, TypeOK
  <2>3. CASE downloadPhoto(c, p, NoPhoto)
    BY <2>1, <2>2, <2>3, DownloadTyped DEF Typed, TypeOK
  <2>4. CASE /\ showFile(c, p) \/ staysEmpty(c, p)
             /\ isCancelled' = [isCancelled EXCEPT ![c] = CancelledFlag(c)]
             /\ tasks' = CancelledTasks(c)
             /\ UNCHANGED imageDataTask
    <3>1. image' \in [Cells -> Photos \cup {NoPhoto}] /\ missed' \in [Cells -> Missed]
      BY <2>4, FileTyped
    <3>2. isCancelled' \in [Cells -> BOOLEAN]
      BY <2>4 DEF Typed, TypeOK, CancelledFlag
    <3>3. /\ tasks' \in [Tasks -> Task]
          /\ \A t \in Tasks :
                /\ tasks'[t].cell = tasks[t].cell
                /\ tasks'[t].photo = tasks[t].photo
                /\ \/ tasks'[t].state = tasks[t].state
                   \/ tasks[t].state = "running" /\ tasks'[t].state = "failed"
      BY <2>4, CancelledTasksTyped
    <3>4. TypeOK'
      BY <2>1, <2>2, <2>4, <3>1, <3>2, <3>3 DEF Typed, TypeOK
    <3>5. \A t \in Tasks : Busy(t)' <=> Busy(t)
      BY <3>3 DEF Busy
    <3>6. OneTaskPerCell'
      BY <2>4, <3>3, <3>5 DEF Typed, OneTaskPerCell
    <3>7. \A t \in Tasks : tasks'[t].state # "unused" => tasks[t].state # "unused"
      BY <3>3
    <3>8. Bookkeeping'
      BY <2>1, <2>4, <3>3, <3>5, <3>7 DEF Typed, TypeOK, Bookkeeping
    <3>. QED
      BY <3>4, <3>6, <3>8 DEF Typed
  <2>. QED
    BY <1>1, <2>3, <2>4 DEF cellForItem
<1>2. ASSUME NEW c \in Cells, configureAgain(c) PROVE Typed'
  <2>1. /\ UNCHANGED <<photo, cache, mainQueue>> /\ overtaken' \subseteq Cells
        /\ photo[c] \in Photos /\ photo[c] # NoPhoto
        /\ image[c] \in Photos \cup {NoPhoto}
    BY <1>2 DEF configureAgain, Typed, TypeOK
  <2>2. CASE downloadPhoto(c, photo[c], image[c])
    BY <2>1, <2>2, DownloadTyped DEF Typed, TypeOK
  <2>3. CASE showFile(c, photo[c]) /\ UNCHANGED <<isCancelled, tasks, imageDataTask>>
    BY <2>1, <2>3, FileTyped DEF Typed, TypeOK, OneTaskPerCell, Bookkeeping, Busy
  <2>. QED
    BY <1>2, <2>2, <2>3 DEF configureAgain
<1>3. ASSUME runBlock PROVE Typed'
  <2>1. mainQueue # <<>> /\ Head(mainQueue) \in Block /\ mainQueue' \in Seq(Block)
    BY <1>3 DEF runBlock, Typed, TypeOK
  <2>2. Head(mainQueue).photo \in Photos
    BY <2>1 DEF Block
  <2>3. image' \in [Cells -> Photos \cup {NoPhoto}]
    BY <1>3, <2>2 DEF runBlock, Typed, TypeOK
  <2>. QED
    BY <1>3, <2>1, <2>3
       DEF runBlock, downloader, Typed, TypeOK, OneTaskPerCell, Bookkeeping, Busy
<1>4. ASSUME NEW t \in Tasks, transferEnds(t) PROVE Typed'
  <2>1. PICK s \in {"received", "failed"} : tasks' = [tasks EXCEPT ![t].state = s]
    BY <1>4 DEF transferEnds
  <2>2. tasks[t] \in Task
    BY DEF Typed, TypeOK
  <2>3. /\ tasks' \in [Tasks -> Task]
        /\ tasks'[t].state = s /\ tasks'[t].cell = tasks[t].cell /\ tasks'[t].photo = tasks[t].photo
        /\ \A u \in Tasks \ {t} : tasks'[u] = tasks[u]
    BY <2>1, <2>2 DEF Typed, TypeOK, Task, TaskState
  <2>4. /\ UNCHANGED <<photo, image, imageDataTask, isCancelled, cache, mainQueue, missed, overtaken>>
        /\ tasks[t].state = "running"
    BY <1>4 DEF transferEnds, downloader
  <2>5. \A u \in Tasks : Busy(u)' <=> Busy(u)
    BY <2>3, <2>4 DEF Busy
  <2>6. OneTaskPerCell' /\ Bookkeeping'
    BY <2>3, <2>4, <2>5 DEF Typed, TypeOK, OneTaskPerCell, Bookkeeping
  <2>. QED
    BY <2>3, <2>4, <2>6 DEF Typed, TypeOK
<1>5. ASSUME NEW t \in Tasks, handle(t) PROVE Typed'
  <2> DEFINE c == tasks[t].cell
  <2>1. /\ Busy(t) /\ c \in Cells /\ imageDataTask[c] = t
        /\ tasks[t] \in Task
        /\ imageDataTask' = [imageDataTask EXCEPT ![c] = NoTask]
        /\ UNCHANGED <<photo, image, isCancelled, cache, mainQueue, overtaken>>
    BY <1>5 DEF handle, Typed, TypeOK, OneTaskPerCell, Busy
  <2>2. missed' = missed \/ missed' = [missed EXCEPT ![c] = "failed"]
    BY <1>5 DEF handle
  <2>3. /\ tasks' \in [Tasks -> Task]
        /\ \/ tasks'[t] = Unused
           \/ /\ tasks'[t].state = "decoded" /\ tasks'[t].cell = c
              /\ tasks'[t].photo = tasks[t].photo
        /\ \A u \in Tasks \ {t} : tasks'[u] = tasks[u]
    <3>1. \/ tasks' = [tasks EXCEPT ![t].state = "decoded"]
          \/ tasks' = [tasks EXCEPT ![t] = Unused]
      BY <1>5 DEF handle
    <3>2. Unused \in Task /\ [tasks[t] EXCEPT !.state = "decoded"] \in Task
      BY <2>1 DEF Unused, Task, TaskState
    <3>3. CASE tasks' = [tasks EXCEPT ![t].state = "decoded"]
      <4>1. tasks' = [tasks EXCEPT ![t] = [tasks[t] EXCEPT !.state = "decoded"]]
        BY <3>3
      <4>2. tasks'[t] = [tasks[t] EXCEPT !.state = "decoded"]
            /\ \A u \in Tasks \ {t} : tasks'[u] = tasks[u]
        BY <4>1 DEF Typed, TypeOK
      <4>3. tasks' \in [Tasks -> Task]
        BY <3>2, <4>1 DEF Typed, TypeOK
      <4>. QED
        BY <2>1, <4>2, <4>3 DEF Task
    <3>4. CASE tasks' = [tasks EXCEPT ![t] = Unused]
      BY <3>2, <3>4 DEF Typed, TypeOK
    <3>. QED
      BY <3>1, <3>3, <3>4
  <2>4. /\ imageDataTask' \in [Cells -> Tasks \cup {NoTask}]
        /\ missed' \in [Cells -> Missed]
        /\ imageDataTask'[c] = NoTask
        /\ \A d \in Cells \ {c} : imageDataTask'[d] = imageDataTask[d] /\ imageDataTask[d] # t
    BY <2>1, <2>2 DEF Typed, TypeOK, Bookkeeping, Missed
  <2>5. TypeOK'
    BY <2>1, <2>3, <2>4 DEF Typed, TypeOK
  <2>6. /\ ~Busy(t)' /\ \A u \in Tasks \ {t} : (Busy(u)' <=> Busy(u))
        /\ tasks'[t].cell \in Cells => tasks'[t].cell = c
    BY <2>3 DEF Busy, Unused
  <2>7. OneTaskPerCell'
    BY <2>1, <2>3, <2>4, <2>6 DEF Typed, OneTaskPerCell
  <2>8. Bookkeeping'
    BY <2>1, <2>3, <2>4, <2>6 DEF Typed, TypeOK, Bookkeeping, Unused, Busy
  <2>. QED
    BY <2>5, <2>7, <2>8 DEF Typed
<1>6. ASSUME NEW t \in Tasks, post(t) PROVE Typed'
  <2>1. /\ tasks[t].state = "decoded" /\ tasks[t] \in Task
        /\ tasks[t].cell \in Cells /\ tasks[t].photo \in Photos
        /\ tasks' = [tasks EXCEPT ![t] = Unused]
        /\ UNCHANGED <<photo, image, imageDataTask, isCancelled, missed, overtaken>>
    BY <1>6 DEF post, Typed, TypeOK, Bookkeeping, downloader
  <2>2. [cell |-> tasks[t].cell, photo |-> tasks[t].photo] \in Block
    BY <2>1 DEF Block
  <2>3. mainQueue' \in Seq(Block) /\ cache' \subseteq Photos
    BY <1>6, <2>1, <2>2 DEF post, Typed, TypeOK
  <2>4. Unused \in Task
    BY DEF Unused, Task, TaskState
  <2>5. tasks' \in [Tasks -> Task] /\ tasks'[t] = Unused
        /\ \A u \in Tasks \ {t} : tasks'[u] = tasks[u]
    BY <2>1, <2>4 DEF Typed, TypeOK
  <2>6. ~Busy(t) /\ \A u \in Tasks : (Busy(u)' <=> Busy(u))
    BY <2>1, <2>5 DEF Busy, Unused
  <2>7. OneTaskPerCell'
    BY <2>1, <2>5, <2>6 DEF Typed, OneTaskPerCell, Unused
  <2>8. Bookkeeping'
    BY <2>1, <2>5, <2>6 DEF Typed, TypeOK, Bookkeeping, Unused
  <2>. QED
    BY <2>1, <2>3, <2>5, <2>7, <2>8 DEF Typed, TypeOK
<1>7. ASSUME evict PROVE Typed'
  BY <1>7 DEF evict, downloader, Typed, TypeOK, OneTaskPerCell, Bookkeeping, Busy
<1>8. ASSUME UNCHANGED vars PROVE Typed'
  BY <1>8 DEF vars, downloader, Typed, TypeOK, OneTaskPerCell, Bookkeeping, Busy
<1>. QED
  BY <1>1, <1>2, <1>3, <1>4, <1>5, <1>6, <1>7, <1>8 DEF Next, Work

\* The type invariant of the cells and their downloads, and whose task each is.
THEOREM ImageTypes == Spec => []Typed
  BY TypedInit, TypedNext, PTL DEF Spec

\* OneTaskPerCell: a cell's imageDataTask is the only task that is fetching
\* for it, and its handler lets go of no other.
THEOREM CellsHaveOneTask == Spec => []OneTaskPerCell
<1>1. Typed => OneTaskPerCell
  BY DEF Typed
<1>. QED
  BY <1>1, ImageTypes, PTL

----------------------------------------------------------------------------
(* No wrong images *)

\* The images on their way to a cell are its photo's, unless the cell refuses
\* them or was recycled too late for that.
LateImages ==
    \A c \in Cells \ overtaken :
        \/ isCancelled[c]
        \/ /\ \A t \in Tasks : tasks[t].state # "unused" /\ tasks[t].cell = c
                                 => tasks[t].photo = photo[c]
           /\ \A i \in DOMAIN mainQueue : mainQueue[i].cell = c
                                          => mainQueue[i].photo = photo[c]

Shown == WrongImageHasReason /\ LateImages

\* What a cell still gets, if not an image that has been fetched, is by the task
\* it waits for.
LEMMA OnlyItsTask ==
    ASSUME Typed, NEW c \in Cells, ~Finished(c)
    PROVE  /\ \A t \in Tasks : tasks[t].state # "unused" /\ tasks[t].cell = c
                              => imageDataTask[c] = t /\ photo[c] # NoPhoto
           /\ \A i \in DOMAIN mainQueue : mainQueue[i].cell # c
<1>1. \A t \in Tasks : tasks[t].state # "unused" /\ tasks[t].cell = c
                      => Busy(t) /\ photo[c] # NoPhoto
  BY DEF Typed, TypeOK, Bookkeeping, Finished, Busy, Task, TaskState
<1>. QED
  BY <1>1 DEF Typed, OneTaskPerCell, Finished

\* What downloadPhoto does to the other cells, and to this one if no image is late.
LEMMA DownloadShown ==
    ASSUME Typed, NEW c \in Cells, NEW p \in Photos, NEW q \in Photos \cup {NoPhoto},
           downloadPhoto(c, p, q)
    PROVE  /\ image' = [image EXCEPT ![c] = p] \/ image' = [image EXCEPT ![c] = q]
           /\ \A d \in Cells \ {c} : isCancelled'[d] = isCancelled[d]
           /\ \A t \in Tasks : tasks'[t].state # "unused" =>
                 \/ tasks'[t] = tasks[t]
                 \/ tasks'[t].cell = c /\ tasks'[t].photo = p
           /\ ~Finished(c) => \A t \in Tasks :
                 tasks'[t].state # "unused" /\ tasks'[t].cell = c => tasks'[t].photo = p
<1>1. /\ image' = [image EXCEPT ![c] = p] \/ image' = [image EXCEPT ![c] = q]
      /\ isCancelled' = [isCancelled EXCEPT ![c] = FALSE]
      /\ imageDataTask[c] = NoTask
  BY DEF downloadPhoto, Shows, Accepts
<1>2. \A t \in Tasks : tasks'[t].state # "unused" =>
         \/ tasks'[t] = tasks[t]
         \/ tasks'[t].cell = c /\ tasks'[t].photo = p
  <2>1. CASE UNCHANGED tasks
    BY <2>1
  <2>2. CASE StartTask(c, p)
    BY <2>2 DEF StartTask, Typed, TypeOK
  <2>. QED
    BY <2>1, <2>2 DEF downloadPhoto
<1>3. ~Finished(c) => \A t \in Tasks : ~(tasks[t].state # "unused" /\ tasks[t].cell = c)
  BY <1>1, OnlyItsTask, ImageConstants
<1>. QED
  BY <1>1, <1>2, <1>3 DEF Typed, TypeOK

LEMMA ShownNext == Shown /\ Typed /\ [Next]_vars => Shown'
<1> SUFFICES ASSUME Shown, Typed, [Next]_vars PROVE Shown'
  OBVIOUS
<1>1. ASSUME NEW c \in Cells, NEW p \in Photos, cellForItem(c, p) PROVE Shown'
  <2>1. /\ photo'[c] = p /\ \A d \in Cells \ {c} : photo'[d] = photo[d]
        /\ mainQueue' = mainQueue
        /\ Finished(c) => c \in overtaken'
        /\ \A d \in Cells \ {c} : d \in overtaken' <=> d \in overtaken
    BY <1>1 DEF cellForItem, Typed, TypeOK
  <2>2. /\ image'[c] \in {NoPhoto, p}
        /\ \A d \in Cells \ {c} : image'[d] = image[d]
    BY <1>1, DownloadShown DEF cellForItem, showFile, staysEmpty, Shows, Typed, TypeOK
  <2>3. WrongImageHasReason'
    BY <2>1, <2>2 DEF Shown, WrongImageHasReason
  <2>4. CASE downloadPhoto(c, p, NoPhoto)
    BY <2>1, <2>3, <2>4, DownloadShown, OnlyItsTask DEF Shown, LateImages
  <2>5. CASE /\ isCancelled' = [isCancelled EXCEPT ![c] = CancelledFlag(c)]
             /\ tasks' = CancelledTasks(c)
    <3>1. \A t \in Tasks :
            /\ tasks'[t].cell = tasks[t].cell
            /\ tasks'[t].photo = tasks[t].photo
            /\ tasks'[t].state # "unused" => tasks[t].state # "unused"
      BY <2>5, CancelledTasksTyped
    <3>2. /\ isCancelled'[c] = (photo[c] # NoPhoto)
          /\ \A d \in Cells \ {c} : isCancelled'[d] = isCancelled[d]
      BY <2>5 DEF CancelledFlag, Typed, TypeOK
    <3>3. ASSUME c \notin overtaken', ~isCancelled'[c]
          PROVE  /\ \A t \in Tasks : tasks'[t].state # "unused" => tasks'[t].cell # c
                 /\ \A i \in DOMAIN mainQueue : mainQueue[i].cell # c
      <4>1. ~Finished(c) /\ photo[c] = NoPhoto
        BY <2>1, <3>2, <3>3
      <4>2. /\ \A t \in Tasks : tasks[t].state # "unused" => tasks[t].cell # c
            /\ \A i \in DOMAIN mainQueue : mainQueue[i].cell # c
        BY <4>1, OnlyItsTask
      <4>. QED
        BY <3>1, <4>2
    <3>4. \A d \in Cells \ {c} : d \notin overtaken' /\ ~isCancelled'[d] =>
            /\ \A t \in Tasks : tasks'[t].state # "unused" /\ tasks'[t].cell = d
                              => tasks'[t].photo = photo'[d]
            /\ \A i \in DOMAIN mainQueue : mainQueue[i].cell = d
                                           => mainQueue[i].photo = photo'[d]
      BY <2>1, <3>1, <3>2 DEF Shown, LateImages
    <3>. QED
      BY <2>1, <2>3, <3>3, <3>4 DEF Shown, LateImages
  <2>. QED
    BY <1>1, <2>4, <2>5 DEF cellForItem
<1>2. ASSUME NEW c \in Cells, configureAgain(c) PROVE Shown'
  <2>1. /\ photo' = photo /\ mainQueue' = mainQueue
        /\ photo[c] \in Photos /\ image[c] \in Photos \cup {NoPhoto}
        /\ Finished(c) => c \in overtaken'
        /\ overtaken \subseteq overtaken'
        /\ \A d \in Cells \ {c} : d \in overtaken' <=> d \in overtaken
    BY <1>2 DEF configureAgain, Typed, TypeOK
  <2>2. /\ image'[c] \in {NoPhoto, photo[c], image[c]}
        /\ \A d \in Cells \ {c} : image'[d] = image[d]
    BY <1>2, <2>1, DownloadShown DEF configureAgain, showFile, Shows, Typed, TypeOK
  <2>3. WrongImageHasReason'
    BY <2>1, <2>2 DEF Shown, WrongImageHasReason
  <2>4. CASE downloadPhoto(c, photo[c], image[c])
    BY <2>1, <2>3, <2>4, DownloadShown, OnlyItsTask DEF Shown, LateImages
  <2>5. CASE UNCHANGED <<isCancelled, tasks>>
    BY <2>1, <2>3, <2>5 DEF Shown, LateImages
  <2>. QED
    BY <1>2, <2>4, <2>5 DEF configureAgain
<1>3. ASSUME runBlock PROVE Shown'
  <2> DEFINE b == Head(mainQueue)
  <2>1. /\ mainQueue \in Seq(Block) /\ mainQueue # <<>>
        /\ mainQueue' = Tail(mainQueue)
        /\ UNCHANGED <<photo, isCancelled, tasks, overtaken>>
        /\ image' = IF isCancelled[b.cell] THEN image ELSE [image EXCEPT ![b.cell] = b.photo]
    BY <1>3 DEF runBlock, downloader, Typed, TypeOK
  <2>2. /\ 1 \in DOMAIN mainQueue /\ b = mainQueue[1] /\ b \in Block
        /\ \A i \in DOMAIN mainQueue' :
              i + 1 \in DOMAIN mainQueue /\ mainQueue'[i] = mainQueue[i + 1]
    BY <2>1, QueueHead
  <2>3. b.cell \in Cells
    BY <2>2 DEF Block
  <2>4. LateImages'
    BY <2>1, <2>2 DEF Shown, LateImages
  <2>5. WrongImageHasReason'
    BY <2>1, <2>2, <2>3 DEF Shown, LateImages, WrongImageHasReason, Typed, TypeOK
  <2>. QED
    BY <2>4, <2>5 DEF Shown
<1>4. ASSUME NEW t \in Tasks, transferEnds(t) PROVE Shown'
  <2>1. /\ UNCHANGED <<photo, image, isCancelled, mainQueue, overtaken>>
        /\ \A u \in Tasks : tasks'[u].state # "unused" =>
              /\ tasks'[u].cell = tasks[u].cell /\ tasks'[u].photo = tasks[u].photo
              /\ tasks[u].state # "unused"
    BY <1>4 DEF transferEnds, downloader, Typed, TypeOK, Task
  <2>. QED
    BY <2>1 DEF Shown, LateImages, WrongImageHasReason
<1>5. ASSUME NEW t \in Tasks, handle(t) PROVE Shown'
  <2>1. UNCHANGED <<photo, image, isCancelled, mainQueue, overtaken>>
    BY <1>5 DEF handle
  <2>2. \/ tasks[t].state = "received" /\ tasks' = [tasks EXCEPT ![t].state = "decoded"]
        \/ tasks' = [tasks EXCEPT ![t] = Unused]
    BY <1>5 DEF handle
  <2>3. \A u \in Tasks : tasks'[u].state # "unused" =>
           /\ tasks'[u].cell = tasks[u].cell /\ tasks'[u].photo = tasks[u].photo
           /\ tasks[u].state # "unused"
    BY <2>2 DEF Unused, Typed, TypeOK, Task
  <2>. QED
    BY <2>1, <2>3 DEF Shown, LateImages, WrongImageHasReason
<1>6. ASSUME NEW t \in Tasks, post(t) PROVE Shown'
  <2>1. /\ UNCHANGED <<photo, image, isCancelled, overtaken>>
        /\ tasks[t].state = "decoded" /\ tasks[t].cell \in Cells /\ tasks[t].photo \in Photos
        /\ mainQueue \in Seq(Block)
        /\ mainQueue' = Append(mainQueue, [cell |-> tasks[t].cell, photo |-> tasks[t].photo])
    BY <1>6 DEF post, downloader, Typed, TypeOK, Bookkeeping
  <2>2. \A u \in Tasks : tasks'[u].state # "unused" => tasks'[u] = tasks[u]
    BY <1>6 DEF post, Unused, Typed, TypeOK
  <2>3. \A i \in DOMAIN mainQueue' :
           \/ i \in DOMAIN mainQueue /\ mainQueue'[i] = mainQueue[i]
           \/ mainQueue'[i].cell = tasks[t].cell /\ mainQueue'[i].photo = tasks[t].photo
    BY <2>1
  <2>. QED
    BY <2>1, <2>2, <2>3 DEF Shown, LateImages, WrongImageHasReason
<1>7. ASSUME evict \/ UNCHANGED vars PROVE Shown'
  BY <1>7 DEF evict, vars, downloader, Shown, LateImages, WrongImageHasReason
<1>. QED
  BY <1>1, <1>2, <1>3, <1>4, <1>5, <1>6, <1>7 DEF Next, Work

\* WrongImageHasReason: a cell shows another photo's image only if it was
\* recycled between the end of the download and the block that shows it.
THEOREM WrongImagesAreLate == Spec => []WrongImageHasReason
<1>1. Init => Shown
  BY DEF Init, Shown, LateImages, WrongImageHasReason, Unused
<1>2. Spec => []Shown
  BY <1>1, ShownNext, ImageTypes, PTL DEF Spec
<1>3. Shown => WrongImageHasReason
  BY DEF Shown
<1>. QED
  BY <1>2, <1>3, PTL

----------------------------------------------------------------------------
(* No empty cells *)

\* An image stays on its way to a cell that nothing happens to: its task goes
\* from state to state.
Carried(c) ==
    \A t \in Tasks :
        tasks[t].state # "unused" /\ tasks[t].cell = c =>
            /\ tasks'[t].state # "unused"
            /\ tasks'[t].cell = c /\ tasks'[t].photo = tasks[t].photo

\* OnItsWay, without the names of the states.
LEMMA OnItsWayMeaning ==
    ASSUME Typed, NEW c \in Cells
    PROVE  OnItsWay(c) <=>
             /\ ~isCancelled[c]
             /\ \/ \E t \in Tasks : /\ tasks[t].state # "unused"
                                    /\ tasks[t].cell = c /\ tasks[t].photo = photo[c]
                \/ \E i \in DOMAIN mainQueue : mainQueue[i] = [cell |-> c, photo |-> photo[c]]
  BY DEF OnItsWay, Typed, TypeOK, Task, TaskState

LEMMA OnItsWayMeaningNext ==
    ASSUME Typed', NEW c \in Cells
    PROVE  OnItsWay(c)' <=>
             /\ ~isCancelled'[c]
             /\ \/ \E t \in Tasks : /\ tasks'[t].state # "unused"
                                    /\ tasks'[t].cell = c /\ tasks'[t].photo = photo'[c]
                \/ \E i \in DOMAIN mainQueue' : mainQueue'[i] = [cell |-> c, photo |-> photo'[c]]
  BY DEF OnItsWay, Typed, TypeOK, Task, TaskState

\* A step that leaves a cell alone leaves it as well off as it was.
LEMMA CellLeftAlone ==
    ASSUME Typed, Typed', EmptyCellHasReason, NEW c \in Cells, Carried(c),
           photo'[c] = photo[c], image'[c] = image[c], missed'[c] = missed[c],
           isCancelled'[c] = isCancelled[c], mainQueue' = mainQueue
    PROVE  photo'[c] # NoPhoto /\ image'[c] = NoPhoto => OnItsWay(c)' \/ missed'[c] # "none"
  BY ZenonT(30), OnItsWayMeaning, OnItsWayMeaningNext DEF EmptyCellHasReason, Carried

\* downloadPhoto shows the image, or a task is on its way with it.
LEMMA DownloadHasReason ==
    ASSUME Typed, Typed', NEW c \in Cells, NEW p \in Photos, NEW q \in Photos \cup {NoPhoto},
           downloadPhoto(c, p, q), photo'[c] = p
    PROVE  image'[c] = NoPhoto => OnItsWay(c)'
<1>1. isCancelled'[c] = FALSE
  BY DEF downloadPhoto, Accepts, Typed, TypeOK
<1>2. CASE Shows(c, p)
  BY <1>2, ImageConstants DEF Shows, Typed, TypeOK
<1>3. CASE StartTask(c, p)
  <2>1. PICK t \in Tasks :
          tasks' = [tasks EXCEPT ![t] = [state |-> "running", cell |-> c, photo |-> p]]
    BY <1>3 DEF StartTask
  <2>2. tasks'[t] = [state |-> "running", cell |-> c, photo |-> p]
    BY <2>1 DEF Typed, TypeOK
  <2>. QED
    BY <1>1, <2>2, OnItsWayMeaningNext
<1>. QED
  BY <1>2, <1>3 DEF downloadPhoto

\* What is done to one cell leaves the tasks of the others alone.
LEMMA OthersCarried ==
    ASSUME Typed, NEW c \in Cells,
           \/ tasks' = tasks
           \/ tasks' = CancelledTasks(c)
           \/ \E p \in Photos : StartTask(c, p)
    PROVE  \A d \in Cells \ {c} : Carried(d)
<1>1. CASE tasks' = tasks
  BY <1>1 DEF Carried
<1>2. CASE tasks' = CancelledTasks(c)
  <2>1. \A t \in Tasks : /\ tasks'[t].cell = tasks[t].cell
                         /\ tasks'[t].photo = tasks[t].photo
                         /\ (tasks[t].state # "unused" => tasks'[t].state # "unused")
    BY <1>2, CancelledTasksTyped
  <2>. QED
    BY <2>1 DEF Carried
<1>3. ASSUME NEW p \in Photos, StartTask(c, p) PROVE \A d \in Cells \ {c} : Carried(d)
  <2>1. PICK t \in Tasks :
          /\ tasks[t] = Unused
          /\ tasks' = [tasks EXCEPT ![t] = [state |-> "running", cell |-> c, photo |-> p]]
    BY <1>3 DEF StartTask
  <2>2. tasks[t].state = "unused" /\ \A u \in Tasks \ {t} : tasks'[u] = tasks[u]
    BY <2>1 DEF Unused, Typed, TypeOK
  <2>. QED
    BY <2>2 DEF Carried
<1>. QED
  BY <1>1, <1>2, <1>3

LEMMA EmptyNext == EmptyCellHasReason /\ Typed /\ [Next]_vars => EmptyCellHasReason'
<1> SUFFICES ASSUME EmptyCellHasReason, Typed, Typed', [Next]_vars,
                    NEW d \in Cells, photo'[d] # NoPhoto, image'[d] = NoPhoto
             PROVE  OnItsWay(d)' \/ missed'[d] # "none"
  BY TypedNext DEF EmptyCellHasReason
<1> USE DEF Typed
<1>1. ASSUME NEW c \in Cells, NEW p \in Photos, cellForItem(c, p)
      PROVE  OnItsWay(d)' \/ missed'[d] # "none"
  <2>1. photo' = [photo EXCEPT ![c] = p] /\ mainQueue' = mainQueue
    BY <1>1 DEF cellForItem
  <2>2. CASE d = c
    <3>1. CASE downloadPhoto(c, p, NoPhoto)
      BY <2>1, <2>2, <3>1, DownloadHasReason DEF TypeOK
    <3>2. CASE showFile(c, p) \/ staysEmpty(c, p)
      BY <2>2, <3>2, ImageConstants DEF showFile, staysEmpty, Shows, Misses, TypeOK
    <3>. QED
      BY <1>1, <3>1, <3>2 DEF cellForItem
  <2>3. CASE d # c
    <3>1. /\ photo'[d] = photo[d] /\ image'[d] = image[d]
          /\ missed'[d] = missed[d] /\ isCancelled'[d] = isCancelled[d]
      BY <1>1, <2>1, <2>3
         DEF cellForItem, downloadPhoto, showFile, staysEmpty, Shows, Misses, Accepts, TypeOK
    <3>2. Carried(d)
      BY <1>1, <2>3, OthersCarried DEF cellForItem, downloadPhoto
    <3>. QED
      BY <2>1, <3>1, <3>2, CellLeftAlone
  <2>. QED
    BY <2>2, <2>3
<1>2. ASSUME NEW c \in Cells, configureAgain(c)
      PROVE  OnItsWay(d)' \/ missed'[d] # "none"
  <2>1. /\ photo' = photo /\ mainQueue' = mainQueue
        /\ photo[c] \in Photos /\ image[c] \in Photos \cup {NoPhoto}
    BY <1>2 DEF configureAgain, TypeOK
  <2>2. CASE d = c
    <3>1. CASE downloadPhoto(c, photo[c], image[c])
      BY <2>1, <2>2, <3>1, DownloadHasReason
    <3>2. CASE showFile(c, photo[c])
      BY <2>1, <2>2, <3>2, ImageConstants DEF showFile, Shows, Misses, TypeOK
    <3>. QED
      BY <1>2, <3>1, <3>2 DEF configureAgain
  <2>3. CASE d # c
    <3>1. /\ image'[d] = image[d]
          /\ missed'[d] = missed[d] /\ isCancelled'[d] = isCancelled[d]
      BY <1>2, <2>3 DEF configureAgain, downloadPhoto, showFile, Shows, Misses, Accepts, TypeOK
    <3>2. Carried(d)
      BY <1>2, <2>1, <2>3, OthersCarried DEF configureAgain, downloadPhoto
    <3>. QED
      BY <2>1, <3>1, <3>2, CellLeftAlone
  <2>. QED
    BY <2>2, <2>3
<1>3. ASSUME runBlock PROVE OnItsWay(d)' \/ missed'[d] # "none"
  <2>1. /\ mainQueue \in Seq(Block) /\ mainQueue # <<>>
        /\ mainQueue' = Tail(mainQueue)
        /\ UNCHANGED <<photo, isCancelled, tasks, missed>>
        /\ LET b == Head(mainQueue)
           IN  image' = IF isCancelled[b.cell] THEN image ELSE [image EXCEPT ![b.cell] = b.photo]
    BY <1>3 DEF runBlock, downloader, TypeOK
  <2>2. /\ Head(mainQueue) = mainQueue[1] /\ mainQueue[1] \in Block
        /\ \A i \in DOMAIN mainQueue : i = 1 \/ i - 1 \in DOMAIN mainQueue'
        /\ \A i \in DOMAIN mainQueue' :
              i + 1 \in DOMAIN mainQueue /\ mainQueue'[i] = mainQueue[i + 1]
    BY <2>1, QueueHead
  <2>3. mainQueue[1].cell \in Cells /\ mainQueue[1].photo \in Photos
    BY <2>2 DEF Block
  <2>4. image[d] = NoPhoto
    BY <2>1, <2>2, <2>3, ImageConstants DEF TypeOK
  <2>5. CASE missed[d] # "none"
    BY <2>1, <2>5
  <2>6. CASE OnItsWay(d)
    <3>1. mainQueue[1] # [cell |-> d, photo |-> photo[d]]
      BY <2>1, <2>2, <2>6 DEF OnItsWay, TypeOK
    <3>2. \A i \in DOMAIN mainQueue : mainQueue[i] = [cell |-> d, photo |-> photo[d]] =>
             \E j \in DOMAIN mainQueue' : mainQueue'[j] = [cell |-> d, photo |-> photo[d]]
      <4>1. SUFFICES ASSUME NEW i \in DOMAIN mainQueue, i # 1
                     PROVE  i - 1 \in DOMAIN mainQueue' /\ mainQueue'[i - 1] = mainQueue[i]
        BY <3>1
      <4>2. i \in Nat /\ (i - 1) + 1 = i
        BY <2>1
      <4>. QED
        BY <2>2, <4>1, <4>2
    <3>. QED
      BY <2>1, <2>6, <3>2 DEF OnItsWay
  <2>. QED
    BY <2>1, <2>4, <2>5, <2>6 DEF EmptyCellHasReason
<1>4. ASSUME NEW t \in Tasks, transferEnds(t) PROVE OnItsWay(d)' \/ missed'[d] # "none"
  <2>1. PICK s \in {"received", "failed"} : tasks' = [tasks EXCEPT ![t].state = s]
    BY <1>4 DEF transferEnds
  <2>2. Carried(d)
    BY <2>1 DEF Carried, TypeOK, Task
  <2>3. UNCHANGED <<photo, image, isCancelled, mainQueue, missed>>
    BY <1>4 DEF transferEnds, downloader
  <2>. QED
    BY <2>2, <2>3, CellLeftAlone
<1>5. ASSUME NEW t \in Tasks, handle(t) PROVE OnItsWay(d)' \/ missed'[d] # "none"
  <2> DEFINE c == tasks[t].cell
  <2>1. UNCHANGED <<photo, image, isCancelled, mainQueue>> /\ c \in Cells
    BY <1>5 DEF handle, OneTaskPerCell, Busy
  <2>2. CASE tasks' = [tasks EXCEPT ![t].state = "decoded"] /\ UNCHANGED missed
    <3>1. Carried(d)
      BY <2>2 DEF Carried, TypeOK, Task
    <3>. QED
      BY <2>1, <2>2, <3>1, CellLeftAlone
  <2>3. CASE /\ tasks' = [tasks EXCEPT ![t] = Unused]
             /\ missed' = IF isCancelled[c] THEN missed ELSE [missed EXCEPT ![c] = "failed"]
    <3>1. CASE d = c
      BY <2>1, <2>3, <3>1 DEF EmptyCellHasReason, OnItsWay, TypeOK
    <3>2. CASE d # c
      <4>1. Carried(d) /\ missed'[d] = missed[d]
        BY <2>1, <2>3, <3>2 DEF Carried, TypeOK
      <4>. QED
        BY <2>1, <4>1, CellLeftAlone
    <3>. QED
      BY <3>1, <3>2
  <2>. QED
    BY <1>5, <2>2, <2>3 DEF handle
<1>6. ASSUME NEW t \in Tasks, post(t) PROVE OnItsWay(d)' \/ missed'[d] # "none"
  <2> DEFINE b == [cell |-> tasks[t].cell, photo |-> tasks[t].photo]
  <2>1. /\ UNCHANGED <<photo, image, isCancelled, missed>>
        /\ tasks' = [tasks EXCEPT ![t] = Unused]
        /\ mainQueue \in Seq(Block) /\ mainQueue' = Append(mainQueue, b)
    BY <1>6 DEF post, downloader, TypeOK
  <2>2. /\ \E i \in DOMAIN mainQueue' : mainQueue'[i] = b
        /\ \A i \in DOMAIN mainQueue : i \in DOMAIN mainQueue' /\ mainQueue'[i] = mainQueue[i]
    BY <2>1
  <2>3. \A u \in Tasks \ {t} : tasks'[u] = tasks[u]
    BY <2>1 DEF TypeOK
  <2>4. OnItsWay(d) => OnItsWay(d)'
    <3>1. ASSUME ~isCancelled[d], NEW u \in Tasks,
                 tasks[u].state # "unused", tasks[u].cell = d, tasks[u].photo = photo[d]
          PROVE  OnItsWay(d)'
      <4>1. CASE u = t
        <5>1. b = [cell |-> d, photo |-> photo'[d]] /\ ~isCancelled'[d]
          BY <2>1, <3>1, <4>1
        <5>2. \E i \in DOMAIN mainQueue' : mainQueue'[i] = [cell |-> d, photo |-> photo'[d]]
          BY <2>2, <5>1
        <5>. QED
          BY <5>1, <5>2 DEF OnItsWay
      <4>2. CASE u # t
        <5>1. tasks'[u] = tasks[u] /\ ~isCancelled'[d] /\ photo'[d] = photo[d]
          BY <2>1, <2>3, <3>1, <4>2
        <5>. QED
          BY <3>1, <5>1, OnItsWayMeaningNext
      <4>. QED
        BY <4>1, <4>2
    <3>2. ASSUME ~isCancelled[d], NEW i \in DOMAIN mainQueue,
                 mainQueue[i] = [cell |-> d, photo |-> photo[d]]
          PROVE  OnItsWay(d)'
      BY <2>1, <2>2, <3>2, OnItsWayMeaningNext
    <3>. QED
      BY <3>1, <3>2, OnItsWayMeaning
  <2>. QED
    BY <2>1, <2>4 DEF EmptyCellHasReason
<1>7. ASSUME evict \/ UNCHANGED vars PROVE OnItsWay(d)' \/ missed'[d] # "none"
  BY <1>7 DEF evict, vars, downloader, EmptyCellHasReason, OnItsWay
<1>. QED
  BY <1>1, <1>2, <1>3, <1>4, <1>5, <1>6, <1>7 DEF Next, Work

\* EmptyCellHasReason: a cell without its image is waiting for it, or the code
\* gave the photo up.
THEOREM EmptyCellsWait == Spec => []EmptyCellHasReason
<1>1. Init => EmptyCellHasReason
  BY DEF Init, EmptyCellHasReason
<1>. QED
  BY <1>1, EmptyNext, ImageTypes, PTL DEF Spec
=============================================================================
