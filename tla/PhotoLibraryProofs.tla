------------------------- MODULE PhotoLibraryProofs -------------------------
(***************************************************************************)
(* Proofs, for any number of photos, URLs, requests and tasks, of the      *)
(* invariants PhotoLibrary.cfg model-checks and of the refinement of       *)
(* PhotoShelf.                                                             *)
(*                                                                         *)
(* The library composes the download manager, whose invariants are proved  *)
(* in DownloadManagerProofs.  A step of the library is one of the manager  *)
(* or leaves the manager's variables alone (DownloadSteps), so that those  *)
(* invariants hold here too.                                               *)
(***************************************************************************)
EXTENDS PhotoLibrary, TLAPS

Manager == INSTANCE DownloadManagerProofs WITH MaxBytes <- 0

----------------------------------------------------------------------------
(* The download manager inside the library *)

\* The Detail screen has its photo.
DetailHasPhoto ==
    /\ detail \in [photo: Photos \cup {NoPhoto}, isFavorite: BOOLEAN, alert: BOOLEAN]
    /\ screen = "detail" => detail.photo \in Photos

LEMMA DetailHasPhotoInit == Init => DetailHasPhoto
  BY DEF Init, DetailHasPhoto, NoDetail

LEMMA DetailHasPhotoNext == DetailHasPhoto /\ [Next]_vars => DetailHasPhoto'
<1> USE DEF DetailHasPhoto
<1> SUFFICES ASSUME DetailHasPhoto, [Next]_vars PROVE DetailHasPhoto'
  OBVIOUS
<1>1. ASSUME NEW p \in Photos, showPhotoDetail(p) PROVE DetailHasPhoto'
  <2>1. DB!IsFavorite(p) \in BOOLEAN
    BY DEF DB!IsFavorite
  <2>. QED
    BY <1>1, <2>1 DEF showPhotoDetail
<1>2. CASE touchBtnHeart \/ touchBtnDownload \/ dismissAlert
  BY <1>2 DEF touchBtnHeart, touchBtnDownload, dismissAlert
<1>3. CASE touchBtnClose \/ terminate
  <2>1. NoDetail \in [photo: Photos \cup {NoPhoto}, isFavorite: BOOLEAN, alert: BOOLEAN]
    BY DEF NoDetail
  <2>2. screen' = "home" /\ detail' = NoDetail
    BY <1>3 DEF touchBtnClose, terminate
  <2>. QED
    BY <2>1, <2>2
<1>4. ASSUME showDownloadList \/ leaveList PROVE DetailHasPhoto'
  BY <1>4 DEF showDownloadList, leaveList
<1>5. ASSUME \/ \E downloads \in BOOLEAN : touchTab(downloads)
             \/ \E item \in dowList \cup favList : touchHeart(item)
      PROVE  DetailHasPhoto'
  BY <1>5 DEF touchTab, touchHeart, uiVars
<1>6. CASE MainThread \/ DelegateQueue \/ daemon
  BY <1>6 DEF MainThread, DelegateQueue, runBlock, mainWriteDone, daemon, didFinish, didFinish_copy,
         didFinish_report, racingWrites, uiVars
<1>7. CASE UNCHANGED vars
  BY <1>7 DEF vars, uiVars
<1>. QED
  BY <1>1, <1>2, <1>3, <1>4, <1>5, <1>6, <1>7 DEF Next, User

\* What a step of the library does to the download manager.
ManagerAction ==
    \/ UNCHANGED downloadVars
    \/ \E p \in Photos : DM!startDownload(p)
    \/ DM!mainWriteDone
    \/ \E t \in Tasks : DM!transferCompletes(t) \/ DM!transferFails(t) \/ DM!didFinish_lookup(t)
    \/ DM!didFinish_clear \/ DM!didFinish_remove \/ DM!didFinish_copy \/ DM!didFinish_report
    \/ DM!racingWrites
    \/ DM!terminate

LEMMA ManagerActions == DetailHasPhoto /\ [Next]_vars => ManagerAction
<1> SUFFICES ASSUME DetailHasPhoto, [Next]_vars PROVE ManagerAction
  OBVIOUS
<1>1. ASSUME User PROVE UNCHANGED downloadVars \/ \E p \in Photos : DM!startDownload(p)
  BY <1>1 DEF User, showPhotoDetail, touchBtnClose, touchBtnHeart, touchBtnDownload, dismissAlert,
         showDownloadList, leaveList, touchTab, touchHeart, OnDetail, DetailHasPhoto
<1>2. ASSUME MainThread \/ DelegateQueue \/ daemon \/ terminate PROVE ManagerAction
  BY <1>2 DEF MainThread, DelegateQueue, runBlock, mainWriteDone, daemon, didFinish, didFinish_copy,
         didFinish_report, racingWrites, terminate, ManagerAction
<1>3. UNCHANGED vars => UNCHANGED downloadVars
  BY DEF vars
<1>. QED
  BY <1>1, <1>2, <1>3 DEF Next, ManagerAction

\* A step of the library, seen from the download manager.
LEMMA DownloadSteps == DetailHasPhoto /\ [Next]_vars => [Manager!Next]_(Manager!vars)
<1> SUFFICES ASSUME DetailHasPhoto, [Next]_vars PROVE [Manager!Next]_(Manager!vars)
  OBVIOUS
<1> USE DEF DM!MainIdle, Manager!MainIdle, DM!NoWrite, Manager!NoWrite, DM!SourceUrl, Manager!SourceUrl,
            DM!Destination, Manager!Destination, DM!NoCallback, Manager!NoCallback,
            DM!Callback, Manager!Callback
<1>1. ASSUME NEW p \in Photos, DM!startDownload(p) PROVE Manager!startDownload(p)
  BY <1>1 DEF DM!startDownload, Manager!startDownload, DM!EntryOf, Manager!EntryOf, DM!Unallocated,
              Manager!Unallocated, DM!UnusedTask, Manager!UnusedTask, DM!NewTask, Manager!NewTask
<1>2. DM!mainWriteDone => Manager!mainWriteDone
  BY DEF DM!mainWriteDone, Manager!mainWriteDone, DM!MarkDownloading, Manager!MarkDownloading
<1>3. ASSUME NEW t \in Tasks
      PROVE  /\ DM!transferCompletes(t) => Manager!transferCompletes(t)
             /\ DM!transferFails(t) => Manager!transferFails(t)
             /\ DM!didFinish_lookup(t) => Manager!didFinish_lookup(t)
  BY DEF DM!transferCompletes, Manager!transferCompletes, DM!transferFails, Manager!transferFails,
         DM!didFinish_lookup, Manager!didFinish_lookup
<1>4. /\ DM!didFinish_clear => Manager!didFinish_clear
      /\ DM!didFinish_remove => Manager!didFinish_remove
      /\ DM!didFinish_copy => Manager!didFinish_copy
      /\ DM!didFinish_report => Manager!didFinish_report
  BY DEF DM!didFinish_clear, Manager!didFinish_clear, DM!didFinish_remove, Manager!didFinish_remove,
         DM!didFinish_copy, Manager!didFinish_copy, DM!didFinish_report, Manager!didFinish_report
<1>5. DM!racingWrites => Manager!racingWrites
  BY DEF DM!racingWrites, Manager!racingWrites, DM!MarkDownloading, Manager!MarkDownloading
<1>6. DM!terminate => Manager!terminate
  BY DEF DM!terminate, Manager!terminate, DM!Inherited, Manager!Inherited, DM!Live, Manager!Live,
         DM!UnusedTask, Manager!UnusedTask
<1>7. ManagerAction
  BY ManagerActions
<1>8. UNCHANGED downloadVars \/ Manager!Next
  BY <1>1, <1>2, <1>3, <1>4, <1>5, <1>6, <1>7 DEF ManagerAction, Manager!Next, Manager!didFinish
<1>. QED
  BY <1>8 DEF Manager!vars, downloadVars

Downloads == Manager!Typed /\ Manager!ReportsMatch /\ DetailHasPhoto

LEMMA DownloadsInit == Init => Downloads
<1>1. DM!Init => Manager!Init
  BY DEF DM!Init, Manager!Init, DM!Unallocated, Manager!Unallocated, DM!UnusedTask,
         Manager!UnusedTask, DM!NoWrite, Manager!NoWrite, DM!NoCallback, Manager!NoCallback
<1>2. Manager!Init => Manager!ReportsMatch
  BY DEF Manager!Init, Manager!ReportsMatch, Manager!ReportIsForItsPhoto, Manager!NoCallback
<1>. QED
  BY <1>1, <1>2, LibraryConstants, Manager!TypedInit, DetailHasPhotoInit DEF Init, Downloads

LEMMA DownloadsNext == Downloads /\ [Next]_vars => Downloads' /\ Manager!Kept
  BY DownloadSteps, DetailHasPhotoNext, LibraryConstants, Manager!TypedNext, Manager!ReportsMatchNext, Manager!StepKeeps
     DEF Downloads

\* The types of the manager's state are those proved of the manager.
LEMMA DownloadsTyped == (Downloads => DM!TypeOK) /\ (Downloads' => DM!TypeOK')
  BY DEF Downloads, Manager!Typed, Manager!TypeOK, DM!TypeOK, Manager!Task, DM!Task,
         Manager!TaskState, DM!TaskState, Manager!DownloadRequest, DM!DownloadRequest,
         Manager!CallbackAt, DM!CallbackAt

\* A photo the user asked for, at some time: a request of it is on the heap.
AskedFor(p) == p \in Photos /\ RawUrl[p] \in Urls /\ \E r \in Requests : p \in requests[r].photo

LEMMA AskedForKept == Manager!Kept => \A p : AskedFor(p) => AskedFor(p)'
  BY DEF Manager!Kept, AskedFor

\* What a callback does, in the words of the library.
LEMMA CallbackFacts ==
    Downloads /\ callback.at # "idle" =>
        /\ callback.task \in Tasks /\ tasks[callback.task].state = "delivered"
        /\ DM!SourceUrl \in Urls /\ DM!Destination \in Files
        /\ callback.request # NoRequest =>
              /\ callback.request \in Requests
              /\ \A p \in requests[callback.request].photo : AskedFor(p) /\ RawUrl[p] = DM!SourceUrl
<1> SUFFICES ASSUME Downloads, callback.at # "idle"
             PROVE  /\ callback.task \in Tasks /\ tasks[callback.task].state = "delivered"
                    /\ DM!SourceUrl \in Urls /\ DM!Destination \in Files
                    /\ callback.request # NoRequest =>
                          /\ callback.request \in Requests
                          /\ \A p \in requests[callback.request].photo : AskedFor(p) /\ RawUrl[p] = DM!SourceUrl
  OBVIOUS
<1>1. callback.task \in Tasks /\ tasks[callback.task].state = "delivered"
  BY DEF Downloads, Manager!Typed, Manager!Bookkeeping, Manager!NoCallback
<1>2. DM!SourceUrl \in Urls /\ DM!Destination \in Files
  BY <1>1, LibraryConstants DEF Downloads, Manager!Typed, Manager!Bookkeeping, DM!SourceUrl, DM!Destination
<1>3. ASSUME callback.request # NoRequest
      PROVE  /\ callback.request \in Requests
             /\ \A p \in requests[callback.request].photo : AskedFor(p) /\ RawUrl[p] = DM!SourceUrl
  <2>1. callback.request \in Requests
    BY <1>3 DEF Downloads, Manager!Typed, Manager!TypeOK
  <2>2. \E p \in requests[callback.request].photo : RawUrl[p] = DM!SourceUrl
    BY <1>3 DEF Downloads, Manager!ReportsMatch, Manager!IsFor, DM!SourceUrl
  <2>3. PICK p \in Photos : requests[callback.request].photo = {p}
    BY <2>1, <2>2 DEF Downloads, Manager!Typed, Manager!Bookkeeping
  <2>. QED
    BY <1>2, <2>1, <2>2, <2>3 DEF AskedFor
<1>. QED
  BY <1>1, <1>2, <1>3

LEMMA CallbackStarts ==
    \A t, r : DM!Callback(t, r).at = "clear" /\ DM!Callback(t, r).task = t /\ DM!Callback(t, r).request = r
  BY DEF DM!Callback, DM!NoCallback

----------------------------------------------------------------------------
(* Types *)

Queued == {mainQueue[i] : i \in DOMAIN mainQueue}

\* What is queued to be saved was asked for and is the file of its photo, and
\* so is what has been saved.
SavesAreRight ==
    /\ \A b \in Queued : b.kind = "save" =>
          AskedFor(b.photo) /\ b.path = LocalFile[RawUrl[b.photo]]
    /\ \A p \in Photos : DB!IsLocalImageDownloaded(p) =>
          AskedFor(p) /\ localImages[p].localImagePath = LocalFile[RawUrl[p]]

LibraryTyped == Downloads /\ TypeOK /\ SavesAreRight

LEMMA LibraryTypedInit == Init => LibraryTyped
<1> SUFFICES ASSUME Init PROVE LibraryTyped
  OBVIOUS
<1>1. Downloads /\ DM!TypeOK
  BY DownloadsInit, DownloadsTyped
<1>2. DB!TypeOK /\ List!TypeOK
  BY DEF Init, DB!Init, DB!TypeOK, List!Empty, List!TypeOK
<1>3. /\ mainQueue \in Seq(Block) /\ screen \in {"home", "detail", "list"}
      /\ lost \subseteq Files /\ hearted \subseteq Photos
  BY DEF Init
<1>4. detail \in [photo: Photos \cup {NoPhoto}, isFavorite: BOOLEAN, alert: BOOLEAN]
  BY <1>1 DEF Downloads, DetailHasPhoto
<1>5. SavesAreRight
  BY DEF Init, Queued, DB!Init, SavesAreRight, DB!IsLocalImageDownloaded, DB!Known
<1>. QED
  BY <1>1, <1>2, <1>3, <1>4, <1>5 DEF LibraryTyped, TypeOK

\* A heart turns the favourite of its photo around and leaves the download
\* alone.
LEMMA HeartWrites ==
    ASSUME DB!TypeOK, NEW p \in Photos,
           DB!changeFavoriteById(p) \/ DB!changeFavoriteWithDetails(p)
    PROVE  /\ DB!TypeOK'
           /\ \A q \in Photos \ {p} : localImages'[q] = localImages[q]
           /\ DB!IsFavorite(p)' <=> ~DB!IsFavorite(p)
           /\ DB!Known(p)'
           /\ DB!IsLocalImageDownloaded(p)' <=> DB!IsLocalImageDownloaded(p)
           /\ DB!Known(p) => localImages'[p].localImagePath = localImages[p].localImagePath
<1> USE LibraryConstants DEF DB!TypeOK, DB!Known, DB!IsFavorite, DB!IsLocalImageDownloaded
<1>1. \A q \in Photos \ {p} : localImages'[q] = localImages[q]
  BY DEF DB!changeFavoriteById, DB!changeFavoriteWithDetails
<1>2. ASSUME NEW k \in DB!LocalImage
      PROVE  /\ DB!Toggled(k) \in DB!LocalImage /\ DB!WithDetails(DB!Toggled(k)) \in DB!LocalImage
             /\ DB!Toggled(k).localImagePath = k.localImagePath
             /\ DB!WithDetails(DB!Toggled(k)).localImagePath = k.localImagePath
  BY DEF DB!LocalImage, DB!Toggled, DB!WithDetails
<1>3. ASSUME NEW k \in DB!LocalImage
      PROVE  /\ DB!Toggled(k).favorite <=> ~k.favorite
             /\ DB!WithDetails(DB!Toggled(k)).favorite <=> ~k.favorite
             /\ DB!Toggled(k).isDownloaded <=> k.isDownloaded
             /\ DB!WithDetails(DB!Toggled(k)).isDownloaded <=> k.isDownloaded
  BY DEF DB!LocalImage, DB!Toggled, DB!WithDetails
<1>4. CASE DB!Known(p)
  <2>1. localImages[p] \in DB!LocalImage
    BY <1>4
  <2>2. \/ localImages' = [localImages EXCEPT ![p] = DB!Toggled(localImages[p])]
        \/ localImages' = [localImages EXCEPT ![p] = DB!WithDetails(DB!Toggled(localImages[p]))]
    BY <1>4 DEF DB!changeFavoriteById, DB!changeFavoriteWithDetails
  <2>. QED
    BY <1>1, <1>2, <1>3, <1>4, <2>1, <2>2
<1>5. CASE ~DB!Known(p)
  <2>1. PICK h : /\ \/ h = [DB!NewImage EXCEPT !.favorite = TRUE]
                    \/ h = DB!WithDetails([DB!NewImage EXCEPT !.favorite = TRUE])
                 /\ localImages' = [localImages EXCEPT ![p] = h]
    BY <1>5 DEF DB!changeFavoriteById, DB!changeFavoriteWithDetails
  <2>2. h \in DB!LocalImage /\ h.favorite /\ ~h.isDownloaded
    BY <2>1 DEF DB!LocalImage, DB!NewImage, DB!WithDetails
  <2>3. localImages'[p] = h /\ DB!TypeOK'
    BY <2>1, <2>2
  <2>. QED
    BY <1>1, <1>5, <2>2, <2>3
<1>. QED
  BY <1>4, <1>5

\* Saving a download leaves the heart alone.
LEMMA SaveWrites ==
    ASSUME DB!TypeOK, NEW p \in Photos, NEW f \in Files, DB!saveDownloadedFilePath(p, f)
    PROVE  /\ DB!TypeOK'
           /\ \A q \in Photos \ {p} : localImages'[q] = localImages[q]
           /\ DB!IsFavorite(p)' <=> DB!IsFavorite(p)
           /\ DB!IsLocalImageDownloaded(p)'
           /\ localImages'[p].localImagePath = f
<1> USE LibraryConstants DEF DB!TypeOK, DB!Known, DB!IsFavorite, DB!IsLocalImageDownloaded
<1>1. \A q \in Photos \ {p} : localImages'[q] = localImages[q]
  BY DEF DB!saveDownloadedFilePath
<1> DEFINE k == IF DB!Known(p) THEN localImages[p] ELSE DB!NewImage
           h == [k EXCEPT !.localImagePath = f, !.isDownloaded = TRUE, !.sized = TRUE]
<1>2. k \in DB!LocalImage
  BY DEF DB!LocalImage, DB!NewImage
<1>3. k.favorite <=> DB!IsFavorite(p)
  <2>1. ~DB!NewImage.favorite
    BY DEF DB!NewImage
  <2>. QED
    BY <2>1
<1>4. localImages' = [localImages EXCEPT ![p] = h]
  BY DEF DB!saveDownloadedFilePath
<1> HIDE DEF k
<1>5. h \in DB!LocalImage /\ h.isDownloaded /\ h.localImagePath = f
  BY <1>2 DEF DB!LocalImage
<1>6. h.favorite <=> k.favorite
  BY <1>2 DEF DB!LocalImage
<1> HIDE DEF h
<1>7. localImages'[p] = h /\ DB!TypeOK'
  BY <1>4, <1>5
<1>8. DB!IsFavorite(p)' <=> DB!IsFavorite(p)
  BY <1>3, <1>5, <1>6, <1>7
<1>. QED
  BY <1>1, <1>5, <1>7, <1>8

\* The lists show photos.
LEMMA LoadTyped ==
    ASSUME Downloads, DB!TypeOK', loadData
    PROVE  dowList' \subseteq List!Item /\ favList' \subseteq List!Item
<1>1. \A p \in Photos : localImages'[p] # NoRecord => List!FromRecord(p, localImages'[p]) \in List!Item
  BY DEF DB!TypeOK, DB!LocalImage, List!FromRecord, List!Item
<1>2. Downloading \subseteq Photos
  BY DEF Downloading, Downloads, Manager!Typed, Manager!TypeOK, Manager!DownloadRequest
<1>3. \A p \in Photos : List!FromDownload(p) \in List!Item
  BY DEF List!FromDownload, List!Item
<1>. QED
  BY <1>1, <1>2, <1>3 DEF loadData, List!loadData

\* The blocks on the main queue after it was given one, or one was taken.
LEMMA QueueGrows ==
    ASSUME mainQueue \in Seq(Block), NEW b \in Block, mainQueue' = Append(mainQueue, b)
    PROVE  mainQueue' \in Seq(Block) /\ Queued' = Queued \cup {b}
<1>1. mainQueue' \in Seq(Block) /\ Len(mainQueue') = Len(mainQueue) + 1
  OBVIOUS
<1>2. /\ \A i \in DOMAIN mainQueue : i \in DOMAIN mainQueue' /\ mainQueue'[i] = mainQueue[i]
      /\ \A i \in DOMAIN mainQueue' : i \in DOMAIN mainQueue \/ mainQueue'[i] = b
      /\ Len(mainQueue') \in DOMAIN mainQueue' /\ mainQueue'[Len(mainQueue')] = b
  BY <1>1
<1>. QED
  BY <1>1, <1>2 DEF Queued

LEMMA QueueShrinks ==
    ASSUME mainQueue \in Seq(Block),
           \/ mainQueue # <<>> /\ mainQueue' = Tail(mainQueue)
           \/ \E i \in DOMAIN mainQueue : mainQueue' = RemoveAt(mainQueue, i)
    PROVE  mainQueue' \in Seq(Block) /\ Queued' \subseteq Queued
<1>1. CASE mainQueue # <<>> /\ mainQueue' = Tail(mainQueue)
  <2>1. mainQueue' \in Seq(Block)
    BY <1>1
  <2>2. \A j \in DOMAIN mainQueue' : j + 1 \in DOMAIN mainQueue /\ mainQueue'[j] = mainQueue[j + 1]
    BY <1>1
  <2>. QED
    BY <2>1, <2>2 DEF Queued
<1>2. ASSUME NEW i \in DOMAIN mainQueue, mainQueue' = RemoveAt(mainQueue, i)
      PROVE  mainQueue' \in Seq(Block) /\ Queued' \subseteq Queued
  <2> DEFINE before == SubSeq(mainQueue, 1, i - 1)
             after == SubSeq(mainQueue, i + 1, Len(mainQueue))
  <2>1. /\ before \in Seq(Block)
        /\ \A j \in DOMAIN before : j \in DOMAIN mainQueue /\ before[j] = mainQueue[j]
    OBVIOUS
  <2>2. /\ after \in Seq(Block)
        /\ \A j \in DOMAIN after : i + j \in DOMAIN mainQueue /\ after[j] = mainQueue[i + j]
    OBVIOUS
  <2>3. mainQueue' = before \o after
    BY <1>2 DEF RemoveAt
  <2> HIDE DEF before, after
  <2>4. mainQueue' \in Seq(Block)
    BY <2>1, <2>2, <2>3
  <2>5. \A j \in DOMAIN mainQueue' :
           \/ j \in DOMAIN before /\ mainQueue'[j] = before[j]
           \/ j - Len(before) \in DOMAIN after /\ mainQueue'[j] = after[j - Len(before)]
    BY <2>1, <2>2, <2>3
  <2>6. \A j \in DOMAIN mainQueue' : \E k \in DOMAIN mainQueue : mainQueue'[j] = mainQueue[k]
    BY <2>1, <2>2, <2>5
  <2>. QED
    BY <2>4, <2>6 DEF Queued
<1>. QED
  BY <1>1, <1>2

LEMMA HeadIsQueued ==
    ASSUME mainQueue \in Seq(Block), mainQueue # <<>>
    PROVE  Head(mainQueue) \in Queued /\ Head(mainQueue) \in Block
<1>1. 1 \in DOMAIN mainQueue /\ Head(mainQueue) = mainQueue[1]
  OBVIOUS
<1>. QED
  BY <1>1 DEF Queued

\* What a step does to the records: nothing, one heart, or one saved path.
Saves(b) ==
    /\ b \in Queued /\ b.kind = "save"
    /\ DB!saveDownloadedFilePath(b.photo, b.path)

LEMMA RecordSteps ==
    ASSUME LibraryTyped, [Next]_vars
    PROVE  \/ UNCHANGED localImages
           \/ touchBtnHeart
           \/ \E item \in dowList \cup favList : touchHeart(item)
           \/ runBlock /\ Saves(Head(mainQueue))
<1>1. CASE User
  BY <1>1 DEF User, showPhotoDetail, touchBtnClose, touchBtnDownload, dismissAlert, showDownloadList,
              leaveList, touchTab
<1>2. CASE runBlock
  BY <1>2, HeadIsQueued DEF runBlock, Saves, LibraryTyped, TypeOK
<1>3. CASE mainWriteDone \/ DelegateQueue \/ daemon \/ terminate
  BY <1>3 DEF DelegateQueue, mainWriteDone, daemon, didFinish, didFinish_copy, didFinish_report,
              racingWrites, terminate
<1>4. CASE UNCHANGED vars
  BY <1>4 DEF vars
<1>. QED
  BY <1>1, <1>2, <1>3, <1>4 DEF Next, MainThread, DelegateQueue

\* The photo whose heart is tapped.
LEMMA HeartSteps ==
    ASSUME LibraryTyped,
           touchBtnHeart \/ \E item \in dowList \cup favList : touchHeart(item)
    PROVE  \E p \in Photos : DB!changeFavoriteById(p) \/ DB!changeFavoriteWithDetails(p)
<1>1. CASE touchBtnHeart
  BY <1>1 DEF touchBtnHeart, OnDetail, LibraryTyped, Downloads, DetailHasPhoto
<1>2. ASSUME NEW item \in dowList \cup favList, touchHeart(item)
      PROVE  \E p \in Photos : DB!changeFavoriteById(p) \/ DB!changeFavoriteWithDetails(p)
  <2>1. item.id \in Photos
    BY DEF LibraryTyped, TypeOK, List!TypeOK, List!Item
  <2>. QED
    BY <1>2, <2>1 DEF touchHeart
<1>. QED
  BY <1>1, <1>2

LEMMA RecordsAreRight ==
    ASSUME LibraryTyped, [Next]_vars
    PROVE  /\ DB!TypeOK'
           /\ \A p \in Photos : DB!IsLocalImageDownloaded(p)' =>
                 AskedFor(p)' /\ localImages'[p].localImagePath = LocalFile[RawUrl[p]]
<1>1. \A p : AskedFor(p) => AskedFor(p)'
  BY DownloadsNext, AskedForKept DEF LibraryTyped
<1>2. CASE UNCHANGED localImages
  BY <1>1, <1>2 DEF LibraryTyped, TypeOK, SavesAreRight, DB!TypeOK, DB!IsLocalImageDownloaded, DB!Known
<1>3. CASE touchBtnHeart \/ \E item \in dowList \cup favList : touchHeart(item)
  <2>1. PICK p \in Photos : DB!changeFavoriteById(p) \/ DB!changeFavoriteWithDetails(p)
    BY <1>3, HeartSteps
  <2>2. DB!TypeOK
    BY DEF LibraryTyped, TypeOK
  <2>3. \A q \in Photos : DB!IsLocalImageDownloaded(q)' =>
           DB!IsLocalImageDownloaded(q) /\ localImages'[q].localImagePath = localImages[q].localImagePath
    BY <2>1, <2>2, HeartWrites DEF DB!IsLocalImageDownloaded, DB!Known
  <2>. QED
    BY <1>1, <2>1, <2>2, <2>3, HeartWrites DEF LibraryTyped, SavesAreRight
<1>4. CASE Saves(Head(mainQueue))
  <2> DEFINE b == Head(mainQueue)
  <2>1. AskedFor(b.photo) /\ b.path = LocalFile[RawUrl[b.photo]]
    BY <1>4 DEF Saves, LibraryTyped, SavesAreRight
  <2>2. b.photo \in Photos /\ b.path \in Files
    BY <2>1, LibraryConstants DEF AskedFor
  <2>3. DB!TypeOK /\ DB!saveDownloadedFilePath(b.photo, b.path)
    BY <1>4 DEF Saves, LibraryTyped, TypeOK
  <2> HIDE DEF b
  <2>4. /\ DB!TypeOK'
        /\ \A q \in Photos \ {b.photo} : localImages'[q] = localImages[q]
        /\ localImages'[b.photo].localImagePath = b.path
    BY <2>2, <2>3, SaveWrites
  <2>5. \A q \in Photos \ {b.photo} : DB!IsLocalImageDownloaded(q)' => DB!IsLocalImageDownloaded(q)
    BY <2>4 DEF DB!IsLocalImageDownloaded, DB!Known
  <2>. QED
    BY <1>1, <2>1, <2>4, <2>5 DEF LibraryTyped, SavesAreRight
<1>. QED
  BY <1>2, <1>3, <1>4, RecordSteps

\* What a step does to the main queue.
LEMMA QueueSteps ==
    ASSUME LibraryTyped, [Next]_vars
    PROVE  /\ mainQueue' \in Seq(Block)
           /\ \A b \in Queued' :
                 \/ b \in Queued
                 \/ showDownloadList /\ b = LoadBlock
                 \/ /\ didFinish_report /\ callback.request # NoRequest
                    /\ \E p \in requests[callback.request].photo : b = SaveBlock(p, DM!Destination)
<1>. mainQueue \in Seq(Block)
  BY DEF LibraryTyped, TypeOK
<1>1. CASE UNCHANGED mainQueue
  BY <1>1 DEF Queued
<1>2. CASE runBlock
  BY <1>2, QueueShrinks DEF runBlock
<1>3. CASE leaveList
  BY <1>3, <1>1, QueueShrinks DEF leaveList
<1>4. CASE terminate
  BY <1>4 DEF terminate, Queued
<1>5. CASE showDownloadList
  <2>1. LoadBlock \in Block
    BY DEF LoadBlock, Block
  <2>. QED
    BY <1>5, <2>1, QueueGrows DEF showDownloadList
<1>6. CASE didFinish_report /\ callback.request # NoRequest
  <2>1. PICK p \in requests[callback.request].photo :
          mainQueue' = Append(mainQueue, SaveBlock(p, DM!Destination))
    BY <1>6 DEF didFinish_report
  <2>2. p \in Photos /\ DM!Destination \in Files
    BY <1>6, CallbackFacts DEF LibraryTyped, didFinish_report, DM!didFinish_report, AskedFor
  <2>3. SaveBlock(p, DM!Destination) \in Block
    BY <2>2 DEF SaveBlock, Block
  <2>. QED
    BY <1>6, <2>1, <2>3, QueueGrows
<1>7. CASE User /\ ~showDownloadList /\ ~leaveList
  BY <1>1, <1>7 DEF User, showPhotoDetail, touchBtnClose, touchBtnHeart, touchBtnDownload, dismissAlert,
               touchTab, touchHeart, uiVars
<1>8. CASE mainWriteDone \/ racingWrites \/ didFinish \/ didFinish_copy \/ daemon
  BY <1>1, <1>8 DEF mainWriteDone, racingWrites, didFinish, didFinish_copy, daemon, uiVars
<1>9. CASE didFinish_report /\ callback.request = NoRequest
  BY <1>1, <1>9 DEF didFinish_report
<1>10. CASE UNCHANGED vars
  BY <1>1, <1>10 DEF vars, uiVars
<1>. QED
  BY <1>2, <1>3, <1>4, <1>5, <1>6, <1>7, <1>8, <1>9, <1>10 DEF Next, MainThread, DelegateQueue, User

LEMMA LibraryTypedNext == LibraryTyped /\ [Next]_vars => LibraryTyped'
<1> SUFFICES ASSUME LibraryTyped, [Next]_vars PROVE LibraryTyped'
  OBVIOUS
<1>1. Downloads' /\ Manager!Kept /\ DM!TypeOK'
  BY DownloadsNext, DownloadsTyped DEF LibraryTyped
<1>2. DB!TypeOK'
  BY RecordsAreRight
<1>3. List!TypeOK'
  <2>. List!TypeOK
    BY DEF LibraryTyped, TypeOK
  <2>1. CASE UNCHANGED listVars
    BY <2>1 DEF listVars, List!TypeOK
  <2>2. CASE List!BecomesEmpty
    BY <2>2 DEF List!BecomesEmpty, List!TypeOK
  <2>3. ASSUME NEW downloads \in BOOLEAN, touchTab(downloads) PROVE List!TypeOK'
    BY <2>3 DEF touchTab, List!touchTab, List!TypeOK
  <2>4. CASE loadData /\ UNCHANGED isDisplayingDownload
    BY <1>2, <2>4, LoadTyped DEF LibraryTyped, List!TypeOK
  <2>5. ASSUME NEW item \in dowList \cup favList, touchHeart(item) PROVE List!TypeOK'
    <3>1. CASE UNCHANGED listVars \/ (loadData /\ UNCHANGED isDisplayingDownload)
      BY <2>1, <2>4, <3>1
    <3>2. CASE List!heartInFavorites(item)
      BY <3>2 DEF List!heartInFavorites, List!TypeOK
    <3>. QED
      BY <2>5, <3>1, <3>2 DEF touchHeart, List!heartInDownloads, loadData, listVars
  <2>6. CASE runBlock
    BY <2>1, <2>4, <2>6 DEF runBlock, listVars
  <2>7. CASE UNCHANGED vars \/ mainWriteDone \/ DelegateQueue \/ daemon
    BY <2>1, <2>7 DEF vars, DelegateQueue, mainWriteDone, racingWrites, daemon, didFinish, didFinish_copy,
                      didFinish_report
  <2>8. CASE showDownloadList \/ leaveList \/ terminate
    BY <2>2, <2>8 DEF showDownloadList, leaveList, terminate
  <2>9. CASE \/ \E p \in Photos : showPhotoDetail(p)
             \/ touchBtnClose \/ touchBtnHeart \/ touchBtnDownload \/ dismissAlert
    BY <2>1, <2>9 DEF showPhotoDetail, touchBtnClose, touchBtnHeart, touchBtnDownload, dismissAlert
  <2>. QED
    BY <2>3, <2>5, <2>6, <2>7, <2>8, <2>9 DEF Next, User, MainThread, DelegateQueue
<1>4. mainQueue' \in Seq(Block)
  BY QueueSteps
<1>5. screen' \in {"home", "detail", "list"}
  <2>. screen \in {"home", "detail", "list"}
    BY DEF LibraryTyped, TypeOK
  <2>1. CASE User
    BY <2>1 DEF User, showPhotoDetail, touchBtnClose, touchBtnHeart, touchBtnDownload, dismissAlert,
                showDownloadList, leaveList, touchTab, touchHeart, uiVars
  <2>2. CASE MainThread \/ DelegateQueue \/ daemon \/ terminate
    BY <2>2 DEF MainThread, DelegateQueue, runBlock, mainWriteDone, daemon, didFinish, didFinish_copy,
                didFinish_report, racingWrites, uiVars, terminate
  <2>. QED
    BY <2>1, <2>2 DEF Next, vars, uiVars
<1>6. detail' \in [photo: Photos \cup {NoPhoto}, isFavorite: BOOLEAN, alert: BOOLEAN]
  BY <1>1 DEF Downloads, DetailHasPhoto
<1>7. lost' \subseteq Files /\ hearted' \subseteq Photos
  <2>. lost \subseteq Files /\ hearted \subseteq Photos
    BY DEF LibraryTyped, TypeOK
  <2>1. callback.at = "copy" => DM!Destination \in Files
    BY CallbackFacts DEF LibraryTyped
  <2>2. CASE didFinish_copy \/ terminate
    BY <2>1, <2>2 DEF didFinish_copy, DM!didFinish_copy, terminate
  <2>3. ASSUME NEW item \in dowList \cup favList, touchHeart(item)
        PROVE  lost' \subseteq Files /\ hearted' \subseteq Photos
    <3>1. item.id \in Photos
      BY DEF LibraryTyped, TypeOK, List!TypeOK, List!Item
    <3>. QED
      BY <2>3, <3>1 DEF touchHeart
  <2>4. CASE User /\ ~\E item \in dowList \cup favList : touchHeart(item)
    BY <2>4 DEF User, showPhotoDetail, touchBtnClose, touchBtnHeart, touchBtnDownload, dismissAlert,
                showDownloadList, leaveList, touchTab, history
  <2>5. CASE MainThread \/ didFinish \/ didFinish_report \/ racingWrites \/ daemon \/ UNCHANGED vars
    BY <2>5 DEF MainThread, runBlock, mainWriteDone, daemon, didFinish, didFinish_report, racingWrites,
                vars, history
  <2>. QED
    BY <2>2, <2>3, <2>4, <2>5 DEF Next, DelegateQueue
<1>8. SavesAreRight'
  <2>1. \A p : AskedFor(p) => AskedFor(p)'
    BY <1>1, AskedForKept
  <2>2. ASSUME NEW b \in Queued', b.kind = "save"
        PROVE  AskedFor(b.photo)' /\ b.path = LocalFile[RawUrl[b.photo]]
    <3>1. CASE b \in Queued
      BY <2>1, <2>2, <3>1 DEF LibraryTyped, SavesAreRight
    <3>2. CASE b = LoadBlock
      BY <2>2, <3>2 DEF LoadBlock
    <3>3. ASSUME didFinish_report, callback.request # NoRequest,
                 NEW p \in requests[callback.request].photo, b = SaveBlock(p, DM!Destination)
          PROVE  AskedFor(b.photo)' /\ b.path = LocalFile[RawUrl[b.photo]]
      <4>1. AskedFor(p) /\ RawUrl[p] = DM!SourceUrl
        BY <3>3, CallbackFacts DEF LibraryTyped, didFinish_report, DM!didFinish_report
      <4>2. b.photo = p /\ b.path = DM!Destination
        BY <3>3 DEF SaveBlock
      <4>. QED
        BY <2>1, <4>1, <4>2 DEF DM!Destination
    <3>. QED
      BY <3>1, <3>2, <3>3, QueueSteps
  <2>3. \A b \in Queued' : b.kind = "save" =>
           AskedFor(b.photo)' /\ b.path = LocalFile[RawUrl[b.photo]]
    BY <2>2
  <2>. QED
    BY <2>3, RecordsAreRight DEF SavesAreRight
<1>. QED
  BY <1>1, <1>2, <1>3, <1>4, <1>5, <1>6, <1>7, <1>8 DEF LibraryTyped, TypeOK

\* Every variable of the library keeps its type, and a path is only ever
\* recorded for a photo that the user asked for, under that photo's own path.
THEOREM LibraryTypes == Spec => [](TypeOK /\ SavesAreRight)
<1>1. LibraryTyped => TypeOK /\ SavesAreRight
  BY DEF LibraryTyped
<1>. QED
  BY <1>1, LibraryTypedInit, LibraryTypedNext, PTL DEF Spec

----------------------------------------------------------------------------
(* Recorded files *)

OnDisk(f) == files[f] # NoTask \/ f \in lost \/ (callback.at = "copy" /\ DM!Destination = f)

\* What is recorded, queued to be recorded or about to be reported is on disk.
SavedAreOnDisk ==
    /\ \A p \in Photos : DB!IsLocalImageDownloaded(p) => OnDisk(LocalFile[RawUrl[p]])
    /\ \A b \in Queued : b.kind = "save" => OnDisk(b.path)
    /\ callback.at = "report" => OnDisk(DM!Destination)

\* A file is never lost without a trace.
LEMMA OnDiskStays ==
    ASSUME LibraryTyped, [Next]_vars
    PROVE  /\ \A f \in Files : OnDisk(f) => OnDisk(f)'
           /\ callback'.at = "report" =>
                 callback.at \in {"copy", "report"} /\ DM!Destination' = DM!Destination
<1>. /\ files \in [Files -> Tasks \cup {NoTask}]
     /\ callback \in [at: DM!CallbackAt, task: Tasks \cup {NoTask},
                      request: Requests \cup {NoRequest}, kept: Tasks \cup {NoTask}]
  BY DEF LibraryTyped, TypeOK, DM!TypeOK
<1>1. callback.at # "idle" => DM!Destination \in Files
  BY CallbackFacts DEF LibraryTyped
<1>2. callback.at # "idle" /\ callback'.task = callback.task => DM!Destination' = DM!Destination
  BY CallbackFacts, DownloadsNext DEF LibraryTyped, Manager!Kept, DM!Destination, DM!SourceUrl
<1>3. CASE UNCHANGED <<files, callback, lost>>
  BY <1>2, <1>3 DEF OnDisk
<1>4. CASE UNCHANGED <<files, lost>> /\ callback.at # "copy" /\ callback'.at # "report"
  BY <1>4 DEF OnDisk
<1>5. ASSUME didFinish PROVE
           /\ \A f \in Files : OnDisk(f) => OnDisk(f)'
           /\ callback'.at = "report" =>
                 callback.at \in {"copy", "report"} /\ DM!Destination' = DM!Destination
  <2>1. CASE DM!didFinish_remove
    <3>1. /\ callback.at = "remove" /\ callback'.at = "copy" /\ callback'.task = callback.task
          /\ files' = [files EXCEPT ![DM!Destination] = NoTask] \/ files' = files
          /\ lost' = lost
      BY <1>5, <2>1 DEF DM!didFinish_remove, didFinish, history
    <3>. QED
      BY <1>1, <1>2, <3>1 DEF OnDisk
  <2>2. CASE DM!didFinish_clear \/ \E t \in Tasks : DM!didFinish_lookup(t)
    <3>1. UNCHANGED <<files, lost>> /\ callback.at \in {"idle", "clear"} /\ callback'.at \in {"clear", "remove"}
      BY <1>5, <2>2, CallbackStarts
         DEF didFinish, DM!didFinish_clear, DM!didFinish_lookup, DM!NoCallback, history
    <3>. QED
      BY <1>4, <3>1
  <2>. QED
    BY <1>5, <2>1, <2>2 DEF didFinish
<1>6. CASE racingWrites
  <2>1. UNCHANGED <<files, lost>> /\ callback.at = "clear" /\ callback'.at = "remove"
    BY <1>6 DEF racingWrites, DM!racingWrites, history
  <2>. QED
    BY <1>4, <2>1
<1>7. CASE didFinish_report
  <2>1. UNCHANGED <<files, lost>> /\ callback.at = "report" /\ callback'.at = "idle"
    BY <1>7 DEF didFinish_report, DM!didFinish_report, DM!NoCallback, history
  <2>. QED
    BY <1>4, <2>1
<1>8. CASE didFinish_copy
  <2>1. /\ callback.at = "copy" /\ callback'.at = "report" /\ callback'.task = callback.task
        /\ files' = [files EXCEPT ![DM!Destination] = callback.task] \/ files' = files
        /\ lost' = IF files'[DM!Destination] = NoTask THEN lost \cup {DM!Destination}
                   ELSE lost \ {DM!Destination}
    BY <1>8 DEF didFinish_copy, DM!didFinish_copy
  <2>. QED
    BY <1>1, <1>2, <2>1 DEF OnDisk
<1>9. CASE terminate
  <2>1. /\ files' = files /\ callback'.at = "idle"
        /\ lost' = IF callback.at = "copy" /\ files[DM!Destination] = NoTask
                   THEN lost \cup {DM!Destination} ELSE lost
    BY <1>9 DEF terminate, DM!terminate, DM!NoCallback
  <2>. QED
    BY <2>1 DEF OnDisk
<1>10. CASE User
  <2>1. UNCHANGED <<files, callback, lost>>
    BY <1>10 DEF User, showPhotoDetail, touchBtnClose, touchBtnHeart, touchBtnDownload, dismissAlert,
                 showDownloadList, leaveList, touchTab, touchHeart, downloadVars, history,
                 DM!startDownload
  <2>. QED
    BY <1>3, <2>1
<1>11. CASE runBlock \/ mainWriteDone \/ daemon \/ UNCHANGED vars
  <2>1. UNCHANGED <<files, callback, lost>>
    BY <1>11 DEF runBlock, mainWriteDone, DM!mainWriteDone, daemon, DM!transferCompletes, DM!transferFails,
                 vars, downloadVars, history
  <2>. QED
    BY <1>3, <2>1
<1>. QED
  BY <1>5, <1>6, <1>7, <1>8, <1>9, <1>10, <1>11 DEF Next, MainThread, DelegateQueue

LEMMA SavedAreOnDiskNext == LibraryTyped /\ SavedAreOnDisk /\ [Next]_vars => SavedAreOnDisk'
<1> SUFFICES ASSUME LibraryTyped, SavedAreOnDisk, [Next]_vars PROVE SavedAreOnDisk'
  OBVIOUS
<1>1. LibraryTyped'
  BY LibraryTypedNext
<1>2. ASSUME NEW p \in Photos, DB!IsLocalImageDownloaded(p)' PROVE OnDisk(LocalFile[RawUrl[p]])'
  <2>1. RawUrl[p] \in Urls /\ LocalFile[RawUrl[p]] \in Files
    BY <1>1, <1>2, LibraryConstants DEF LibraryTyped, SavesAreRight, AskedFor
  <2>2. CASE DB!IsLocalImageDownloaded(p)
    BY <2>1, <2>2, OnDiskStays DEF SavedAreOnDisk
  <2>3. CASE ~DB!IsLocalImageDownloaded(p)
    <3>1. runBlock /\ Saves(Head(mainQueue))
      <4>1. CASE UNCHANGED localImages
        BY <1>2, <2>3, <4>1 DEF DB!IsLocalImageDownloaded, DB!Known
      <4>2. CASE touchBtnHeart \/ \E item \in dowList \cup favList : touchHeart(item)
        <5>1. PICK q \in Photos : DB!changeFavoriteById(q) \/ DB!changeFavoriteWithDetails(q)
          BY <4>2, HeartSteps
        <5>2. DB!TypeOK
          BY DEF LibraryTyped, TypeOK
        <5>. QED
          BY <1>2, <2>3, <5>1, <5>2, HeartWrites DEF DB!IsLocalImageDownloaded, DB!Known
      <4>. QED
        BY <4>1, <4>2, RecordSteps
    <3> DEFINE b == Head(mainQueue)
    <3>2. b \in Queued /\ b.kind = "save" /\ DB!saveDownloadedFilePath(b.photo, b.path)
      BY <3>1 DEF Saves
    <3>3. b.photo = p
      BY <1>2, <2>3, <3>2 DEF DB!saveDownloadedFilePath, DB!IsLocalImageDownloaded, DB!Known,
         LibraryTyped, TypeOK, DB!TypeOK
    <3>4. OnDisk(b.path) /\ b.path = LocalFile[RawUrl[p]]
      BY <3>2, <3>3 DEF SavedAreOnDisk, LibraryTyped, SavesAreRight
    <3>. QED
      BY <2>1, <3>4, OnDiskStays
  <2>. QED
    BY <2>2, <2>3
<1>3. ASSUME NEW b \in Queued', b.kind = "save" PROVE OnDisk(b.path)'
  <2>1. b.path \in Files
    BY <1>1, <1>3, LibraryConstants DEF LibraryTyped, SavesAreRight, AskedFor
  <2>2. CASE b \in Queued
    BY <1>3, <2>1, <2>2, OnDiskStays DEF SavedAreOnDisk
  <2>3. CASE b = LoadBlock
    BY <1>3, <2>3 DEF LoadBlock
  <2>4. CASE didFinish_report /\ \E p \in requests[callback.request].photo : b = SaveBlock(p, DM!Destination)
    <3>1. callback.at = "report" /\ b.path = DM!Destination
      BY <2>4 DEF didFinish_report, DM!didFinish_report, SaveBlock
    <3>. QED
      BY <2>1, <3>1, OnDiskStays DEF SavedAreOnDisk
  <2>. QED
    BY <2>2, <2>3, <2>4, QueueSteps
<1>4. ASSUME callback'.at = "report" PROVE OnDisk(DM!Destination)'
  <2>1. callback.at \in {"copy", "report"} /\ DM!Destination' = DM!Destination
    BY <1>4, OnDiskStays
  <2>2. DM!Destination \in Files
    BY <2>1, CallbackFacts DEF LibraryTyped
  <2>3. OnDisk(DM!Destination)
    BY <2>1 DEF SavedAreOnDisk, OnDisk
  <2>4. \A f \in Files : OnDisk(f) => OnDisk(f)'
    BY OnDiskStays
  <2>5. files'[DM!Destination] # NoTask \/ DM!Destination \in lost'
    BY <1>4, <2>2, <2>3, <2>4 DEF OnDisk
  <2>. QED
    BY <2>1, <2>5 DEF OnDisk
<1>. QED
  BY <1>2, <1>3, <1>4 DEF SavedAreOnDisk

\* A photo recorded as downloaded has its file under its own path, or the
\* file is being replaced or was lost to a failed copy or a crash.
THEOREM RecordedFilesAreOnDisk == Spec => []RecordedFileOnDisk
<1>1. Init => SavedAreOnDisk
  BY DEF Init, DM!Init, DB!Init, DM!NoCallback, SavedAreOnDisk, Queued, DB!IsLocalImageDownloaded, DB!Known
<1>2. LibraryTyped /\ SavedAreOnDisk => RecordedFileOnDisk
  BY DEF LibraryTyped, SavesAreRight, SavedAreOnDisk, OnDisk, RecordedFileOnDisk
<1>. QED
  BY <1>1, <1>2, LibraryTypedInit, LibraryTypedNext, SavedAreOnDiskNext, PTL DEF Spec

----------------------------------------------------------------------------
(* Favourites *)

\* Only a heart changes a favourite.
LEMMA FavouritesStay ==
    ASSUME LibraryTyped, [Next]_vars, ~touchBtnHeart,
           ~ \E item \in dowList \cup favList : touchHeart(item)
    PROVE  \A p \in Photos : DB!IsFavorite(p)' <=> DB!IsFavorite(p)
<1>1. CASE UNCHANGED localImages
  BY <1>1 DEF DB!IsFavorite, DB!Known
<1>2. CASE Saves(Head(mainQueue))
  <2>1. PICK p \in Photos, f \in Files : DB!saveDownloadedFilePath(p, f)
    BY <1>2, LibraryConstants DEF Saves, LibraryTyped, SavesAreRight, AskedFor
  <2>2. /\ \A q \in Photos \ {p} : localImages'[q] = localImages[q]
        /\ DB!IsFavorite(p)' <=> DB!IsFavorite(p)
    BY <2>1, SaveWrites DEF LibraryTyped, TypeOK
  <2>. QED
    BY <2>2 DEF DB!IsFavorite, DB!Known
<1>. QED
  BY <1>1, <1>2, RecordSteps

\* The heart of the Detail screen, as an equivalence.
HeartAgrees ==
    \A p \in Photos : screen = "detail" /\ detail.photo = p => (detail.isFavorite <=> DB!IsFavorite(p))

LEMMA HeartAgreesNext == LibraryTyped /\ HeartAgrees /\ [Next]_vars => HeartAgrees'
<1> SUFFICES ASSUME LibraryTyped, HeartAgrees, [Next]_vars,
                    NEW p \in Photos, screen' = "detail", detail'.photo = p
             PROVE  detail'.isFavorite <=> DB!IsFavorite(p)'
  BY DEF HeartAgrees
<1>0. /\ detail \in [photo: Photos \cup {NoPhoto}, isFavorite: BOOLEAN, alert: BOOLEAN]
      /\ screen = "detail" => detail.photo \in Photos
  BY DEF LibraryTyped, Downloads, DetailHasPhoto
<1>1. ASSUME NEW q \in Photos, showPhotoDetail(q)
      PROVE  detail'.isFavorite <=> DB!IsFavorite(p)'
  <2>1. detail'.photo = q /\ (detail'.isFavorite <=> DB!IsFavorite(q)) /\ UNCHANGED localImages
    BY <1>1 DEF showPhotoDetail
  <2>. QED
    BY <2>1 DEF DB!IsFavorite, DB!Known
<1>2. CASE touchBtnHeart
  <2>1. screen = "detail" /\ DB!changeFavoriteWithDetails(detail.photo)
        /\ detail' = [detail EXCEPT !.isFavorite = ~@]
    BY <1>2 DEF touchBtnHeart, OnDetail
  <2>2. detail.photo = p
    BY <1>0, <2>1
  <2>3. detail'.isFavorite <=> ~detail.isFavorite
    BY <1>0, <2>1
  <2>4. DB!IsFavorite(p)' <=> ~DB!IsFavorite(p)
    BY <2>1, <2>2, HeartWrites DEF LibraryTyped, TypeOK
  <2>. QED
    BY <2>1, <2>2, <2>3, <2>4 DEF HeartAgrees
<1>3. ASSUME NEW item \in dowList \cup favList, touchHeart(item) PROVE FALSE
  BY <1>3 DEF touchHeart, uiVars
<1>4. CASE /\ screen = "detail" /\ detail'.photo = detail.photo /\ detail'.isFavorite = detail.isFavorite
           /\ ~touchBtnHeart
  <2>1. DB!IsFavorite(p)' <=> DB!IsFavorite(p)
    BY <1>3, <1>4, FavouritesStay
  <2>. QED
    BY <1>4, <2>1 DEF HeartAgrees
<1>5. CASE /\ User /\ ~touchBtnHeart /\ ~ \E item \in dowList \cup favList : touchHeart(item)
           /\ ~ \E q \in Photos : showPhotoDetail(q)
  <2>1. screen = "detail" /\ detail'.photo = detail.photo /\ detail'.isFavorite = detail.isFavorite
    BY <1>0, <1>5 DEF User, touchBtnClose, touchBtnDownload, dismissAlert, showDownloadList, leaveList,
                      touchTab, uiVars
  <2>. QED
    BY <1>4, <1>5, <2>1
<1>6. CASE ~User
  <2>1. UNCHANGED <<screen, detail>>
    BY <1>6 DEF Next, MainThread, DelegateQueue, runBlock, mainWriteDone, daemon, didFinish, didFinish_copy,
                didFinish_report, racingWrites, terminate, uiVars, vars
  <2>2. ~touchBtnHeart
    BY <1>6 DEF User
  <2>. QED
    BY <1>4, <2>1, <2>2
<1>. QED
  BY <1>1, <1>2, <1>3, <1>5, <1>6

LEMMA SameTruth == ASSUME NEW a \in BOOLEAN, NEW b \in BOOLEAN, a <=> b PROVE a = b
  OBVIOUS

\* The heart that the Detail screen shows is the record's at all times.
THEOREM DetailHeart == Spec => []DetailHeartAgrees
<1>1. Init => HeartAgrees
  BY DEF Init, HeartAgrees
<1>2. LibraryTyped /\ HeartAgrees => DetailHeartAgrees
  <2> SUFFICES ASSUME LibraryTyped, HeartAgrees, screen = "detail"
               PROVE  detail.isFavorite = DB!IsFavorite(detail.photo)
    BY DEF DetailHeartAgrees
  <2>1. detail.isFavorite \in BOOLEAN
    BY DEF LibraryTyped, TypeOK
  <2>2. DB!IsFavorite(detail.photo) \in BOOLEAN
    BY DEF DB!IsFavorite
  <2>3. detail.isFavorite <=> DB!IsFavorite(detail.photo)
    BY DEF HeartAgrees, LibraryTyped, Downloads, DetailHasPhoto
  <2>. QED
    BY <2>1, <2>2, <2>3, SameTruth
<1>. QED
  BY <1>1, <1>2, LibraryTypedInit, LibraryTypedNext, HeartAgreesNext, PTL DEF Spec

----------------------------------------------------------------------------
(* The Favourites tab *)

\* The Favourites tab is current, and lists its items as favourites.
TabIsCurrent ==
    /\ FavouritesTabIsCurrent
    /\ \A item \in favList : item.favorite

LEMMA LoadIsCurrent ==
    ASSUME DB!TypeOK', loadData
    PROVE  /\ \A p \in Photos : DB!IsFavorite(p)' <=> p \in List!IdsOf(favList)'
           /\ \A item \in favList' : item.favorite
<1> DEFINE liked == {p \in Photos : localImages'[p] # NoRecord /\ localImages'[p].favorite}
<1>1. favList' = {List!FromRecord(p, localImages'[p]) : p \in liked}
  BY DEF loadData, List!loadData
<1>2. \A p \in liked : List!FromRecord(p, localImages'[p]).id = p
  BY DEF List!FromRecord
<1>3. \A p \in liked : List!FromRecord(p, localImages'[p]).favorite
  BY DEF List!FromRecord
<1>4. \A p \in Photos : DB!IsFavorite(p)' <=> p \in liked
  BY DEF DB!IsFavorite, DB!Known
<1> HIDE DEF liked
<1>5. List!IdsOf(favList)' = liked
  BY <1>1, <1>2 DEF List!IdsOf
<1>. QED
  BY <1>1, <1>3, <1>4, <1>5

LEMMA TabIsCurrentNext == LibraryTyped /\ TabIsCurrent /\ [Next]_vars => TabIsCurrent'
<1> SUFFICES ASSUME LibraryTyped, TabIsCurrent, [Next]_vars PROVE TabIsCurrent'
  OBVIOUS
<1>. DB!TypeOK /\ DB!TypeOK' /\ mainQueue \in Seq(Block)
  BY LibraryTypedNext DEF LibraryTyped, TypeOK
<1>1. CASE loadData
  BY <1>1, LoadIsCurrent DEF TabIsCurrent, FavouritesTabIsCurrent
<1>2. ASSUME UNCHANGED <<dowList, favList>>,
             screen' = "list" => screen = "list" /\ (LoadIsQueued => LoadIsQueued'),
             ~touchBtnHeart, ~ \E item \in dowList \cup favList : touchHeart(item)
      PROVE  TabIsCurrent'
  <2>1. \A p \in Photos : DB!IsFavorite(p)' <=> DB!IsFavorite(p)
    BY <1>2, FavouritesStay
  <2>2. \A item \in favList' : item.favorite
    BY <1>2 DEF TabIsCurrent
  <2>3. List!IdsOf(dowList)' = List!IdsOf(dowList) /\ List!IdsOf(favList)' = List!IdsOf(favList)
    BY <1>2 DEF List!IdsOf
  <2>. QED
    BY <1>2, <2>1, <2>2, <2>3 DEF TabIsCurrent, FavouritesTabIsCurrent
<1>3. CASE screen' # "list" /\ (UNCHANGED favList \/ favList' = {})
  BY <1>3 DEF TabIsCurrent, FavouritesTabIsCurrent
<1>4. ASSUME NEW item \in dowList \cup favList, touchHeart(item) PROVE TabIsCurrent'
  <2> DEFINE p == item.id
  <2>1. p \in Photos
    BY DEF LibraryTyped, TypeOK, List!TypeOK, List!Item
  <2>2. UNCHANGED uiVars /\ DB!changeFavoriteById(p)
    BY <1>4 DEF touchHeart
  <2>3. \A q \in Photos \ {p} : DB!IsFavorite(q)' <=> DB!IsFavorite(q)
    BY <2>1, <2>2, HeartWrites DEF DB!IsFavorite, DB!Known
  <2>4. DB!IsFavorite(p)' <=> ~DB!IsFavorite(p)
    BY <2>1, <2>2, HeartWrites
  <2>5. (LoadIsQueued' <=> LoadIsQueued) /\ screen' = screen
    BY <2>2 DEF LoadIsQueued, uiVars
  <2>6. CASE item \in dowList /\ UNCHANGED <<dowList, favList>>
    <3>1. p \in List!IdsOf(dowList)
      BY <2>6 DEF List!IdsOf
    <3>2. List!IdsOf(dowList)' = List!IdsOf(dowList) /\ List!IdsOf(favList)' = List!IdsOf(favList)
      BY <2>6 DEF List!IdsOf
    <3>. QED
      BY <2>3, <2>5, <2>6, <3>1, <3>2 DEF TabIsCurrent, FavouritesTabIsCurrent
  <2>7. CASE item \in favList /\ List!heartInFavorites(item)
    <3>1. item.favorite
      BY <2>7 DEF TabIsCurrent
    <3>2. favList' = {x \in favList : x.id # p} /\ dowList' = dowList
      BY <2>7, <3>1 DEF List!heartInFavorites
    <3>3. List!IdsOf(dowList)' = List!IdsOf(dowList)
      BY <3>2 DEF List!IdsOf
    <3>4. /\ \A q \in Photos \ {p} : q \in List!IdsOf(favList)' <=> q \in List!IdsOf(favList)
          /\ p \notin List!IdsOf(favList)' /\ p \in List!IdsOf(favList)
      BY <2>7, <3>2 DEF List!IdsOf
    <3>5. \A x \in favList' : x.favorite
      BY <3>2 DEF TabIsCurrent
    <3>. QED
      BY <2>1, <2>3, <2>4, <2>5, <3>3, <3>4, <3>5 DEF TabIsCurrent, FavouritesTabIsCurrent
  <2>. QED
    BY <1>1, <1>4, <2>6, <2>7 DEF touchHeart, List!heartInDownloads, loadData
<1>5. CASE touchBtnHeart
  <2>1. screen' # "list" /\ UNCHANGED favList
    BY <1>5 DEF touchBtnHeart, OnDetail, listVars
  <2>. QED
    BY <1>3, <2>1
<1> DEFINE Hearts == touchBtnHeart \/ \E item \in dowList \cup favList : touchHeart(item)
<1>6. CASE runBlock
  BY <1>1, <1>3, <1>6 DEF runBlock
<1>7. CASE leaveList \/ terminate
  BY <1>3, <1>7 DEF leaveList, terminate, List!BecomesEmpty
<1>8. CASE showDownloadList
  <2>1. LoadIsQueued' /\ favList' = {}
    <3>1. LoadBlock \in Block /\ LoadBlock.kind = "load"
      BY DEF LoadBlock, Block
    <3>2. mainQueue' = Append(mainQueue, LoadBlock) /\ favList' = {}
      BY <1>8 DEF showDownloadList, List!BecomesEmpty
    <3>3. Len(mainQueue) + 1 \in DOMAIN mainQueue' /\ mainQueue'[Len(mainQueue) + 1] = LoadBlock
      BY <3>1, <3>2
    <3>. QED
      BY <3>1, <3>2, <3>3 DEF LoadIsQueued
  <2>. QED
    BY <2>1 DEF TabIsCurrent, FavouritesTabIsCurrent
<1>9. CASE didFinish_report
  <2>1. UNCHANGED <<dowList, favList, screen>>
    BY <1>9 DEF didFinish_report, listVars
  <2>2. LoadIsQueued => LoadIsQueued'
    <3>1. CASE UNCHANGED mainQueue
      BY <3>1 DEF LoadIsQueued
    <3>2. ASSUME NEW b, mainQueue' = Append(mainQueue, b) PROVE LoadIsQueued => LoadIsQueued'
      <4>1. \A i \in DOMAIN mainQueue : i \in DOMAIN mainQueue' /\ mainQueue'[i] = mainQueue[i]
        BY <3>2
      <4>. QED
        BY <4>1 DEF LoadIsQueued
    <3>. QED
      BY <1>9, <3>1, <3>2 DEF didFinish_report
  <2>. QED
    BY <1>2, <1>4, <1>5, <2>1, <2>2
<1>10. ASSUME UNCHANGED <<dowList, favList, mainQueue>>, screen' = "list" => screen = "list", ~Hearts
       PROVE  TabIsCurrent'
  BY <1>2, <1>10 DEF LoadIsQueued
<1> HIDE DEF Hearts
<1>11. Hearts => TabIsCurrent'
  BY <1>4, <1>5 DEF Hearts
<1>12. CASE mainWriteDone \/ racingWrites \/ daemon \/ didFinish \/ didFinish_copy \/ UNCHANGED vars
  <2>1. UNCHANGED <<dowList, favList, mainQueue, screen>>
    BY <1>12 DEF mainWriteDone, racingWrites, daemon, didFinish, didFinish_copy, vars, listVars, uiVars
  <2>. QED
    BY <1>10, <1>11, <2>1
<1>13. ASSUME \/ \E p \in Photos : showPhotoDetail(p)
              \/ touchBtnClose \/ touchBtnDownload \/ dismissAlert
              \/ \E downloads \in BOOLEAN : touchTab(downloads)
       PROVE  TabIsCurrent'
  <2>1. UNCHANGED <<dowList, favList, mainQueue>> /\ (screen' = "list" => screen = "list")
    BY <1>13 DEF showPhotoDetail, touchBtnClose, touchBtnDownload, dismissAlert, touchTab, List!touchTab,
                 listVars, uiVars
  <2>. QED
    BY <1>10, <1>11, <2>1
<1>. QED
  BY <1>4, <1>5, <1>6, <1>7, <1>8, <1>9, <1>12, <1>13 DEF Next, User, MainThread, DelegateQueue

\* Apart from photos of the Downloads tab, the Favourites tab lists the
\* favourites, once its loadData has run.
THEOREM FavouritesTab == Spec => []FavouritesTabIsCurrent
<1>1. Init => TabIsCurrent
  BY DEF Init, List!Empty, TabIsCurrent, FavouritesTabIsCurrent
<1>2. TabIsCurrent => FavouritesTabIsCurrent
  BY DEF TabIsCurrent
<1>. QED
  BY <1>1, <1>2, LibraryTypedInit, LibraryTypedNext, TabIsCurrentNext, PTL DEF Spec

----------------------------------------------------------------------------
(* Records can be shown *)

\* A record that a heart created in the cell of a running download.
Incomplete(p) == p \in hearted /\ ~DB!IsLocalImageDownloaded(p)

\* What a heart tapped on the Collection screen finds: a cell of a photo with a
\* record, or one of a running download.
Presentable ==
    /\ \A p \in Photos : DB!Known(p) => Showable(p) \/ Incomplete(p)
    /\ \A item \in dowList \cup favList : DB!Known(item.id) \/ item.isDownloading

\* Tapping a heart in a cell changes nothing else of a record; tapping it on
\* Detail completes the record, and so does saving a path.
LEMMA HeartForm ==
    ASSUME DB!TypeOK, NEW p \in Photos
    PROVE  /\ DB!changeFavoriteById(p) /\ DB!Known(p) /\ Showable(p) => Showable(p)'
           /\ DB!changeFavoriteWithDetails(p) => Showable(p)'
           /\ \A f \in Files : DB!saveDownloadedFilePath(p, f) => Showable(p)'
<1>1. \A k \in DB!LocalImage :
         /\ DB!Toggled(k).sized = k.sized /\ DB!Toggled(k).urlRegular = k.urlRegular
         /\ DB!Toggled(k).localImagePath = k.localImagePath
         /\ DB!Toggled(k) \in DB!LocalImage
  BY DEF DB!LocalImage, DB!Toggled
<1>2. \A k \in DB!LocalImage : DB!WithDetails(k).sized /\ DB!WithDetails(k).urlRegular
  BY DEF DB!LocalImage, DB!WithDetails
<1>3. DB!NewImage \in DB!LocalImage /\ [DB!NewImage EXCEPT !.favorite = TRUE] \in DB!LocalImage
  BY DEF DB!LocalImage, DB!NewImage
<1>4. ASSUME DB!changeFavoriteById(p), DB!Known(p), Showable(p) PROVE Showable(p)'
  <2>1. localImages'[p] = DB!Toggled(localImages[p]) /\ localImages[p] \in DB!LocalImage
    BY <1>4 DEF DB!changeFavoriteById, DB!Known, DB!TypeOK
  <2>. QED
    BY <1>1, <1>4, <2>1 DEF Showable
<1>5. ASSUME DB!changeFavoriteWithDetails(p) PROVE Showable(p)'
  <2>1. \E k \in DB!LocalImage : localImages'[p] = DB!WithDetails(k)
    <3>1. CASE DB!Known(p)
      <4>1. localImages[p] \in DB!LocalImage
        BY <3>1 DEF DB!Known, DB!TypeOK
      <4>2. localImages'[p] = DB!WithDetails(DB!Toggled(localImages[p]))
        BY <1>5, <3>1 DEF DB!changeFavoriteWithDetails, DB!TypeOK
      <4>. QED
        BY <1>1, <4>1, <4>2
    <3>2. CASE ~DB!Known(p)
      <4>1. localImages'[p] = DB!WithDetails([DB!NewImage EXCEPT !.favorite = TRUE])
        BY <1>5, <3>2 DEF DB!changeFavoriteWithDetails, DB!TypeOK
      <4>. QED
        BY <1>3, <4>1
    <3>. QED
      BY <3>1, <3>2
  <2>. QED
    BY <1>2, <2>1 DEF Showable
<1>6. ASSUME NEW f \in Files, DB!saveDownloadedFilePath(p, f) PROVE Showable(p)'
  <2> DEFINE k == IF DB!Known(p) THEN localImages[p] ELSE DB!NewImage
  <2>1. k \in DB!LocalImage
    BY <1>3 DEF DB!Known, DB!TypeOK
  <2>2. localImages'[p] = [k EXCEPT !.localImagePath = f, !.isDownloaded = TRUE, !.sized = TRUE]
    BY <1>6 DEF DB!saveDownloadedFilePath, DB!TypeOK
  <2> HIDE DEF k
  <2>3. localImages'[p].sized /\ localImages'[p].localImagePath = f
    BY <2>1, <2>2 DEF DB!LocalImage
  <2>. QED
    BY <2>3, LibraryConstants DEF Showable
<1>. QED
  BY <1>4, <1>5, <1>6

LEMMA HeartsStay == [Next]_vars => hearted \subseteq hearted'
<1>1. CASE \E item \in dowList \cup favList : touchHeart(item)
  BY <1>1 DEF touchHeart
<1>2. CASE User /\ ~\E item \in dowList \cup favList : touchHeart(item)
  BY <1>2 DEF User, showPhotoDetail, touchBtnClose, touchBtnHeart, touchBtnDownload, dismissAlert,
              showDownloadList, leaveList, touchTab, history
<1>3. CASE MainThread \/ DelegateQueue \/ daemon \/ terminate \/ UNCHANGED vars
  BY <1>3 DEF MainThread, DelegateQueue, runBlock, mainWriteDone, daemon, didFinish, didFinish_copy,
              didFinish_report, racingWrites, terminate, vars, history
<1>. QED
  BY <1>1, <1>2, <1>3 DEF Next

LEMMA PresentableNext == LibraryTyped /\ Presentable /\ [Next]_vars => Presentable'
<1> SUFFICES ASSUME LibraryTyped, Presentable, [Next]_vars PROVE Presentable'
  OBVIOUS
<1>. DB!TypeOK
  BY DEF LibraryTyped, TypeOK
<1>1. hearted \subseteq hearted'
  BY HeartsStay
<1>2. \A item \in dowList \cup favList : item.id \in Photos
  BY DEF LibraryTyped, TypeOK, List!TypeOK, List!Item
<1>3. /\ \A p \in Photos : DB!Known(p) => DB!Known(p)'
      /\ \A p \in Photos : DB!Known(p)' => Showable(p)' \/ Incomplete(p)'
  <2>1. CASE UNCHANGED localImages
    BY <1>1, <2>1 DEF Presentable, DB!Known, Showable, Incomplete, DB!IsLocalImageDownloaded
  <2>2. ASSUME NEW q \in Photos, \A p \in Photos \ {q} : localImages'[p] = localImages[p],
               DB!Known(q)', Showable(q)' \/ Incomplete(q)'
        PROVE  /\ \A p \in Photos : DB!Known(p) => DB!Known(p)'
               /\ \A p \in Photos : DB!Known(p)' => Showable(p)' \/ Incomplete(p)'
    BY <1>1, <2>2 DEF Presentable, DB!Known, Showable, Incomplete, DB!IsLocalImageDownloaded
  <2>3. CASE touchBtnHeart
    <3>1. detail.photo \in Photos /\ DB!changeFavoriteWithDetails(detail.photo)
      BY <2>3 DEF touchBtnHeart, OnDetail, LibraryTyped, Downloads, DetailHasPhoto
    <3>2. PICK q \in Photos : DB!changeFavoriteWithDetails(q)
      BY <3>1
    <3>. QED
      BY <2>2, <3>2, HeartWrites, HeartForm
  <2>4. ASSUME NEW item \in dowList \cup favList, touchHeart(item)
        PROVE  /\ \A p \in Photos : DB!Known(p) => DB!Known(p)'
               /\ \A p \in Photos : DB!Known(p)' => Showable(p)' \/ Incomplete(p)'
    <3>1. PICK q \in Photos : q = item.id /\ DB!changeFavoriteById(q)
      BY <1>2, <2>4 DEF touchHeart
    <3>2. /\ \A p \in Photos \ {q} : localImages'[p] = localImages[p]
          /\ DB!Known(q)'
          /\ DB!IsLocalImageDownloaded(q)' <=> DB!IsLocalImageDownloaded(q)
      BY <3>1, HeartWrites
    <3>3. CASE ~DB!Known(q)
      <4>1. q \in hearted'
        BY <2>4, <3>1, <3>3 DEF touchHeart, Presentable
      <4>. QED
        BY <2>2, <3>2, <3>3, <4>1 DEF Incomplete, DB!IsLocalImageDownloaded
    <3>4. CASE DB!Known(q)
      BY <1>1, <2>2, <3>1, <3>2, <3>4, HeartForm DEF Presentable, Incomplete
    <3>. QED
      BY <3>3, <3>4
  <2>5. CASE Saves(Head(mainQueue))
    <3>1. PICK q \in Photos, f \in Files : DB!saveDownloadedFilePath(q, f)
      BY <2>5, LibraryConstants DEF Saves, LibraryTyped, SavesAreRight, AskedFor
    <3>. QED
      BY <2>2, <3>1, SaveWrites, HeartForm DEF DB!IsLocalImageDownloaded
  <2>. QED
    BY <2>1, <2>3, <2>4, <2>5, RecordSteps
<1>4. ASSUME NEW item \in dowList' \cup favList' PROVE DB!Known(item.id)' \/ item.isDownloading
  <2>1. CASE item \in dowList \cup favList
    BY <1>2, <1>3, <2>1 DEF Presentable
  <2>2. CASE loadData
    <3>1. \A p : /\ List!FromRecord(p, localImages'[p]).id = p
                  /\ List!FromDownload(p).isDownloading
      BY DEF List!FromRecord, List!FromDownload
    <3>2. \/ \E p \in Downloading : item = List!FromDownload(p)
          \/ \E p \in Photos : localImages'[p] # NoRecord /\ item = List!FromRecord(p, localImages'[p])
      BY <2>2 DEF loadData, List!loadData
    <3>. QED
      BY <3>1, <3>2 DEF DB!Known
  <2>3. \/ loadData \/ dowList' \cup favList' \subseteq dowList \cup favList
    <3>1. CASE List!BecomesEmpty
      BY <3>1 DEF List!BecomesEmpty
    <3>2. CASE UNCHANGED <<dowList, favList>>
      BY <3>2
    <3>3. CASE runBlock
      BY <3>2, <3>3 DEF runBlock
    <3>4. ASSUME NEW x \in dowList \cup favList, touchHeart(x)
          PROVE  loadData \/ dowList' \cup favList' \subseteq dowList \cup favList
      BY <3>4 DEF touchHeart, List!heartInDownloads, List!heartInFavorites, loadData
    <3>5. CASE showDownloadList \/ leaveList \/ terminate
      BY <3>1, <3>5 DEF showDownloadList, leaveList, terminate
    <3>6. CASE \/ \E p \in Photos : showPhotoDetail(p)
               \/ touchBtnClose \/ touchBtnHeart \/ touchBtnDownload \/ dismissAlert
               \/ \E downloads \in BOOLEAN : touchTab(downloads)
      BY <3>2, <3>6 DEF showPhotoDetail, touchBtnClose, touchBtnHeart, touchBtnDownload, dismissAlert,
                        touchTab, List!touchTab, listVars
    <3>7. CASE mainWriteDone \/ racingWrites \/ daemon \/ didFinish \/ didFinish_copy \/ didFinish_report
               \/ UNCHANGED vars
      BY <3>2, <3>7 DEF mainWriteDone, racingWrites, daemon, didFinish, didFinish_copy, didFinish_report,
                        vars, listVars
    <3>. QED
      BY <3>3, <3>4, <3>5, <3>6, <3>7 DEF Next, User, MainThread, DelegateQueue
  <2>. QED
    BY <2>1, <2>2, <2>3
<1>. QED
  BY <1>3, <1>4 DEF Presentable

\* A record can be shown, unless a heart tapped in the cell of its running
\* download created it and that download is not saved yet.
THEOREM RecordsAreShown == Spec => []RecordsCanBeShown
<1>1. Init => Presentable
  BY DEF Init, DB!Init, List!Empty, Presentable, DB!Known
<1>2. Presentable => RecordsCanBeShown
  BY DEF Presentable, Incomplete, KnownIds, RecordsCanBeShown
<1>. QED
  BY <1>1, <1>2, LibraryTypedInit, LibraryTypedNext, PresentableNext, PTL DEF Spec

----------------------------------------------------------------------------
(* One transfer for each photo *)

\* A task of this process that runs, or whose callback is still to clear the
\* dictionary.
Active(t) ==
    /\ ~tasks[t].inherited
    /\ DM!Live(t) \/ (callback.at = "clear" /\ callback.task = t)

\* The dictionary lost a write for the URL, or an entry to the callback of a
\* task of an earlier process.
Excused(u) ==
    \/ u \in raced
    \/ \E k \in Tasks : tasks[k].inherited /\ tasks[k].state = "delivered" /\ tasks[k].url = u

\* An active task is in the dictionary, or about to be, so that startDownload
\* finds it there.
OneActive ==
    /\ \A s, t \in Tasks :
          s # t /\ Active(s) /\ Active(t) /\ tasks[s].url = tasks[t].url => Excused(tasks[s].url)
    /\ \A t \in Tasks : Active(t) =>
          \/ activeDownloads[tasks[t].url] # NoRequest
          \/ mainWrite.url = tasks[t].url /\ mainWrite.request # NoRequest
          \/ Excused(tasks[t].url)
    /\ ~DM!MainIdle => mainWrite.request # NoRequest

\* The steps that start no transfer and leave the dictionary alone.
NoneStarts ==
    /\ \A t \in Tasks : Active(t)' => Active(t) /\ tasks'[t].url = tasks[t].url
    /\ \A u : Excused(u) => Excused(u)'
    /\ UNCHANGED <<activeDownloads, mainWrite>>

LEMMA NoneStartsKeeps == OneActive /\ NoneStarts => OneActive'
  BY DEF OneActive, NoneStarts, DM!MainIdle, DM!NoWrite

LEMMA OneActiveNext == LibraryTyped /\ OneActive /\ [Next]_vars => OneActive'
<1> SUFFICES ASSUME LibraryTyped, OneActive, [Next]_vars PROVE OneActive'
  OBVIOUS
<1>0. /\ tasks \in [Tasks -> DM!Task]
      /\ activeDownloads \in [Urls -> Requests \cup {NoRequest}]
      /\ callback \in [at: DM!CallbackAt, task: Tasks \cup {NoTask},
                       request: Requests \cup {NoRequest}, kept: Tasks \cup {NoTask}]
      /\ mainWrite \in [url: Urls \cup {NoUrl}, request: Requests \cup {NoRequest}]
  BY DEF LibraryTyped, TypeOK, DM!TypeOK
<1>00. /\ \A t \in Tasks : tasks[t].state # "unused" => tasks[t].url \in Urls
       /\ ~DM!MainIdle => mainWrite.url \in Urls
       /\ callback.at # "idle" => callback.task \in Tasks /\ tasks[callback.task].state = "delivered"
                                  /\ DM!SourceUrl \in Urls
  BY CallbackFacts DEF LibraryTyped, Downloads, Manager!Typed, Manager!Bookkeeping, DM!MainIdle,
                       DM!NoWrite, Manager!NoWrite
<1>1. \A t \in Tasks : Active(t) => tasks[t].url \in Urls
  BY <1>00 DEF Active, DM!Live
<1>2. ASSUME NEW p \in Photos, DM!startDownload(p) PROVE OneActive'
  <2> DEFINE u == RawUrl[p]
  <2>1. PICK r \in Requests, t \in Tasks :
          /\ tasks[t] = DM!UnusedTask
          /\ tasks' = [tasks EXCEPT ![t] = DM!NewTask(u, r)]
          /\ mainWrite' = [url |-> u, request |-> r]
    BY <1>2 DEF DM!startDownload
  <2>2. /\ DM!MainIdle /\ activeDownloads[u] = NoRequest
        /\ UNCHANGED <<activeDownloads, callback, raced>>
    BY <1>2 DEF DM!startDownload, DM!EntryOf
  <2>3. /\ tasks'[t].url = u
        /\ tasks[t].state = "unused" /\ ~tasks[t].inherited
        /\ \A s \in Tasks \ {t} : tasks'[s] = tasks[s]
    BY <1>0, <2>1 DEF DM!UnusedTask, DM!NewTask
  <2>4. \A s \in Tasks \ {t} : Active(s)' <=> Active(s)
    BY <2>2, <2>3 DEF Active, DM!Live
  <2>5. \A v : Excused(v) => Excused(v)'
    BY <2>2, <2>3 DEF Excused
  <2>6. \A s \in Tasks \ {t} : Active(s) =>
           activeDownloads[tasks[s].url] # NoRequest \/ Excused(tasks[s].url)
    BY <2>2 DEF OneActive, DM!MainIdle, DM!NoWrite
  <2>7. \A s \in Tasks \ {t} : Active(s)' /\ tasks'[s].url = u => Excused(u)'
    BY <2>2, <2>3, <2>4, <2>5, <2>6
  <2>8. \A s, k \in Tasks \ {t} : \A v :
           s # k /\ Active(s)' /\ Active(k)' /\ tasks'[s].url = v /\ tasks'[k].url = v => Excused(v)'
    BY <2>3, <2>4, <2>5 DEF OneActive
  <2>9. mainWrite'.url = u /\ mainWrite'.request # NoRequest
    BY <2>1, LibraryConstants
  <2>. QED
    BY <2>2, <2>3, <2>4, <2>5, <2>6, <2>7, <2>8, <2>9 DEF OneActive
<1>3. CASE DM!mainWriteDone
  <2>1. /\ mainWrite.request # NoRequest /\ mainWrite.url \in Urls
        /\ activeDownloads' = [activeDownloads EXCEPT ![mainWrite.url] = mainWrite.request]
        /\ UNCHANGED <<tasks, callback, raced>> /\ mainWrite' = DM!NoWrite
    BY <1>3, <1>00 DEF DM!mainWriteDone, OneActive
  <2>2. /\ \A t \in Tasks : Active(t)' <=> Active(t)
        /\ \A v : Excused(v)' <=> Excused(v)
    BY <2>1 DEF Active, DM!Live, Excused
  <2>3. \A v \in Urls : activeDownloads[v] # NoRequest \/ mainWrite.url = v => activeDownloads'[v] # NoRequest
    BY <1>0, <2>1
  <2>. QED
    BY <1>1, <2>1, <2>2, <2>3 DEF OneActive, DM!MainIdle
<1>4. ASSUME NEW t \in Tasks, DM!transferCompletes(t) \/ DM!transferFails(t) \/ DM!didFinish_lookup(t)
      PROVE  NoneStarts
  <2>1. /\ UNCHANGED <<activeDownloads, mainWrite, raced>>
        /\ \A s \in Tasks \ {t} : tasks'[s] = tasks[s]
        /\ tasks'[t].url = tasks[t].url /\ tasks'[t].inherited = tasks[t].inherited /\ DM!Live(t)
        /\ tasks[t].state # "delivered"
    BY <1>0, <1>4 DEF DM!transferCompletes, DM!transferFails, DM!didFinish_lookup, DM!Live, DM!Task
  <2>2. UNCHANGED callback \/ (callback.at = "idle" /\ callback'.task = t)
    BY <1>4, CallbackStarts DEF DM!transferCompletes, DM!transferFails, DM!didFinish_lookup, DM!NoCallback
  <2>3. \A s \in Tasks : Active(s)' => Active(s) /\ tasks'[s].url = tasks[s].url
    BY <2>1, <2>2 DEF Active, DM!Live
  <2>4. \A v : Excused(v) => Excused(v)'
    BY <2>1 DEF Excused
  <2>. QED
    BY <2>1, <2>3, <2>4 DEF NoneStarts
<1>5. ASSUME UNCHANGED tasks, callback.at = "clear", callback'.at = "remove"
      PROVE  /\ \A t \in Tasks : Active(t)' => Active(t) /\ t # callback.task
             /\ \A s \in Tasks : Active(s)' /\ tasks[s].url = DM!SourceUrl => Excused(DM!SourceUrl)
  <2>1. \A t \in Tasks : Active(t)' => Active(t) /\ t # callback.task
    BY <1>5, <1>00 DEF Active, DM!Live
  <2>2. Active(callback.task) \/ Excused(DM!SourceUrl)
    BY <1>5, <1>00 DEF Active, Excused, DM!SourceUrl
  <2>. QED
    BY <1>5, <1>00, <2>1, <2>2 DEF OneActive, DM!SourceUrl
<1>6. CASE DM!didFinish_clear
  <2>1. /\ callback.at = "clear" /\ callback'.at = "remove" /\ UNCHANGED <<tasks, mainWrite, raced>>
        /\ activeDownloads' = [activeDownloads EXCEPT ![DM!SourceUrl] = NoRequest]
    BY <1>0, <1>6 DEF DM!didFinish_clear
  <2>2. \A v : Excused(v)' <=> Excused(v)
    BY <2>1 DEF Excused
  <2>3. \A v \in Urls : v # DM!SourceUrl => activeDownloads'[v] = activeDownloads[v]
    BY <1>0, <2>1
  <2>4. \A t \in Tasks : Active(t)' => Active(t) /\ (tasks[t].url = DM!SourceUrl => Excused(DM!SourceUrl))
    BY <1>5, <2>1
  <2>. QED
    BY <1>1, <2>1, <2>2, <2>3, <2>4 DEF OneActive, DM!MainIdle, DM!NoWrite
<1>7. CASE DM!racingWrites
  <2>1. /\ callback.at = "clear" /\ callback'.at = "remove" /\ UNCHANGED tasks /\ mainWrite' = DM!NoWrite
        /\ mainWrite.url \in Urls /\ mainWrite.request # NoRequest
        /\ \/ /\ activeDownloads' = [activeDownloads EXCEPT ![mainWrite.url] = mainWrite.request]
              /\ raced' = raced \cup {DM!SourceUrl}
           \/ /\ activeDownloads' = [activeDownloads EXCEPT ![DM!SourceUrl] = NoRequest]
              /\ raced' = raced \cup {mainWrite.url}
    BY <1>0, <1>00, <1>7 DEF DM!racingWrites, OneActive
  <2>2. \A v : Excused(v) => Excused(v)'
    BY <2>1 DEF Excused
  <2>3. \A v \in Urls : activeDownloads[v] # NoRequest \/ mainWrite.url = v =>
           activeDownloads'[v] # NoRequest \/ v = DM!SourceUrl \/ Excused(v)'
    BY <1>0, <2>1 DEF Excused
  <2>4. \A t \in Tasks : Active(t)' => Active(t) /\ (tasks[t].url = DM!SourceUrl => Excused(DM!SourceUrl))
    BY <1>5, <2>1
  <2>. QED
    BY <1>1, <2>1, <2>2, <2>3, <2>4 DEF OneActive, DM!MainIdle
<1>8. CASE DM!didFinish_remove \/ DM!didFinish_copy \/ DM!didFinish_report \/ UNCHANGED downloadVars
  <2>1. /\ UNCHANGED <<activeDownloads, mainWrite, raced, tasks>>
        /\ UNCHANGED callback \/ callback'.at # "clear"
    <3>1. ASSUME DM!didFinish_remove
          PROVE  /\ UNCHANGED <<activeDownloads, mainWrite, raced, tasks>>
                 /\ callback'.at = "copy"
      BY <1>0, <3>1 DEF DM!didFinish_remove
    <3>2. CASE DM!didFinish_copy \/ DM!didFinish_report \/ UNCHANGED downloadVars
      BY <1>0, <3>2 DEF DM!didFinish_copy, DM!didFinish_report, DM!NoCallback, downloadVars
    <3>. QED
      BY <1>8, <3>1, <3>2
  <2>. QED
    BY <2>1, NoneStartsKeeps DEF NoneStarts, Active, DM!Live, Excused
<1>9. CASE DM!terminate
  <2>1. \A t \in Tasks : \A s : ~DM!Inherited(t, s).inherited => DM!Inherited(t, s).state = "unused"
    BY <1>0 DEF DM!Inherited, DM!UnusedTask, DM!Task
  <2>2. \A t \in Tasks : ~tasks'[t].inherited => tasks'[t].state = "unused"
    BY <1>9, <2>1 DEF DM!terminate
  <2>3. callback'.at = "idle" /\ mainWrite' = DM!NoWrite
    BY <1>9 DEF DM!terminate, DM!NoCallback
  <2>4. \A t \in Tasks : ~Active(t)'
    BY <2>2, <2>3 DEF Active, DM!Live
  <2>. QED
    BY <2>3, <2>4 DEF OneActive, DM!MainIdle
<1>. QED
  BY <1>2, <1>3, <1>4, <1>6, <1>7, <1>8, <1>9, ManagerActions, NoneStartsKeeps
     DEF ManagerAction, LibraryTyped, Downloads

\* A photo is never transferred twice at a time, unless the dictionary lost
\* its entry to a data race or to a task of an earlier process.
THEOREM OneTransfer == Spec => []OneTransferPerPhoto
<1>1. Init => OneActive
  BY DEF Init, DM!Init, DM!UnusedTask, DM!NoCallback, OneActive, Active, DM!Live, DM!MainIdle
<1>2. OneActive => OneTransferPerPhoto
  BY DEF OneActive, Active, Excused, OneTransferPerPhoto
<1>. QED
  BY <1>1, <1>2, LibraryTypedInit, LibraryTypedNext, OneActiveNext, PTL DEF Spec

----------------------------------------------------------------------------
(* The promise of PhotoShelf *)

Favourites == {p \in Photos : DB!IsFavorite(p)}
Wanted == {p \in Photos : \E r \in Requests : p \in requests[r].photo}
Downloaded == {p \in Photos : DB!IsLocalImageDownloaded(p)}

\* Only startDownload, from the Detail screen, allocates a request.
LEMMA AskingSteps ==
    ASSUME LibraryTyped, [Next]_vars
    PROVE  \/ touchBtnDownload /\ DM!startDownload(detail.photo)
           \/ \A r \in Requests : requests'[r].photo = requests[r].photo
<1>. requests \in [Requests -> DM!DownloadRequest]
  BY DEF LibraryTyped, TypeOK, DM!TypeOK
<1>1. CASE UNCHANGED requests
  BY <1>1
<1>2. CASE DM!MarkDownloading
  BY <1>2 DEF DM!MarkDownloading, DM!DownloadRequest
<1>3. CASE User
  BY <1>1, <1>3 DEF User, showPhotoDetail, touchBtnClose, touchBtnHeart, touchBtnDownload, dismissAlert,
                    showDownloadList, leaveList, touchTab, touchHeart, downloadVars
<1>4. CASE mainWriteDone \/ racingWrites
  BY <1>2, <1>4 DEF mainWriteDone, DM!mainWriteDone, racingWrites, DM!racingWrites
<1>5. CASE runBlock \/ daemon \/ didFinish \/ didFinish_copy \/ didFinish_report \/ terminate
  BY <1>1, <1>5 DEF runBlock, daemon, DM!transferCompletes, DM!transferFails, didFinish, DM!didFinish_lookup,
                    DM!didFinish_clear, DM!didFinish_remove, didFinish_copy, DM!didFinish_copy,
                    didFinish_report, DM!didFinish_report, terminate, DM!terminate, downloadVars
<1>6. CASE UNCHANGED vars
  BY <1>1, <1>6 DEF vars, downloadVars
<1>. QED
  BY <1>3, <1>4, <1>5, <1>6 DEF Next, MainThread, DelegateQueue

LEMMA ShelfSteps == LibraryTyped /\ [Next]_vars => [Shelf!Next]_(Shelf!vars)
<1> SUFFICES ASSUME LibraryTyped, [Next]_vars PROVE [Shelf!Next]_(Shelf!vars)
  OBVIOUS
<1>. DB!TypeOK
  BY DEF LibraryTyped, TypeOK
<1>1. ASSUME UNCHANGED requests PROVE UNCHANGED Wanted
  BY <1>1 DEF Wanted
<1>2. ASSUME UNCHANGED localImages PROVE UNCHANGED <<Favourites, Downloaded>>
  <2>1. \A p \in Photos : /\ DB!IsFavorite(p)' <=> DB!IsFavorite(p)
                          /\ DB!IsLocalImageDownloaded(p)' <=> DB!IsLocalImageDownloaded(p)
    BY <1>2 DEF DB!IsFavorite, DB!IsLocalImageDownloaded, DB!Known
  <2>. QED
    BY <2>1 DEF Favourites, Downloaded
<1>3. CASE touchBtnHeart \/ \E item \in dowList \cup favList : touchHeart(item)
  <2>1. PICK p \in Photos : DB!changeFavoriteById(p) \/ DB!changeFavoriteWithDetails(p)
    BY <1>3, HeartSteps
  <2>2. /\ DB!IsFavorite(p)' <=> ~DB!IsFavorite(p)
        /\ \A q \in Photos \ {p} : DB!IsFavorite(q)' <=> DB!IsFavorite(q)
        /\ \A q \in Photos : DB!IsLocalImageDownloaded(q)' <=> DB!IsLocalImageDownloaded(q)
    BY <2>1, HeartWrites DEF DB!IsFavorite, DB!IsLocalImageDownloaded, DB!Known
  <2>3. Favourites' = (Favourites \ {p}) \cup ({p} \ Favourites)
    BY <2>2 DEF Favourites
  <2>4. UNCHANGED Downloaded
    BY <2>2 DEF Downloaded
  <2>5. UNCHANGED Wanted
    BY <1>1, <1>3 DEF touchBtnHeart, touchHeart, downloadVars
  <2>6. Shelf!TapHeart(p)
    BY <2>3, <2>4, <2>5 DEF Shelf!TapHeart, Favourites, Downloaded, Wanted
  <2>. QED
    BY <2>6 DEF Shelf!Next
<1>4. CASE runBlock /\ Saves(Head(mainQueue))
  <2>1. PICK p \in Photos, f \in Files : DB!saveDownloadedFilePath(p, f) /\ AskedFor(p)
    BY <1>4, LibraryConstants DEF Saves, LibraryTyped, SavesAreRight, AskedFor
  <2>2. /\ DB!IsLocalImageDownloaded(p)'
        /\ \A q \in Photos \ {p} : DB!IsLocalImageDownloaded(q)' <=> DB!IsLocalImageDownloaded(q)
        /\ \A q \in Photos : DB!IsFavorite(q)' <=> DB!IsFavorite(q)
    BY <2>1, SaveWrites DEF DB!IsFavorite, DB!IsLocalImageDownloaded, DB!Known
  <2>3. Downloaded' = Downloaded \cup {p}
    BY <2>2 DEF Downloaded
  <2>4. UNCHANGED Favourites
    BY <2>2 DEF Favourites
  <2>5. UNCHANGED Wanted
    BY <1>1, <1>4 DEF runBlock, downloadVars
  <2>6. p \in Wanted
    BY <2>1 DEF AskedFor, Wanted
  <2>7. Shelf!Keep(p)
    BY <2>3, <2>4, <2>5, <2>6 DEF Shelf!Keep, Favourites, Downloaded, Wanted
  <2>. QED
    BY <2>7 DEF Shelf!Next
<1>5. CASE touchBtnDownload /\ DM!startDownload(detail.photo)
  <2>1. PICK p \in Photos : p = detail.photo
    BY <1>5 DEF touchBtnDownload, OnDetail, LibraryTyped, Downloads, DetailHasPhoto
  <2>2. ~DB!IsLocalImageDownloaded(p) /\ UNCHANGED localImages
    <3>1. CASE DB!IsLocalImageDownloaded(detail.photo) /\ UNCHANGED downloadVars
      <4>1. mainWrite' = mainWrite
        BY <3>1 DEF downloadVars
      <4>2. mainWrite = DM!NoWrite /\ RawUrl[p] # NoUrl /\ mainWrite'.url = RawUrl[p]
        BY <1>5, <2>1 DEF DM!startDownload, DM!MainIdle
      <4>. QED
        BY <4>1, <4>2 DEF DM!NoWrite
    <3>. QED
      BY <1>5, <2>1, <3>1 DEF touchBtnDownload
  <2>3. PICK r \in Requests, t \in Tasks :
          /\ requests[r] = DM!Unallocated
          /\ requests' = [requests EXCEPT ![r] = [DM!Unallocated EXCEPT !.photo = {p}, !.task = t]]
    BY <1>5, <2>1 DEF DM!startDownload
  <2>4. /\ requests[r].photo = {} /\ requests'[r].photo = {p}
        /\ \A q \in Requests \ {r} : requests'[q] = requests[q]
    BY <2>3 DEF DM!Unallocated, LibraryTyped, TypeOK, DM!TypeOK
  <2>5. Wanted' = Wanted \cup {p}
    BY <2>4 DEF Wanted
  <2>6. p \notin Downloaded
    BY <2>2 DEF Downloaded
  <2>7. UNCHANGED <<Favourites, Downloaded>>
    BY <1>2, <2>2
  <2>8. Shelf!AskFor(p)
    BY <2>5, <2>6, <2>7 DEF Shelf!AskFor, Favourites, Downloaded, Wanted
  <2>. QED
    BY <2>8 DEF Shelf!Next
<1>6. CASE UNCHANGED localImages /\ \A r \in Requests : requests'[r].photo = requests[r].photo
  <2>1. UNCHANGED Wanted
    BY <1>6 DEF Wanted
  <2>2. UNCHANGED <<Favourites, Downloaded>>
    BY <1>2, <1>6
  <2>. QED
    BY <2>1, <2>2 DEF Shelf!vars, Favourites, Downloaded, Wanted
<1>. QED
  BY <1>3, <1>4, <1>5, <1>6, RecordSteps, AskingSteps

\* Whatever happens to transfers, screens and the process, the library keeps
\* the promise of PhotoShelf.
THEOREM LibraryKeepsItsPromise == Spec => ImplementsPhotoShelf
<1>1. Init => Shelf!Init
  <2> SUFFICES ASSUME Init PROVE Shelf!Init
    OBVIOUS
  <2>1. /\ \A p \in Photos : ~DB!IsFavorite(p) /\ ~DB!IsLocalImageDownloaded(p)
        /\ \A r \in Requests : requests[r].photo = {}
    BY DEF Init, DB!Init, DM!Init, DM!Unallocated, DB!IsFavorite, DB!IsLocalImageDownloaded, DB!Known
  <2>. QED
    BY <2>1 DEF Shelf!Init
<1>. QED
  BY <1>1, LibraryTypedInit, LibraryTypedNext, ShelfSteps, PTL DEF Spec, ImplementsPhotoShelf, Shelf!Spec
=============================================================================
