---------------------------- MODULE PhotoLibrary ----------------------------
(***************************************************************************)
(* The application's library of photos: the download manager, the database *)
(* and the two screens that use them, Detail (DetailViewController and     *)
(* DetailInteractor) and Collection (ListViewController and                *)
(* ListInteractor), joined by the main dispatch queue.                     *)
(*                                                                         *)
(* The application only ever starts downloads: pauseDownload,              *)
(* resumeDownload and cancelDownload have no caller.  Progress             *)
(* (didWriteData) repaints a cell and is left to DownloadManager.  A tap   *)
(* and a block of the main queue run on the main thread, one at a time,    *)
(* and none while startDownload is on it.                                  *)
(***************************************************************************)
EXTENDS Naturals, Sequences, SequencesExt

CONSTANTS Photos, Urls, NoUrl, RawUrl, Files, LocalFile, Requests, NoRequest, Tasks, NoTask,
          NoFile, NoRecord, NoPhoto

VARIABLES activeDownloads, requests, tasks, pausing, session, mainWrite, callback, files, reports,
          raced,                                   \* DownloadManager
          localImages,                             \* DataManager
          dowList, favList, isDisplayingDownload,  \* CollectionList
          mainQueue,  \* blocks given to DispatchQueue.main.async
          screen,     \* the visible view controller
          detail,     \* DetailViewController's photo, isFavorite and alert
          lost,       \* history: files a failed copy or a crash left missing
          hearted     \* history: photos first recorded by a heart tapped in the
                      \* cell of their running download

DM == INSTANCE DownloadManager WITH MaxBytes <- 0
DB == INSTANCE DataManager WITH Ids <- Photos, Paths <- Files, NoPath <- NoFile
List == INSTANCE CollectionList WITH Ids <- Photos

ASSUME LibraryConstants ==
    /\ NoUrl \notin Urls
    /\ RawUrl \in [Photos -> Urls \cup {NoUrl}]
    /\ LocalFile \in [Urls -> Files]
    /\ NoRequest \notin Requests
    /\ NoTask \notin Tasks
    /\ NoFile \notin Files
    /\ NoRecord \notin DB!LocalImage

downloadVars == <<activeDownloads, requests, tasks, pausing, session, mainWrite, callback, files,
                  reports, raced>>
listVars == <<dowList, favList, isDisplayingDownload>>
uiVars == <<mainQueue, screen, detail>>
history == <<lost, hearted>>
vars == <<downloadVars, localImages, listVars, uiVars, history>>

----------------------------------------------------------------------------
\* A block saves a finished download, or is the loadData of viewWillAppear.
Block == [kind: {"save", "load"}, photo: Photos \cup {NoPhoto}, path: Files \cup {NoFile}]
SaveBlock(p, f) == [kind |-> "save", photo |-> p, path |-> f]
LoadBlock == [kind |-> "load", photo |-> NoPhoto, path |-> NoFile]

\* A visit to the Collection screen queues one loadData.
LoadIsQueued == \E i \in DOMAIN mainQueue : mainQueue[i].kind = "load"

NoDetail == [photo |-> NoPhoto, isFavorite |-> FALSE, alert |-> FALSE]

\* getActiveDownloads, those with isDownloading set
Downloading ==
    UNION {requests[r].photo : r \in {q \in Requests : /\ \E u \in Urls : activeDownloads[u] = q
                                                       /\ requests[q].isDownloading}}

KnownIds == {p \in Photos : DB!Known(p)}

\* ListViewController.loadData after this step's write to the database.
loadData == List!loadData({p \in Photos : localImages'[p] # NoRecord}, localImages', Downloading)

Init == /\ DM!Init /\ DB!Init /\ List!Empty
        /\ mainQueue = <<>> /\ screen = "home" /\ detail = NoDetail
        /\ lost = {} /\ hearted = {}

----------------------------------------------------------------------------
\* Mutant: does not load the local item.
showPhotoDetail_unloaded(p) ==
    /\ DM!MainIdle /\ screen = "home"
    /\ screen' = "detail"
    /\ detail' = [photo |-> p, isFavorite |-> FALSE, alert |-> FALSE]
    /\ UNCHANGED <<downloadVars, localImages, listVars, mainQueue, history>>

\* Home to Detail, and DetailViewController.viewDidLoad
showPhotoDetail(p) ==
    /\ DM!MainIdle /\ screen = "home"
    /\ screen' = "detail"
    /\ detail' = [photo |-> p, isFavorite |-> DB!IsFavorite(p), alert |-> FALSE]
    /\ UNCHANGED <<downloadVars, localImages, listVars, mainQueue, history>>

OnDetail == DM!MainIdle /\ screen = "detail" /\ ~detail.alert

touchBtnClose ==
    /\ OnDetail
    /\ screen' = "home" /\ detail' = NoDetail
    /\ UNCHANGED <<downloadVars, localImages, listVars, mainQueue, history>>

touchBtnHeart ==
    /\ OnDetail
    /\ DB!changeFavoriteWithDetails(detail.photo)
    /\ detail' = [detail EXCEPT !.isFavorite = ~@]
    /\ UNCHANGED <<downloadVars, listVars, mainQueue, screen, history>>

\* touchBtnDownload and DetailInteractor.downloadPhoto: either the alert or
\* the download manager
touchBtnDownload ==
    /\ OnDetail
    /\ \/ /\ DB!IsLocalImageDownloaded(detail.photo)
          /\ detail' = [detail EXCEPT !.alert = TRUE]
          /\ UNCHANGED downloadVars
       \/ /\ ~DB!IsLocalImageDownloaded(detail.photo)
          /\ DM!startDownload(detail.photo)
          /\ UNCHANGED detail
    /\ UNCHANGED <<localImages, listVars, mainQueue, screen, history>>

dismissAlert ==
    /\ detail.alert
    /\ detail' = [detail EXCEPT !.alert = FALSE]
    /\ UNCHANGED <<downloadVars, localImages, listVars, mainQueue, screen, history>>

----------------------------------------------------------------------------
\* Home to Collection: a new ListViewController whose viewWillAppear posts a
\* loadData to the main queue.
showDownloadList ==
    /\ DM!MainIdle /\ screen = "home"
    /\ screen' = "list"
    /\ List!BecomesEmpty
    /\ mainQueue' = Append(mainQueue, LoadBlock)
    /\ UNCHANGED <<downloadVars, localImages, detail, history>>

\* The navigation bar's back button.  A loadData still queued would fill the
\* lists of a controller nobody sees: it is dropped here.
leaveList ==
    /\ DM!MainIdle /\ screen = "list"
    /\ screen' = "home"
    /\ List!BecomesEmpty
    /\ \/ \E i \in DOMAIN mainQueue : /\ mainQueue[i].kind = "load"
                                     /\ mainQueue' = RemoveAt(mainQueue, i)
       \/ ~LoadIsQueued /\ UNCHANGED mainQueue
    /\ UNCHANGED <<downloadVars, localImages, detail, history>>

touchTab(downloads) ==
    /\ DM!MainIdle /\ screen = "list" /\ isDisplayingDownload # downloads
    /\ List!touchTab(downloads)
    /\ UNCHANGED <<downloadVars, localImages, uiVars, history>>

\* ListViewController.changeFavorite(on:)
touchHeart(item) ==
    /\ DM!MainIdle /\ screen = "list"
    /\ \/ /\ isDisplayingDownload /\ item \in dowList
          /\ DB!changeFavoriteById(item.id)
          /\ List!heartInDownloads(item, {p \in Photos : localImages'[p] # NoRecord},
                                   localImages', Downloading)
       \/ /\ ~isDisplayingDownload /\ item \in favList
          /\ DB!changeFavoriteById(item.id)
          /\ List!heartInFavorites(item)
    /\ hearted' = IF item.isDownloading /\ ~DB!Known(item.id) THEN hearted \cup {item.id} ELSE hearted
    /\ UNCHANGED <<downloadVars, uiVars, lost>>

----------------------------------------------------------------------------
\* Mutant: saves only while the Collection screen is on top.
runBlock_onTop ==
    /\ DM!MainIdle /\ mainQueue # <<>>
    /\ LET b == Head(mainQueue)
       IN  IF screen = "list"
           THEN /\ IF b.kind = "save" THEN DB!saveDownloadedFilePath(b.photo, b.path)
                   ELSE UNCHANGED localImages
                /\ loadData
           ELSE UNCHANGED <<localImages, dowList, favList>>
    /\ mainQueue' = Tail(mainQueue)
    /\ UNCHANGED <<downloadVars, isDisplayingDownload, screen, detail, history>>

\* The next block of the main queue.  ListInteractor.didUpdateLocal's block
\* saves the path, then reloads the Collection screen if that is on top.
runBlock ==
    /\ DM!MainIdle /\ mainQueue # <<>>
    /\ LET b == Head(mainQueue)
       IN  /\ IF b.kind = "save" THEN DB!saveDownloadedFilePath(b.photo, b.path)
              ELSE UNCHANGED localImages
           /\ IF screen = "list" THEN loadData ELSE UNCHANGED <<dowList, favList>>
    /\ mainQueue' = Tail(mainQueue)
    /\ UNCHANGED <<downloadVars, isDisplayingDownload, screen, detail, history>>

mainWriteDone == DM!mainWriteDone /\ UNCHANGED <<localImages, listVars, uiVars, history>>

----------------------------------------------------------------------------
\* The transfer daemon, and the delegate queue up to its report.
daemon ==
    /\ \E t \in Tasks : DM!transferCompletes(t) \/ DM!transferFails(t)
    /\ UNCHANGED <<localImages, listVars, uiVars, history>>

didFinish ==
    /\ \/ \E t \in Tasks : DM!didFinish_lookup(t)
       \/ DM!didFinish_clear
       \/ DM!didFinish_remove
    /\ UNCHANGED <<localImages, listVars, uiVars, history>>

didFinish_copy ==
    /\ DM!didFinish_copy
    /\ lost' = IF files'[DM!Destination] = NoTask THEN lost \cup {DM!Destination}
               ELSE lost \ {DM!Destination}
    /\ UNCHANGED <<localImages, listVars, uiVars, hearted>>

\* delegate.didUpdateLocal posts its block to the main queue
didFinish_report ==
    /\ DM!didFinish_report
    /\ IF callback.request = NoRequest THEN UNCHANGED mainQueue
       ELSE \E p \in requests[callback.request].photo :
              mainQueue' = Append(mainQueue, SaveBlock(p, DM!Destination))
    /\ UNCHANGED <<localImages, listVars, screen, detail, history>>

racingWrites == DM!racingWrites /\ UNCHANGED <<localImages, listVars, uiVars, history>>

\* Only the database, the files and the daemon's tasks survive.
terminate ==
    /\ DM!terminate
    /\ lost' = IF callback.at = "copy" /\ files[DM!Destination] = NoTask
               THEN lost \cup {DM!Destination} ELSE lost
    /\ mainQueue' = <<>> /\ screen' = "home" /\ detail' = NoDetail /\ List!BecomesEmpty
    /\ UNCHANGED <<localImages, hearted>>

----------------------------------------------------------------------------
User ==
    \/ \E p \in Photos : showPhotoDetail(p)
    \/ touchBtnClose \/ touchBtnHeart \/ touchBtnDownload \/ dismissAlert
    \/ showDownloadList \/ leaveList
    \/ \E downloads \in BOOLEAN : touchTab(downloads)
    \/ \E item \in dowList \cup favList : touchHeart(item)

MainThread == runBlock \/ mainWriteDone \/ racingWrites
DelegateQueue == didFinish \/ didFinish_copy \/ didFinish_report \/ racingWrites

Next == User \/ MainThread \/ DelegateQueue \/ daemon \/ terminate

Spec == Init /\ [][Next]_vars

\* The main run loop and the delegate queue keep serving what they are given;
\* nothing is assumed of the user, of the network or of the process's life.
FairSpec == Spec /\ WF_vars(MainThread) /\ WF_vars(DelegateQueue)

----------------------------------------------------------------------------
\* The type invariant of the composition's own state and of its parts.
TypeOK ==
    /\ DM!TypeOK /\ DB!TypeOK /\ List!TypeOK
    /\ mainQueue \in Seq(Block)
    /\ screen \in {"home", "detail", "list"}
    /\ detail \in [photo: Photos \cup {NoPhoto}, isFavorite: BOOLEAN, alert: BOOLEAN]
    /\ lost \subseteq Files
    /\ hearted \subseteq Photos

\* A photo recorded as downloaded has its file, except while a later download
\* of it is between removeItem and copyItem, or after a copy that failed or
\* that the process did not live to make.  So DownloadManager must store the
\* file before it reports, and only the paths it stored are recorded.
RecordedFileOnDisk ==
    \A p \in Photos : DB!IsLocalImageDownloaded(p) =>
        LET f == localImages[p].localImagePath
        IN  /\ f = LocalFile[RawUrl[p]]
            /\ \/ files[f] # NoTask
               \/ f \in lost
               \/ callback.at = "copy" /\ DM!Destination = f

\* Tapping Download again, on this or a later visit to Detail, does not start
\* a second transfer beside the first, unless the first lost its dictionary
\* entry to the callback of a task left by an earlier process, or to a lost
\* write.
OneTransferPerPhoto ==
    \A s, t \in Tasks :
        /\ s # t /\ DM!Live(s) /\ DM!Live(t)
        /\ ~tasks[s].inherited /\ ~tasks[t].inherited
        /\ tasks[s].url = tasks[t].url
        => \/ tasks[s].url \in raced
           \/ \E k \in Tasks : /\ tasks[k].inherited /\ tasks[k].state = "delivered"
                               /\ tasks[k].url = tasks[s].url

\* The heart Detail shows, which it toggles on its own, stays that of the
\* record, whatever the main queue saves while the screen is up.
DetailHeartAgrees ==
    screen = "detail" => detail.isFavorite = DB!IsFavorite(detail.photo)

\* Once loaded, the Favourites tab lists exactly the favourites, apart from
\* photos that the Downloads tab lists too: their hearts change the database
\* without changing favList.
FavouritesTabIsCurrent ==
    screen = "list" /\ ~LoadIsQueued =>
        \A p \in Photos \ List!IdsOf(dowList) :
            DB!IsFavorite(p) <=> p \in List!IdsOf(favList)

\* The record has its photo's size, and a remote image or a file to display.
Showable(p) ==
    /\ localImages[p].sized
    /\ localImages[p].urlRegular \/ localImages[p].localImagePath # NoFile

\* Every record can be shown, except one that a heart tapped in the Downloads
\* tab created, in the cell of a download not saved yet: changeFavorite on
\* that screen knows neither the size nor the remote image.  Whichever way the
\* tap, the main queue's save and a restart fall, the record is completed when
\* the download is saved, and no other cell creates such a record.
RecordsCanBeShown ==
    \A p \in KnownIds : Showable(p) \/ (p \in hearted /\ ~DB!IsLocalImageDownloaded(p))

----------------------------------------------------------------------------
\* The library keeps the promise of PhotoShelf: saving a download leaves the
\* heart alone, tapping a heart leaves the download alone, and a restart
\* forgets neither.
Shelf == INSTANCE PhotoShelf WITH
    favourites <- {p \in Photos : DB!IsFavorite(p)},
    wanted     <- {p \in Photos : \E r \in Requests : p \in requests[r].photo},
    downloaded <- {p \in Photos : DB!IsLocalImageDownloaded(p)}

ImplementsPhotoShelf == Shelf!Spec

\* A transfer that is complete, registered and not about to lose its entry to
\* another callback is recorded as downloaded, unless the process ends.
Registered(p) ==
    \E t \in Tasks :
        /\ tasks[t].state = "transferred" /\ ~tasks[t].inherited
        /\ tasks[t].url = RawUrl[p]
        /\ activeDownloads[RawUrl[p]] = tasks[t].request
        /\ ~(callback.at = "clear" /\ DM!SourceUrl = RawUrl[p])

CompletedTransferIsRecorded ==
    \A p \in Photos : Registered(p) ~> (DB!IsLocalImageDownloaded(p) \/ ~session)
=============================================================================
