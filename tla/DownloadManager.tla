-------------------------- MODULE DownloadManager --------------------------
(***************************************************************************)
(* Classes/Common/Services/DownloadManager.swift with the objects it owns  *)
(* (Models/DownloadRequest.swift) and the two things it drives: a          *)
(* background URLSession, whose tasks outlive the process, and the         *)
(* Documents directory.                                                    *)
(*                                                                         *)
(* Two threads run this code without a lock.  The main thread calls        *)
(* startDownload, pauseDownload, resumeDownload and cancelDownload; the    *)
(* session's serial delegate queue (delegateQueue: nil) runs the delegate  *)
(* callbacks.  Both write the dictionary activeDownloads, so startDownload *)
(* and cancelDownload end in a separate mainWrite step and                 *)
(* didFinishDownloadingTo is split where the other thread can see or       *)
(* change something in between.                                            *)
(***************************************************************************)
EXTENDS Naturals

CONSTANTS
    Photos,      \* UnsplashPhoto values
    Urls,        \* raw URLs, the keys of activeDownloads
    NoUrl,       \* photo.urls[.raw] is nil
    RawUrl,      \* [Photos -> Urls or NoUrl]: photo.urls[.raw]
    Files,       \* paths in the Documents directory
    LocalFile,   \* [Urls -> Files]: localFilePath(for:)
    Requests,    \* DownloadRequest objects: how many may be allocated
    NoRequest,   \* no entry in the dictionary
    Tasks,       \* URLSessionDownloadTasks: how many may be created
    NoTask,      \* no file, or no callback running
    MaxBytes     \* progress is counted in 0 .. MaxBytes

ASSUME DownloadConstants ==
    /\ NoUrl \notin Urls
    /\ RawUrl \in [Photos -> Urls \cup {NoUrl}]
    /\ LocalFile \in [Urls -> Files]
    /\ NoRequest \notin Requests
    /\ NoTask \notin Tasks
    /\ MaxBytes \in Nat

VARIABLES
    activeDownloads,  \* [Urls -> Requests or NoRequest]
    requests,         \* the DownloadRequest objects on the heap
    tasks,            \* the tasks of the background session
    pausing,          \* tasks whose byProducingResumeData closure is to run
    session,          \* the lazy downloadsSession exists in this process
    mainWrite,        \* the main thread's outstanding dictionary write
    callback,         \* the didFinishDownloadingTo running on the queue
    files,            \* the task whose bytes each file holds
    reports,          \* history: delegate.didUpdateLocal calls made
    raced             \* history: URLs whose write was lost to a data race

vars == <<activeDownloads, requests, tasks, pausing, session, mainWrite,
          callback, files, reports, raced>>

----------------------------------------------------------------------------
\* A URLSessionDownloadTask: "transferred" means the file has arrived and
\* didFinishDownloadingTo is still to be delivered; "delivered" that it was;
\* "failed" that the task ended in an error, which DownloadManager does not
\* hear of: it has no didCompleteWithError.
TaskState == {"unused", "running", "transferred", "delivered", "cancelled", "failed"}

\* url is originalRequest.url, request the DownloadRequest it was created for;
\* inherited: created by an earlier process.
Task == [state: TaskState, url: Urls \cup {NoUrl}, inherited: BOOLEAN,
         request: Requests \cup {NoRequest}, bytes: 0 .. MaxBytes]

UnusedTask == [state |-> "unused", url |-> NoUrl, inherited |-> FALSE,
               request |-> NoRequest, bytes |-> 0]

NewTask(url, r) == [UnusedTask EXCEPT !.state = "running", !.url = url, !.request = r]

\* A DownloadRequest object; photo is in the set {p} once allocated.
DownloadRequest == [photo: SUBSET Photos, isDownloading: BOOLEAN,
                    progress: 0 .. MaxBytes, resumeData: BOOLEAN,
                    task: Tasks \cup {NoTask}]

Unallocated == [photo |-> {}, isDownloading |-> FALSE, progress |-> 0,
                resumeData |-> FALSE, task |-> NoTask]

\* The URL a request is, or was, registered under.
IsFor(r, url) == \E p \in requests[r].photo : RawUrl[p] = url

NoWrite == [url |-> NoUrl, request |-> NoRequest]

\* Where didFinishDownloadingTo is: before the statement that clears the
\* dictionary entry, removes the old file, copies the new one, or calls the
\* delegate.
CallbackAt == {"idle", "clear", "remove", "copy", "report"}

\* kept is history: the file of an earlier download that removeItem left.
NoCallback == [at |-> "idle", task |-> NoTask, request |-> NoRequest, kept |-> NoTask]

Callback(t, r) == [NoCallback EXCEPT !.at = "clear", !.task = t, !.request = r]

Live(t) == tasks[t].state \in {"running", "transferred"}

----------------------------------------------------------------------------
Init ==
    /\ activeDownloads = [u \in Urls |-> NoRequest]
    /\ requests = [r \in Requests |-> Unallocated]
    /\ tasks = [t \in Tasks |-> UnusedTask]
    /\ pausing = {}
    /\ session = FALSE
    /\ mainWrite = NoWrite
    /\ callback = NoCallback
    /\ files = [f \in Files |-> NoTask]
    /\ reports = {}
    /\ raced = {}

\* What the main thread finds in the dictionary under the photo's raw URL;
\* every operation returns at once when the photo has no such URL.
EntryOf(p) == IF RawUrl[p] = NoUrl THEN NoRequest ELSE activeDownloads[RawUrl[p]]

MainIdle == mainWrite = NoWrite

\* Mutant: no check for an active download of the photo.
startDownload_twice(p) ==
    /\ MainIdle
    /\ RawUrl[p] # NoUrl
    /\ \E r \in Requests, t \in Tasks :
         /\ requests[r] = Unallocated
         /\ tasks[t] = UnusedTask
         /\ requests' = [requests EXCEPT ![r] = [Unallocated EXCEPT !.photo = {p}, !.task = t]]
         /\ tasks' = [tasks EXCEPT ![t] = NewTask(RawUrl[p], r)]
         /\ mainWrite' = [url |-> RawUrl[p], request |-> r]
    /\ session' = TRUE
    /\ UNCHANGED <<activeDownloads, pausing, callback, files, reports, raced>>

\* startDownload up to task.resume(): from here on the task can finish, but
\* the request is not in the dictionary yet.
startDownload(p) ==
    /\ MainIdle
    /\ RawUrl[p] # NoUrl
    /\ EntryOf(p) = NoRequest
    /\ \E r \in Requests, t \in Tasks :
         /\ requests[r] = Unallocated
         /\ tasks[t] = UnusedTask
         /\ requests' = [requests EXCEPT ![r] = [Unallocated EXCEPT !.photo = {p}, !.task = t]]
         /\ tasks' = [tasks EXCEPT ![t] = NewTask(RawUrl[p], r)]
         /\ mainWrite' = [url |-> RawUrl[p], request |-> r]
    /\ session' = TRUE
    /\ UNCHANGED <<activeDownloads, pausing, callback, files, reports, raced>>

\* URLSessionTask.cancel(): a task whose file already arrived still delivers
\* its callback.
Cancelled(task) == IF task.state = "running" THEN [task EXCEPT !.state = "cancelled"] ELSE task

cancelDownload(p) ==
    /\ MainIdle
    /\ EntryOf(p) # NoRequest
    /\ tasks' = [tasks EXCEPT ![requests[EntryOf(p)].task] = Cancelled(@)]
    /\ mainWrite' = [url |-> RawUrl[p], request |-> NoRequest]
    /\ UNCHANGED <<activeDownloads, requests, pausing, session, callback, files, reports, raced>>

pauseDownload(p) ==
    LET r == EntryOf(p)
        t == requests[r].task
    IN  /\ MainIdle
        /\ r # NoRequest
        /\ requests[r].isDownloading
        /\ tasks' = [tasks EXCEPT ![t] = Cancelled(@)]
        /\ pausing' = pausing \cup {t}
        /\ requests' = [requests EXCEPT ![r].isDownloading = FALSE]
        /\ UNCHANGED <<activeDownloads, session, mainWrite, callback, files, reports, raced>>

\* The closure of cancel(byProducingResumeData:), later and on another
\* thread: data is nil unless the task was stopped half-way.
resumeDataProduced(t) ==
    /\ t \in pausing
    /\ pausing' = pausing \ {t}
    /\ \E data \in BOOLEAN :
         /\ data => tasks[t].state = "cancelled"
         /\ requests' = [requests EXCEPT ![tasks[t].request].resumeData = data]
    /\ UNCHANGED <<activeDownloads, tasks, session, mainWrite, callback, files, reports, raced>>

\* There is no guard on isDownloading: resuming a running download adds a
\* second task to the same request.  With resumeData the new task starts at
\* the bytes already received.
resumeDownload(p) ==
    LET r == EntryOf(p)
    IN  /\ MainIdle
        /\ r # NoRequest
        /\ \E t \in Tasks :
             /\ tasks[t] = UnusedTask
             /\ tasks' = [tasks EXCEPT ![t] =
                            [NewTask(RawUrl[p], r) EXCEPT
                               !.bytes = IF requests[r].resumeData
                                         THEN tasks[requests[r].task].bytes ELSE 0]]
             /\ requests' = [requests EXCEPT ![r].task = t, ![r].isDownloading = TRUE]
        /\ session' = TRUE
        /\ UNCHANGED <<activeDownloads, pausing, mainWrite, callback, files, reports, raced>>

\* The statement activeDownloads[url] = download (or nil) that ends
\* startDownload and cancelDownload; isDownloading is set just before it.
MarkDownloading ==
    requests' = IF mainWrite.request = NoRequest THEN requests
                ELSE [requests EXCEPT ![mainWrite.request].isDownloading = TRUE]

mainWriteDone ==
    /\ ~MainIdle
    /\ activeDownloads' = [activeDownloads EXCEPT ![mainWrite.url] = mainWrite.request]
    /\ MarkDownloading
    /\ mainWrite' = NoWrite
    /\ UNCHANGED <<tasks, pausing, session, callback, files, reports, raced>>

----------------------------------------------------------------------------
\* The transfer daemon.
transferCompletes(t) ==
    /\ tasks[t].state = "running"
    /\ tasks' = [tasks EXCEPT ![t].state = "transferred"]
    /\ UNCHANGED <<activeDownloads, requests, pausing, session, mainWrite, callback, files, reports, raced>>

transferFails(t) ==
    /\ tasks[t].state = "running"
    /\ tasks' = [tasks EXCEPT ![t].state = "failed"]
    /\ UNCHANGED <<activeDownloads, requests, pausing, session, mainWrite, callback, files, reports, raced>>

----------------------------------------------------------------------------
\* The delegate queue.  It is serial, so no callback runs inside another.
\* Mutant: takes totalBytesWritten for bytesWritten and adds it up.
didWriteData_addedUp(t) ==
    LET r == activeDownloads[tasks[t].url]
    IN  /\ session
        /\ callback = NoCallback
        /\ tasks[t].state = "running"
        /\ tasks[t].bytes < MaxBytes
        /\ tasks' = [tasks EXCEPT ![t].bytes = @ + 1]
        /\ requests' = IF r = NoRequest THEN requests
                       ELSE [requests EXCEPT ![r].progress = @ + tasks[t].bytes + 1]
        /\ UNCHANGED <<activeDownloads, pausing, session, mainWrite, callback, files, reports, raced>>

didWriteData(t) ==
    LET r == activeDownloads[tasks[t].url]
    IN  /\ session
        /\ callback = NoCallback
        /\ tasks[t].state = "running"
        /\ tasks[t].bytes < MaxBytes
        /\ tasks' = [tasks EXCEPT ![t].bytes = @ + 1]
        /\ requests' = IF r = NoRequest THEN requests
                       ELSE [requests EXCEPT ![r].progress = tasks[t].bytes + 1]
        /\ UNCHANGED <<activeDownloads, pausing, session, mainWrite, callback, files, reports, raced>>

\* Mutant: takes whichever download is active.
didFinish_lookup_any(t) ==
    /\ session
    /\ callback = NoCallback
    /\ tasks[t].state = "transferred"
    /\ tasks' = [tasks EXCEPT ![t].state = "delivered"]
    /\ \E u \in Urls : callback' = Callback(t, activeDownloads[u])
    /\ UNCHANGED <<activeDownloads, requests, pausing, session, mainWrite, files, reports, raced>>

\* let download = activeDownloads[sourceURL]
didFinish_lookup(t) ==
    /\ session
    /\ callback = NoCallback
    /\ tasks[t].state = "transferred"
    /\ tasks' = [tasks EXCEPT ![t].state = "delivered"]
    /\ callback' = Callback(t, activeDownloads[tasks[t].url])
    /\ UNCHANGED <<activeDownloads, requests, pausing, session, mainWrite, files, reports, raced>>

SourceUrl == tasks[callback.task].url
Destination == LocalFile[SourceUrl]

\* Mutant: leaves the entry in the dictionary.
didFinish_clear_forgotten ==
    /\ callback.at = "clear"
    /\ callback' = [callback EXCEPT !.at = "remove"]
    /\ UNCHANGED <<activeDownloads, requests, tasks, pausing, session, mainWrite, files, reports, raced>>

\* Mutant: reports without having stored the file.
didFinish_clear_noFile ==
    /\ callback.at = "clear"
    /\ activeDownloads' = [activeDownloads EXCEPT ![SourceUrl] = NoRequest]
    /\ callback' = [callback EXCEPT !.at = "report"]
    /\ UNCHANGED <<requests, tasks, pausing, session, mainWrite, files, reports, raced>>

\* activeDownloads[sourceURL] = nil
didFinish_clear ==
    /\ callback.at = "clear"
    /\ activeDownloads' = [activeDownloads EXCEPT ![SourceUrl] = NoRequest]
    /\ callback' = [callback EXCEPT !.at = "remove"]
    /\ UNCHANGED <<requests, tasks, pausing, session, mainWrite, files, reports, raced>>

\* Mutant: does not remove the old file, which makes copyItem fail.
didFinish_remove_forgotten ==
    /\ callback.at = "remove"
    /\ callback' = [callback EXCEPT !.at = "copy"]
    /\ UNCHANGED <<activeDownloads, requests, tasks, pausing, session, mainWrite, files, reports, raced>>

\* try? fileManager.removeItem(at: destinationURL): an error, and with it the
\* old file, goes unnoticed.
didFinish_remove ==
    /\ callback.at = "remove"
    /\ \/ /\ files' = [files EXCEPT ![Destination] = NoTask]
          /\ callback' = [callback EXCEPT !.at = "copy"]
       \/ /\ UNCHANGED files
          /\ callback' = [callback EXCEPT !.at = "copy", !.kept = files[Destination]]
    /\ UNCHANGED <<activeDownloads, requests, tasks, pausing, session, mainWrite, reports, raced>>

\* fileManager.copyItem, which does not overwrite a file and whose error is
\* only printed
didFinish_copy ==
    /\ callback.at = "copy"
    /\ \/ /\ files[Destination] = NoTask
          /\ files' = [files EXCEPT ![Destination] = callback.task]
       \/ UNCHANGED files
    /\ callback' = [callback EXCEPT !.at = "report"]
    /\ UNCHANGED <<activeDownloads, requests, tasks, pausing, session, mainWrite, reports, raced>>

\* if let photo = download?.photo { delegate?.didUpdateLocal(...) }
didFinish_report ==
    /\ callback.at = "report"
    /\ reports' = IF callback.request = NoRequest THEN reports
                  ELSE reports \cup {[request |-> callback.request, task |-> callback.task]}
    /\ callback' = NoCallback
    /\ UNCHANGED <<activeDownloads, requests, tasks, pausing, session, mainWrite, files, raced>>

\* Both threads write the dictionary at the same moment.  Besides the two
\* orders above and a crash (terminate), one of the writes can be lost.
racingWrites ==
    /\ ~MainIdle
    /\ callback.at = "clear"
    /\ \/ /\ activeDownloads' = [activeDownloads EXCEPT ![mainWrite.url] = mainWrite.request]
          /\ raced' = raced \cup {SourceUrl}
       \/ /\ activeDownloads' = [activeDownloads EXCEPT ![SourceUrl] = NoRequest]
          /\ raced' = raced \cup {mainWrite.url}
    /\ MarkDownloading
    /\ mainWrite' = NoWrite
    /\ callback' = [callback EXCEPT !.at = "remove"]
    /\ UNCHANGED <<tasks, pausing, session, files, reports>>

----------------------------------------------------------------------------
Inherited(t, state) ==
    IF tasks[t] = UnusedTask THEN UnusedTask
    ELSE [tasks[t] EXCEPT !.state = state, !.inherited = TRUE]

\* The process ends.  Everything in memory is gone; the daemon keeps the
\* tasks of a background session, unless the user swiped the application
\* away.  A callback cut short may be delivered again.  The session comes
\* back with the next startDownload: nothing else touches the lazy property.
terminate ==
    /\ activeDownloads' = [u \in Urls |-> NoRequest]
    /\ pausing' = {}
    /\ session' = FALSE
    /\ mainWrite' = NoWrite
    /\ callback' = NoCallback
    /\ \/ tasks' = [t \in Tasks |-> Inherited(t, IF Live(t) THEN "cancelled" ELSE tasks[t].state)]
       \/ tasks' = [t \in Tasks |-> Inherited(t, tasks[t].state)]
       \/ /\ callback # NoCallback
          /\ tasks' = [t \in Tasks |->
                Inherited(t, IF t = callback.task THEN "transferred" ELSE tasks[t].state)]
    /\ UNCHANGED <<requests, files, reports, raced>>

----------------------------------------------------------------------------
didFinish == didFinish_clear \/ didFinish_remove \/ didFinish_copy \/ didFinish_report

Next ==
    \/ \E p \in Photos : \/ startDownload(p)
                         \/ cancelDownload(p)
                         \/ pauseDownload(p)
                         \/ resumeDownload(p)
    \/ mainWriteDone
    \/ \E t \in Tasks : \/ resumeDataProduced(t)
                        \/ transferCompletes(t)
                        \/ transferFails(t)
                        \/ didWriteData(t)
                        \/ didFinish_lookup(t)
    \/ didFinish
    \/ racingWrites
    \/ terminate

Spec == Init /\ [][Next]_vars

----------------------------------------------------------------------------
\* The type invariant of the manager's state.
TypeOK ==
    /\ activeDownloads \in [Urls -> Requests \cup {NoRequest}]
    /\ requests \in [Requests -> DownloadRequest]
    /\ tasks \in [Tasks -> Task]
    /\ pausing \subseteq Tasks
    /\ session \in BOOLEAN
    /\ mainWrite \in [url: Urls \cup {NoUrl}, request: Requests \cup {NoRequest}]
    /\ callback \in [at: CallbackAt, task: Tasks \cup {NoTask},
                    request: Requests \cup {NoRequest}, kept: Tasks \cup {NoTask}]
    /\ files \in [Files -> Tasks \cup {NoTask}]
    /\ reports \subseteq [request: Requests, task: Tasks]
    /\ raced \subseteq Urls \cup {NoUrl}

\* The delegate hears of a download at most once, however often it was
\* paused, resumed (resumeDownload may run two tasks for one request) or
\* cancelled while its callback was running: the entry leaves the dictionary
\* with the callback that reports it.  Only a lost write can break this.
ReportedOnce ==
    \A x, y \in reports :
        x.request = y.request => x = y \/ \E u \in raced : IsFor(x.request, u)

\* The file a report announces was fetched from the raw URL of the photo it
\* announces, even when the entry the callback found was not the one its task
\* was started for (a download restarted after a cancel, or a task that
\* outlived its process).
ReportIsForItsPhoto ==
    \A x \in reports : IsFor(x.request, tasks[x.task].url)

\* What a file holds came whole from a task whose URL maps to that path, and
\* while a callback is about to report, its destination holds its own bytes
\* or, when copyItem failed, nothing: the bytes of another download only when
\* removeItem failed, and then those that it left.  The serial delegate queue
\* keeps two downloads of one photo out of each other's remove-and-copy.
FilesAreWhole ==
    /\ \A f \in Files : files[f] # NoTask =>
          /\ LocalFile[tasks[files[f]].url] = f
          /\ tasks[files[f]].state \in {"transferred", "delivered", "cancelled"}
    /\ callback.at = "report" =>
          \/ callback.kept = NoTask /\ files[Destination] \in {NoTask, callback.task}
          \/ callback.kept # NoTask /\ files[Destination] = callback.kept
============================================================================
