----------------------- MODULE DownloadManagerProofs -----------------------
(***************************************************************************)
(* Proofs, for any number of photos, URLs, tasks and requests, of the      *)
(* invariants DownloadManager.cfg model-checks.  The type invariant needs  *)
(* Bookkeeping; it and the three safety invariants are then established    *)
(* one on top of the other.                                                *)
(***************************************************************************)
EXTENDS DownloadManager, TLAPS

\* What the code relies on without saying so: a request exists only for a
\* photo with a raw URL, and is referred to only under that URL.
Bookkeeping ==
    /\ \A t \in Tasks : tasks[t].state # "unused" => tasks[t].url \in Urls
    /\ mainWrite # NoWrite => mainWrite.url \in Urls
    /\ callback # NoCallback =>
          callback.task \in Tasks /\ tasks[callback.task].state = "delivered"
    /\ \A r \in Requests : requests[r].photo # {} =>
          /\ requests[r].task \in Tasks
          /\ \E p \in Photos : requests[r].photo = {p} /\ RawUrl[p] \in Urls
    /\ \A u \in Urls : activeDownloads[u] # NoRequest => IsFor(activeDownloads[u], u)
    /\ mainWrite.request # NoRequest => IsFor(mainWrite.request, mainWrite.url)

Typed == TypeOK /\ Bookkeeping

----------------------------------------------------------------------------
\* Each field of a record of the model may be updated within its own range.
LEMMA TaskFields ==
    ASSUME NEW k \in Task
    PROVE  /\ k.url \in Urls \cup {NoUrl}
           /\ k.bytes \in 0 .. MaxBytes
           /\ k.request \in Requests \cup {NoRequest}
           /\ \A s \in TaskState : [k EXCEPT !.state = s] \in Task
           /\ \A s \in TaskState : [k EXCEPT !.state = s, !.inherited = TRUE] \in Task
           /\ \A b \in 0 .. MaxBytes : [k EXCEPT !.bytes = b] \in Task
  BY DEF Task

LEMMA NewTaskFields ==
    ASSUME NEW u \in Urls, NEW r \in Requests
    PROVE  /\ NewTask(u, r) \in Task
           /\ NewTask(u, r).state = "running" /\ NewTask(u, r).url = u
           /\ UnusedTask \in Task
<1>1. 0 \in 0 .. MaxBytes
  BY DownloadConstants
<1>. QED
  BY <1>1 DEF NewTask, UnusedTask, Task, TaskState

LEMMA RequestFields ==
    ASSUME NEW q \in DownloadRequest
    PROVE  /\ q.photo \in SUBSET Photos
           /\ q.task \in Tasks \cup {NoTask}
           /\ \A b \in BOOLEAN : [q EXCEPT !.isDownloading = b] \in DownloadRequest
           /\ \A b \in BOOLEAN : [q EXCEPT !.resumeData = b] \in DownloadRequest
           /\ \A n \in 0 .. MaxBytes : [q EXCEPT !.progress = n] \in DownloadRequest
           /\ \A t \in Tasks : [q EXCEPT !.task = t, !.isDownloading = TRUE] \in DownloadRequest
  BY DEF DownloadRequest

LEMMA NewRequestFields ==
    ASSUME NEW p \in Photos, NEW t \in Tasks
    PROVE  /\ Unallocated \in DownloadRequest
           /\ Unallocated.photo = {}
           /\ [Unallocated EXCEPT !.photo = {p}, !.task = t] \in DownloadRequest
<1>1. 0 \in 0 .. MaxBytes
  BY DownloadConstants
<1>. QED
  BY <1>1 DEF DownloadRequest, Unallocated

----------------------------------------------------------------------------
LEMMA TypedInit == Init => Typed
<1> SUFFICES ASSUME Init PROVE Typed
  OBVIOUS
<1>1. 0 \in 0 .. MaxBytes
  BY DownloadConstants
<1>2. UnusedTask \in Task /\ Unallocated \in DownloadRequest
  BY <1>1 DEF UnusedTask, Task, TaskState, Unallocated, DownloadRequest
<1>3. TypeOK
  BY <1>2 DEF Init, TypeOK, NoWrite, NoCallback, CallbackAt
<1>4. Bookkeeping
  BY DEF Init, Bookkeeping, UnusedTask, Unallocated, NoWrite, NoCallback
<1>. QED
  BY <1>3, <1>4 DEF Typed

\* Requests keep their photo, and their task stays a task.
SamePhotos ==
    \A r \in Requests : /\ requests'[r].photo = requests[r].photo
                        /\ requests[r].task \in Tasks => requests'[r].task \in Tasks

LEMMA TypedNext == Typed /\ [Next]_vars => Typed'
<1> SUFFICES ASSUME Typed, [Next]_vars PROVE Typed'
  OBVIOUS
<1> USE DownloadConstants DEF Typed
<1>1. ASSUME NEW p \in Photos, startDownload(p) PROVE Typed'
  <2>1. PICK r \in Requests, t \in Tasks :
          /\ requests[r] = Unallocated
          /\ tasks[t] = UnusedTask
          /\ requests' = [requests EXCEPT ![r] = [Unallocated EXCEPT !.photo = {p}, !.task = t]]
          /\ tasks' = [tasks EXCEPT ![t] = NewTask(RawUrl[p], r)]
          /\ mainWrite' = [url |-> RawUrl[p], request |-> r]
    BY <1>1 DEF startDownload
  <2>2. RawUrl[p] \in Urls
    BY <1>1 DEF startDownload
  <2>3. TypeOK'
    BY <1>1, <2>1, <2>2, NewTaskFields, NewRequestFields DEF startDownload, TypeOK
  <2>4. UnusedTask.state = "unused" /\ Unallocated.photo = {}
    BY DEF UnusedTask, Unallocated
  <2>5. requests'[r].photo = {p} /\ requests'[r].task = t
    BY <2>1 DEF TypeOK, Unallocated
  <2>6. \A q \in Requests \ {r} : requests'[q] = requests[q]
    BY <2>1 DEF TypeOK
  <2>7. \A s \in Tasks \ {t} : tasks'[s] = tasks[s]
    BY <2>1 DEF TypeOK
  <2>8. tasks'[t].url \in Urls
    BY <2>1, <2>2, NewTaskFields DEF TypeOK
  <2>9. UNCHANGED <<activeDownloads, callback>>
    BY <1>1 DEF startDownload
  <2>10. \A u \in Urls : activeDownloads[u] # NoRequest => activeDownloads[u] # r
    BY <2>1, <2>4 DEF Bookkeeping, IsFor
  <2>11. Bookkeeping'
    BY <2>1, <2>2, <2>4, <2>5, <2>6, <2>7, <2>8, <2>9, <2>10 DEF TypeOK, Bookkeeping, IsFor
  <2>. QED
    BY <2>3, <2>11
<1>2. ASSUME NEW p \in Photos, cancelDownload(p) PROVE Typed'
  <2>1. \A k \in Task : Cancelled(k) \in Task
    BY TaskFields DEF Cancelled, TaskState
  <2>2. \A k \in Task : Cancelled(k).url = k.url /\ (k.state # "running" => Cancelled(k) = k)
    BY DEF Cancelled, Task
  <2>3. RawUrl[p] \in Urls
    BY <1>2 DEF cancelDownload, EntryOf
  <2>4. TypeOK'
    BY <1>2, <2>1, <2>3 DEF cancelDownload, TypeOK
  <2>5. \A t \in Tasks : /\ tasks'[t].url = tasks[t].url
                         /\ tasks[t].state # "running" => tasks'[t] = tasks[t]
    BY <1>2, <2>2 DEF cancelDownload, TypeOK
  <2>6. Bookkeeping'
    BY <1>2, <2>3, <2>5 DEF cancelDownload, TypeOK, Bookkeeping, IsFor
  <2>. QED
    BY <2>4, <2>6
<1>3. ASSUME NEW p \in Photos, pauseDownload(p) PROVE Typed'
  <2> DEFINE r == EntryOf(p)
             t == requests[r].task
  <2>1. \A k \in Task : Cancelled(k) \in Task
    BY TaskFields DEF Cancelled, TaskState
  <2>2. \A k \in Task : Cancelled(k).url = k.url /\ (k.state # "running" => Cancelled(k) = k)
    BY DEF Cancelled, Task
  <2>3. r \in Requests /\ IsFor(r, RawUrl[p])
    BY <1>3 DEF pauseDownload, EntryOf, TypeOK, Bookkeeping
  <2>4. t \in Tasks
    BY <2>3 DEF Bookkeeping, IsFor
  <2>5. requests' \in [Requests -> DownloadRequest]
    BY <1>3, <2>3, RequestFields DEF pauseDownload, TypeOK
  <2>6. TypeOK'
    BY <1>3, <2>1, <2>4, <2>5 DEF pauseDownload, TypeOK
  <2>7. \A s \in Tasks : /\ tasks'[s].url = tasks[s].url
                         /\ tasks[s].state # "running" => tasks'[s] = tasks[s]
    BY <1>3, <2>2 DEF pauseDownload, TypeOK
  <2>8. SamePhotos
    BY <1>3 DEF pauseDownload, TypeOK, SamePhotos, DownloadRequest
  <2>9. Bookkeeping'
    BY <1>3, <2>7, <2>8 DEF pauseDownload, TypeOK, Bookkeeping, IsFor, SamePhotos
  <2>. QED
    BY <2>6, <2>9
<1>4. ASSUME NEW p \in Photos, resumeDownload(p) PROVE Typed'
  <2> DEFINE r == EntryOf(p)
  <2>1. r \in Requests /\ RawUrl[p] \in Urls /\ IsFor(r, RawUrl[p])
    BY <1>4 DEF resumeDownload, EntryOf, TypeOK, Bookkeeping
  <2>2. requests[r].task \in Tasks
    BY <2>1 DEF Bookkeeping, IsFor
  <2> DEFINE n == IF requests[r].resumeData THEN tasks[requests[r].task].bytes ELSE 0
             k == [NewTask(RawUrl[p], r) EXCEPT !.bytes = n]
  <2>3. PICK t \in Tasks :
          /\ tasks[t] = UnusedTask
          /\ tasks' = [tasks EXCEPT ![t] = k]
          /\ requests' = [requests EXCEPT ![r].task = t, ![r].isDownloading = TRUE]
    BY <1>4 DEF resumeDownload
  <2>4. n \in 0 .. MaxBytes
    <3>1. 0 \in 0 .. MaxBytes
      OBVIOUS
    <3>2. tasks[requests[r].task].bytes \in 0 .. MaxBytes
      BY <2>2, TaskFields DEF TypeOK
    <3>. QED
      BY <3>1, <3>2
  <2>5. k \in Task /\ k.url = RawUrl[p]
    BY ZenonT(30), <2>1, <2>4, NewTaskFields, TaskFields DEF NewTask, UnusedTask
  <2>6. requests' \in [Requests -> DownloadRequest]
    BY <2>1, <2>3, RequestFields DEF TypeOK
  <2>7. TypeOK'
    BY <1>4, <2>3, <2>5, <2>6 DEF resumeDownload, TypeOK
  <2>8. SamePhotos
    BY <2>3 DEF TypeOK, SamePhotos, DownloadRequest
  <2>9. UnusedTask.state = "unused"
    BY DEF UnusedTask
  <2>10. \A s \in Tasks : tasks'[s] = IF s = t THEN k ELSE tasks[s]
    BY <2>3 DEF TypeOK
  <2>11. Bookkeeping'
    BY SMTT(30), <1>4, <2>1, <2>3, <2>5, <2>8, <2>9, <2>10
       DEF resumeDownload, TypeOK, Bookkeeping, IsFor, SamePhotos
  <2>. QED
    BY <2>7, <2>11
<1>5. ASSUME NEW t \in Tasks, resumeDataProduced(t) PROVE Typed'
  <2>1. requests' \in [Requests -> DownloadRequest]
    <3>1. PICK data \in BOOLEAN :
            requests' = [requests EXCEPT ![tasks[t].request].resumeData = data]
      BY <1>5 DEF resumeDataProduced
    <3>2. \A r \in Requests : [requests[r] EXCEPT !.resumeData = data] \in DownloadRequest
      BY RequestFields DEF TypeOK
    <3>. QED
      BY <3>1, <3>2 DEF TypeOK
  <2>2. TypeOK'
    BY <1>5, <2>1 DEF resumeDataProduced, TypeOK
  <2>3. SamePhotos
    BY <1>5 DEF resumeDataProduced, TypeOK, SamePhotos, DownloadRequest
  <2>4. Bookkeeping'
    BY <1>5, <2>3 DEF resumeDataProduced, TypeOK, Bookkeeping, IsFor, SamePhotos
  <2>. QED
    BY <2>2, <2>4
<1>6. ASSUME MarkDownloading
      PROVE  requests' \in [Requests -> DownloadRequest] /\ SamePhotos
  <2>1. requests' \in [Requests -> DownloadRequest]
    BY <1>6, RequestFields DEF MarkDownloading, TypeOK
  <2>2. SamePhotos
    BY <1>6 DEF MarkDownloading, TypeOK, SamePhotos, DownloadRequest
  <2>. QED
    BY <2>1, <2>2
<1>7. CASE mainWriteDone
  <2>1. requests' \in [Requests -> DownloadRequest] /\ SamePhotos
    BY <1>6, <1>7 DEF mainWriteDone
  <2>2. TypeOK'
    BY <1>7, <2>1 DEF mainWriteDone, TypeOK, NoWrite
  <2>3. Bookkeeping'
    BY <1>7, <2>1 DEF mainWriteDone, MainIdle, TypeOK, Bookkeeping, IsFor, SamePhotos, NoWrite
  <2>. QED
    BY <2>2, <2>3
<1>8. ASSUME NEW t \in Tasks, NEW s \in TaskState \ {"unused"}, tasks[t].state \in {"running", "transferred"},
             tasks' = [tasks EXCEPT ![t].state = s]
      PROVE  /\ tasks' \in [Tasks -> Task]
             /\ \A k \in Tasks : /\ tasks'[k].url = tasks[k].url
                                 /\ tasks[k].state = "unused" <=> tasks'[k].state = "unused"
                                 /\ tasks[k].state = "delivered" => tasks'[k] = tasks[k]
             /\ tasks'[t].state = s
  <2>1. tasks' \in [Tasks -> Task]
    BY <1>8, TaskFields DEF TypeOK
  <2>. QED
    BY <1>8, <2>1 DEF TypeOK, Task
<1>9. ASSUME NEW t \in Tasks, transferCompletes(t) \/ transferFails(t) PROVE Typed'
  <2>1. PICK s \in TaskState \ {"unused"} : tasks' = [tasks EXCEPT ![t].state = s]
    BY <1>9 DEF transferCompletes, transferFails, TaskState
  <2>2. tasks[t].state = "running" /\ UNCHANGED <<activeDownloads, requests, pausing, session,
                                       mainWrite, callback, files, reports, raced>>
    BY <1>9 DEF transferCompletes, transferFails
  <2>3. TypeOK'
    BY <1>8, <2>1, <2>2 DEF TypeOK
  <2>4. Bookkeeping'
    BY <1>8, <2>1, <2>2 DEF Bookkeeping, IsFor
  <2>. QED
    BY <2>3, <2>4
<1>10. ASSUME NEW t \in Tasks, didWriteData(t) PROVE Typed'
  <2>1. tasks[t].bytes + 1 \in 0 .. MaxBytes
    <3>1. tasks[t].bytes \in 0 .. MaxBytes /\ tasks[t].bytes < MaxBytes
      BY <1>10, TaskFields DEF didWriteData, TypeOK
    <3>. QED
      BY <3>1
  <2>2. requests' \in [Requests -> DownloadRequest]
    BY <1>10, <2>1, RequestFields DEF didWriteData, TypeOK
  <2>3. tasks' \in [Tasks -> Task]
    BY <1>10, <2>1, TaskFields DEF didWriteData, TypeOK
  <2>4. TypeOK'
    BY <1>10, <2>2, <2>3 DEF didWriteData, TypeOK
  <2>5. SamePhotos
    BY <1>10 DEF didWriteData, TypeOK, SamePhotos, DownloadRequest
  <2>6. \A k \in Tasks : tasks'[k].url = tasks[k].url /\ tasks'[k].state = tasks[k].state
    BY <1>10 DEF didWriteData, TypeOK, Task
  <2>7. Bookkeeping'
    BY <1>10, <2>5, <2>6 DEF didWriteData, TypeOK, Bookkeeping, IsFor, SamePhotos
  <2>. QED
    BY <2>4, <2>7
<1>11. ASSUME NEW t \in Tasks, didFinish_lookup(t) PROVE Typed'
  <2>1. tasks' \in [Tasks -> Task] /\ tasks'[t].state = "delivered"
    BY <1>8, <1>11 DEF didFinish_lookup, TaskState
  <2>2. \A k \in Tasks : /\ tasks'[k].url = tasks[k].url
                         /\ tasks[k].state = "unused" <=> tasks'[k].state = "unused"
    BY <1>8, <1>11 DEF didFinish_lookup, TaskState
  <2>3. tasks[t].url \in Urls
    BY <1>11 DEF didFinish_lookup, Bookkeeping
  <2>4. TypeOK'
    BY <1>11, <2>1, <2>3 DEF didFinish_lookup, TypeOK, CallbackAt, Callback, NoCallback
  <2>5. Bookkeeping'
    BY <1>11, <2>1, <2>2 DEF didFinish_lookup, TypeOK, Bookkeeping, IsFor, Callback, NoCallback
  <2>. QED
    BY <2>4, <2>5
<1>12. CASE didFinish_clear
  <2>1. TypeOK'
    BY <1>12 DEF didFinish_clear, TypeOK, CallbackAt
  <2>2. Bookkeeping'
    BY <1>12 DEF didFinish_clear, TypeOK, Bookkeeping, IsFor, NoCallback
  <2>. QED
    BY <2>1, <2>2
<1>13. CASE didFinish_remove
  <2>1. Destination \in Files
    BY <1>13 DEF didFinish_remove, Bookkeeping, NoCallback, Destination, SourceUrl
  <2>2. /\ files' \in [Files -> Tasks \cup {NoTask}]
        /\ \E k \in Tasks \cup {NoTask} : callback' = [callback EXCEPT !.at = "copy", !.kept = k]
    <3>1. files[Destination] \in Tasks \cup {NoTask}
      BY <2>1 DEF TypeOK
    <3>2. callback.kept \in Tasks \cup {NoTask}
          /\ [callback EXCEPT !.at = "copy"] = [callback EXCEPT !.at = "copy", !.kept = callback.kept]
      BY DEF TypeOK
    <3>. QED
      BY <1>13, <3>1, <3>2 DEF didFinish_remove, TypeOK
  <2>3. PICK k \in Tasks \cup {NoTask} : callback' = [callback EXCEPT !.at = "copy", !.kept = k]
    BY <2>2
  <2>4. UNCHANGED <<activeDownloads, requests, tasks, pausing, session, mainWrite, reports, raced>>
        /\ callback # NoCallback
    BY <1>13 DEF didFinish_remove, NoCallback
  <2>5. TypeOK'
    BY <2>2, <2>3, <2>4 DEF TypeOK, CallbackAt
  <2>6. Bookkeeping'
    BY <2>3, <2>4 DEF TypeOK, Bookkeeping, IsFor
  <2>. QED
    BY <2>5, <2>6
<1>14. CASE didFinish_copy
  <2>1. TypeOK'
    BY <1>14 DEF didFinish_copy, TypeOK, CallbackAt
  <2>2. Bookkeeping'
    BY <1>14 DEF didFinish_copy, TypeOK, Bookkeeping, IsFor, NoCallback
  <2>. QED
    BY <2>1, <2>2
<1>15. CASE didFinish_report
  <2>1. callback.task \in Tasks /\ callback.request \in Requests \cup {NoRequest}
    BY <1>15 DEF didFinish_report, Bookkeeping, NoCallback, TypeOK
  <2>2. reports' \subseteq [request: Requests, task: Tasks]
    BY <1>15, <2>1 DEF didFinish_report, TypeOK
  <2>3. TypeOK'
    BY <1>15, <2>2 DEF didFinish_report, TypeOK, NoCallback, CallbackAt
  <2>4. Bookkeeping'
    BY <1>15 DEF didFinish_report, TypeOK, Bookkeeping, IsFor
  <2>. QED
    BY <2>3, <2>4
<1>16. CASE racingWrites
  <2>1. requests' \in [Requests -> DownloadRequest] /\ SamePhotos
    BY <1>6, <1>16 DEF racingWrites
  <2>2. SourceUrl \in Urls /\ mainWrite.url \in Urls
    BY <1>16 DEF racingWrites, SourceUrl, MainIdle, Bookkeeping, NoCallback
  <2>3. activeDownloads' \in [Urls -> Requests \cup {NoRequest}]
    BY <1>16 DEF racingWrites, TypeOK
  <2>4. raced' \subseteq Urls \cup {NoUrl}
    BY <1>16, <2>2 DEF racingWrites, TypeOK
  <2>5. TypeOK'
    BY <1>16, <2>1, <2>3, <2>4 DEF racingWrites, TypeOK, NoWrite, CallbackAt
  <2>6. \A u \in Urls : activeDownloads'[u] # NoRequest => IsFor(activeDownloads'[u], u)
    BY <1>16, <2>2 DEF racingWrites, TypeOK, Bookkeeping
  <2>7. callback'.task = callback.task /\ callback # NoCallback
    BY <1>16 DEF racingWrites, NoCallback, TypeOK
  <2>8. \A r \in Requests : /\ requests'[r].photo = requests[r].photo
                            /\ requests[r].task \in Tasks => requests'[r].task \in Tasks
    BY <2>1 DEF SamePhotos
  <2>9. Bookkeeping'
    BY <1>16, <2>6, <2>7, <2>8 DEF racingWrites, TypeOK, Bookkeeping, IsFor, NoWrite
  <2>. QED
    BY <2>5, <2>9
<1>17. CASE terminate
  <2>1. \A t \in Tasks : UnusedTask \in Task
    BY DownloadConstants DEF UnusedTask, Task, TaskState
  <2>2. \A t \in Tasks, s \in TaskState : Inherited(t, s) \in Task
    BY <2>1, TaskFields DEF Inherited, TypeOK
  <2>3. \A t \in Tasks, s \in TaskState :
           /\ Inherited(t, s).url = tasks[t].url
           /\ Inherited(t, s).state # "unused" => s # "unused"
    BY DEF Inherited, TypeOK, Task, UnusedTask
  <2>4. \A t \in Tasks : tasks[t].state \in TaskState
    BY DEF TypeOK, Task
  <2>5. tasks' \in [Tasks -> Task]
    BY <1>17, <2>2, <2>4 DEF terminate, TaskState
  <2>6. TypeOK'
    BY <1>17, <2>5 DEF terminate, TypeOK, NoWrite, NoCallback, CallbackAt
  <2>7. \A t \in Tasks : tasks'[t].state # "unused" => tasks[t].state # "unused" /\ tasks'[t].url = tasks[t].url
    BY <1>17, <2>3, <2>4 DEF terminate, Live, Bookkeeping, NoCallback, TaskState
  <2>8. Bookkeeping'
    BY <1>17, <2>7 DEF terminate, Bookkeeping, IsFor, NoWrite, NoCallback
  <2>. QED
    BY <2>6, <2>8
<1>18. CASE UNCHANGED vars
  BY <1>18 DEF vars, TypeOK, Bookkeeping, IsFor
<1>. QED
  BY <1>1, <1>2, <1>3, <1>4, <1>5, <1>7, <1>9, <1>10, <1>11, <1>12, <1>13, <1>14,
     <1>15, <1>16, <1>17, <1>18 DEF Next, didFinish

\* The manager's state always has its type, and its book-keeping is right.
THEOREM DownloadTypes == Spec => [](TypeOK /\ Bookkeeping)
<1>1. Spec => []Typed
  BY TypedInit, TypedNext, PTL DEF Spec
<1>. QED
  BY <1>1 DEF Typed

----------------------------------------------------------------------------
\* What a used task and an allocated request stand for never changes.
Kept ==
    /\ \A r \in Requests : requests[r].photo # {} => requests'[r].photo = requests[r].photo
    /\ \A t \in Tasks : tasks[t].state # "unused" =>
          tasks'[t].state # "unused" /\ tasks'[t].url = tasks[t].url

LEMMA StepKeeps == Typed /\ [Next]_vars => Kept
<1> SUFFICES ASSUME Typed, [Next]_vars PROVE Kept
  OBVIOUS
<1> USE DEF Typed, TypeOK
<1>1. UnusedTask.state = "unused" /\ Unallocated.photo = {}
  BY DEF UnusedTask, Unallocated
<1>2. ASSUME NEW p \in Photos, startDownload(p) PROVE Kept
  BY <1>1, <1>2 DEF startDownload, Kept
<1>3. \A k \in Task : Cancelled(k).url = k.url /\ (k.state # "unused" => Cancelled(k).state # "unused")
  BY DEF Cancelled, Task
<1>4. ASSUME NEW p \in Photos, cancelDownload(p) PROVE Kept
  BY <1>3, <1>4 DEF cancelDownload, Kept
<1>5. ASSUME NEW p \in Photos, pauseDownload(p) PROVE Kept
  BY <1>3, <1>5 DEF pauseDownload, Kept, DownloadRequest
<1>6. ASSUME NEW p \in Photos, resumeDownload(p) PROVE Kept
  BY <1>1, <1>6 DEF resumeDownload, Kept, DownloadRequest
<1>7. ASSUME MarkDownloading PROVE \A r \in Requests : requests'[r].photo = requests[r].photo
  BY <1>7 DEF MarkDownloading, DownloadRequest
<1>8. CASE mainWriteDone \/ racingWrites
  BY <1>7, <1>8 DEF mainWriteDone, racingWrites, Kept
<1>9. ASSUME NEW t \in Tasks, resumeDataProduced(t) PROVE Kept
  BY <1>9 DEF resumeDataProduced, Kept, DownloadRequest
<1>10. ASSUME NEW t \in Tasks, transferCompletes(t) \/ transferFails(t) \/ didFinish_lookup(t) PROVE Kept
  BY <1>10 DEF transferCompletes, transferFails, didFinish_lookup, Kept, Task
<1>11. ASSUME NEW t \in Tasks, didWriteData(t) PROVE Kept
  BY <1>11 DEF didWriteData, Kept, Task, DownloadRequest
<1>12. CASE didFinish
  BY <1>12 DEF didFinish, didFinish_clear, didFinish_remove, didFinish_copy, didFinish_report, Kept
<1>13. CASE terminate
  <2>1. \A t \in Tasks, s \in TaskState : tasks[t].state # "unused" =>
           Inherited(t, s).url = tasks[t].url /\ Inherited(t, s).state = s
    BY <1>1 DEF Inherited, Task
  <2>2. \A t \in Tasks : tasks[t].state \in TaskState
    BY DEF Task
  <2>3. \A t \in Tasks : tasks[t].state # "unused" =>
           tasks'[t].state # "unused" /\ tasks'[t].url = tasks[t].url
    BY <1>13, <2>1, <2>2 DEF terminate, TaskState
  <2>. QED
    BY <1>13, <2>3 DEF terminate, Kept
<1>14. CASE UNCHANGED vars
  BY <1>14 DEF vars, Kept
<1>. QED
  BY <1>2, <1>4, <1>5, <1>6, <1>8, <1>9, <1>10, <1>11, <1>12, <1>13, <1>14 DEF Next

LEMMA IsForKept == Kept => \A r \in Requests : \A u : IsFor(r, u) => IsFor(r, u)'
  BY DEF Kept, IsFor

----------------------------------------------------------------------------
\* The request a callback found is one for the URL its task fetched, and so is
\* the one it reports.
ReportsMatch ==
    /\ callback.request # NoRequest => IsFor(callback.request, tasks[callback.task].url)
    /\ \A x \in reports : tasks[x.task].state # "unused"
    /\ ReportIsForItsPhoto

LEMMA ReportsMatchNext == Typed /\ ReportsMatch /\ [Next]_vars => ReportsMatch'
<1> SUFFICES ASSUME Typed, ReportsMatch, [Next]_vars PROVE ReportsMatch'
  OBVIOUS
<1>1. Kept /\ \A r \in Requests : \A u : IsFor(r, u) => IsFor(r, u)'
  BY StepKeeps, IsForKept
<1>2. callback.request # NoRequest => callback.task \in Tasks /\ tasks[callback.task].state = "delivered"
  BY DEF Typed, Bookkeeping, NoCallback
<1>4. \A x \in reports :
         x.request \in Requests /\ x.task \in Tasks
         /\ tasks'[x.task].state # "unused" /\ IsFor(x.request, tasks[x.task].url)'
  BY <1>1 DEF Typed, TypeOK, ReportsMatch, ReportIsForItsPhoto, Kept, IsFor
<1>5. ASSUME NEW t \in Tasks, didFinish_lookup(t) PROVE ReportsMatch'
  <2>1. tasks[t].url \in Urls
    BY <1>5 DEF didFinish_lookup, Typed, Bookkeeping
  <2>2. activeDownloads[tasks[t].url] # NoRequest =>
           IsFor(activeDownloads[tasks[t].url], tasks[t].url)
    BY <2>1 DEF Typed, Bookkeeping
  <2>3. tasks'[t].url = tasks[t].url /\ UNCHANGED <<requests, reports>>
        /\ callback'.task = t /\ callback'.request = activeDownloads[tasks[t].url]
    BY <1>1, <1>5 DEF didFinish_lookup, Kept, Callback, NoCallback
  <2>. QED
    BY <1>4, <2>2, <2>3 DEF ReportsMatch, ReportIsForItsPhoto, IsFor
<1>6. CASE didFinish_report
  <2>1. callback.request # NoRequest => IsFor(callback.request, tasks[callback.task].url)
                                        /\ tasks[callback.task].state # "unused"
    BY <1>2 DEF ReportsMatch
  <2>2. callback'.request = NoRequest
    BY <1>6 DEF didFinish_report, NoCallback
  <2>3. \A x \in reports' : \/ x \in reports
                            \/ /\ callback.request # NoRequest
                               /\ x.request = callback.request /\ x.task = callback.task
    BY <1>6 DEF didFinish_report
  <2>4. UNCHANGED <<requests, tasks>>
    BY <1>6 DEF didFinish_report
  <2>. QED
    BY <1>4, <2>1, <2>2, <2>3, <2>4 DEF ReportsMatch, ReportIsForItsPhoto, IsFor
<1>7. CASE terminate
  BY <1>4, <1>7 DEF terminate, ReportsMatch, ReportIsForItsPhoto, NoCallback
<1>8. CASE /\ UNCHANGED reports
           /\ callback'.task = callback.task /\ callback'.request = callback.request
  <2>1. callback.request # NoRequest => IsFor(callback.request, tasks[callback.task].url)'
    BY <1>1, <1>2, <1>8 DEF Typed, TypeOK, ReportsMatch, Kept, IsFor
  <2>. QED
    BY <1>4, <1>8, <2>1 DEF ReportsMatch, ReportIsForItsPhoto, IsFor
<1>. QED
  BY <1>5, <1>6, <1>7, <1>8
     DEF Next, vars, didFinish, startDownload, cancelDownload, pauseDownload, resumeDownload,
         mainWriteDone, resumeDataProduced, transferCompletes, transferFails, didWriteData,
         didFinish_clear, didFinish_remove, didFinish_copy, racingWrites, Typed, TypeOK

\* A report is for the photo whose raw URL the file was fetched from.
THEOREM ReportsAreForTheirPhoto == Spec => []ReportIsForItsPhoto
<1>1. Init => ReportsMatch
  BY DEF Init, ReportsMatch, ReportIsForItsPhoto, NoCallback
<1>2. Spec => [](TypeOK /\ Bookkeeping)
  BY DownloadTypes
<1>3. ReportsMatch => ReportIsForItsPhoto
  BY DEF ReportsMatch
<1>. QED
  BY <1>1, <1>2, <1>3, ReportsMatchNext, PTL DEF Spec, Typed

----------------------------------------------------------------------------
\* The registration of a request was lost or resurrected by a data race.
Raced(r) == \E u \in raced : IsFor(r, u)

InDictionary(r) == \E u \in Urls : activeDownloads[u] = r

Cleared == callback.at \in {"remove", "copy", "report"}

\* A request moves one way: from the main thread's outstanding write into the
\* dictionary, from there into one callback, and from there into one report.
OneWay ==
    /\ ReportedOnce
    /\ \A x \in reports : Raced(x.request) \/ (~InDictionary(x.request) /\ callback.request # x.request)
    /\ mainWrite.request # NoRequest =>
          /\ ~InDictionary(mainWrite.request)
          /\ callback.request # mainWrite.request
          /\ \A x \in reports : x.request # mainWrite.request
    /\ Cleared /\ callback.request # NoRequest =>
          Raced(callback.request) \/ ~InDictionary(callback.request)

\* The steps that leave the dictionary and the reports alone.
Quiet ==
    /\ UNCHANGED <<activeDownloads, reports, raced>>
    /\ callback'.request = callback.request
    /\ Cleared' => Cleared
    /\ mainWrite'.request \in {mainWrite.request, NoRequest}

LEMMA OneUrl ==
    ASSUME Typed, NEW r \in Requests, NEW u, NEW v, IsFor(r, u), IsFor(r, v)
    PROVE  u = v
  BY DEF Typed, Bookkeeping, IsFor

LEMMA OneWayNext == Typed /\ ReportsMatch /\ OneWay /\ [Next]_vars => OneWay'
<1> SUFFICES ASSUME Typed, ReportsMatch, OneWay, [Next]_vars PROVE OneWay'
  OBVIOUS
<1>1. \A r \in Requests : \A u : IsFor(r, u) => IsFor(r, u)'
  BY StepKeeps, IsForKept
<1>2. raced \subseteq raced'
  BY DEF Next, vars, didFinish, startDownload, cancelDownload, pauseDownload, resumeDownload,
         mainWriteDone, resumeDataProduced, transferCompletes, transferFails, didWriteData,
         didFinish_lookup, didFinish_clear, didFinish_remove, didFinish_copy, didFinish_report,
         racingWrites, terminate
<1>3. \A r \in Requests : Raced(r) => Raced(r)'
  BY <1>1, <1>2 DEF Raced
<1>4. \A x \in reports : x.request \in Requests
  BY DEF Typed, TypeOK
<1>5. callback.request \in Requests \cup {NoRequest} /\ mainWrite.request \in Requests \cup {NoRequest}
  BY DEF Typed, TypeOK
<1>6. \A u \in Urls : activeDownloads[u] \in Requests \cup {NoRequest}
  BY DEF Typed, TypeOK
<1>7. NoRequest \notin Requests
  BY DownloadConstants
<1>8. ASSUME reports' = reports PROVE ReportedOnce'
  BY <1>3, <1>4, <1>8 DEF OneWay, ReportedOnce, Raced
<1>9. CASE Quiet
  <2>1. \A r : InDictionary(r)' <=> InDictionary(r)
    BY <1>9 DEF Quiet, InDictionary
  <2>. QED
    BY <1>3, <1>4, <1>5, <1>8, <1>9, <2>1 DEF Quiet, OneWay
<1>10. ASSUME NEW p \in Photos, startDownload(p) PROVE OneWay'
  <2>1. PICK r \in Requests : requests[r] = Unallocated /\ mainWrite'.request = r
    BY <1>10 DEF startDownload
  <2>2. \A u : ~IsFor(r, u)
    BY <2>1 DEF IsFor, Unallocated
  <2>3. UNCHANGED <<activeDownloads, callback, reports, raced>>
    BY <1>10 DEF startDownload
  <2>4. ~InDictionary(r)
    BY <2>2, <1>7 DEF InDictionary, Typed, Bookkeeping
  <2>5. callback.request # r /\ \A x \in reports : x.request # r
    BY <1>7, <2>2 DEF ReportsMatch, ReportIsForItsPhoto
  <2>. QED
    BY <1>3, <1>4, <1>5, <1>8, <2>1, <2>3, <2>4, <2>5 DEF OneWay, InDictionary, Cleared
<1>11. CASE mainWriteDone
  <2>1. \A u \in Urls : activeDownloads'[u] \in {activeDownloads[u], mainWrite.request}
    BY <1>11 DEF mainWriteDone, Typed, TypeOK
  <2>2. mainWrite'.request = NoRequest /\ UNCHANGED <<callback, reports, raced>>
    BY <1>11 DEF mainWriteDone, NoWrite
  <2>3. \A r : r # NoRequest /\ InDictionary(r)' => InDictionary(r) \/ r = mainWrite.request
    BY <2>1 DEF InDictionary
  <2>. QED
    BY <1>3, <1>4, <1>5, <1>7, <1>8, <2>2, <2>3 DEF OneWay, Cleared
<1>12. ASSUME NEW t \in Tasks, didFinish_lookup(t) PROVE OneWay'
  <2>1. tasks[t].url \in Urls
    BY <1>12 DEF didFinish_lookup, Typed, Bookkeeping
  <2>2. callback'.request = NoRequest \/ InDictionary(callback'.request)
    BY <1>12, <2>1 DEF didFinish_lookup, InDictionary, Callback, NoCallback
  <2>3. ~Cleared' /\ UNCHANGED <<activeDownloads, mainWrite, reports, raced>>
    BY <1>12 DEF didFinish_lookup, Cleared, Callback, NoCallback
  <2>. QED
    BY <1>3, <1>4, <1>5, <1>7, <1>8, <2>2, <2>3 DEF OneWay, InDictionary
<1>13. ASSUME callback.request # NoRequest
       PROVE  callback.request \in Requests /\ SourceUrl \in Urls /\ IsFor(callback.request, SourceUrl)
  BY <1>5, <1>13 DEF ReportsMatch, SourceUrl, Typed, Bookkeeping, NoCallback
<1>14. ASSUME callback.request # NoRequest, NEW u \in Urls, activeDownloads[u] = callback.request
       PROVE  u = SourceUrl
  BY <1>13, <1>14, OneUrl DEF Typed, Bookkeeping
<1>15. CASE didFinish_clear
  <2>1. \A u \in Urls : activeDownloads'[u] \in {activeDownloads[u], NoRequest}
    BY <1>15 DEF didFinish_clear, Typed, TypeOK
  <2>2. \A r : r # NoRequest /\ InDictionary(r)' => InDictionary(r)
    BY <2>1 DEF InDictionary
  <2>3. callback.request # NoRequest => activeDownloads'[SourceUrl] = NoRequest
    BY <1>13, <1>15 DEF didFinish_clear, Typed, TypeOK
  <2>4. callback.request # NoRequest => ~InDictionary(callback.request)'
    BY <1>14, <1>15, <2>1, <2>3 DEF InDictionary, didFinish_clear
  <2>. QED
    BY <1>3, <1>4, <1>5, <1>7, <1>8, <1>15, <2>2, <2>4 DEF OneWay, didFinish_clear
<1>16. CASE racingWrites
  <2>1. mainWrite'.request = NoRequest /\ callback'.request = callback.request /\ UNCHANGED reports
    BY <1>16 DEF racingWrites, NoWrite
  <2>2. \A u \in Urls : activeDownloads'[u] \in {activeDownloads[u], mainWrite.request, NoRequest}
    BY <1>16 DEF racingWrites, Typed, TypeOK
  <2>3. \A r : r # NoRequest /\ InDictionary(r)' => InDictionary(r) \/ r = mainWrite.request
    BY <2>2 DEF InDictionary
  <2>4. callback.request # NoRequest => Raced(callback.request)' \/ ~InDictionary(callback.request)'
    <3>1. SUFFICES ASSUME callback.request # NoRequest
                   PROVE  Raced(callback.request)' \/ ~InDictionary(callback.request)'
      OBVIOUS
    <3>2. CASE raced' = raced \cup {SourceUrl}
      BY <1>1, <1>13, <2>1, <3>1, <3>2 DEF Raced
    <3>3. CASE activeDownloads' = [activeDownloads EXCEPT ![SourceUrl] = NoRequest]
      BY <1>13, <1>14, <2>1, <3>1, <3>3 DEF InDictionary, Typed, TypeOK
    <3>. QED
      BY <1>16, <3>2, <3>3 DEF racingWrites
  <2>. QED
    BY <1>3, <1>4, <1>5, <1>7, <1>8, <2>1, <2>3, <2>4 DEF OneWay
<1>17. CASE didFinish_report
  <2>1. Cleared /\ callback'.request = NoRequest /\ UNCHANGED <<activeDownloads, mainWrite, raced>>
    BY <1>17 DEF didFinish_report, Cleared, NoCallback
  <2>2. \A x \in reports' : \/ x \in reports
                            \/ /\ callback.request # NoRequest
                               /\ x = [request |-> callback.request, task |-> callback.task]
    BY <1>17 DEF didFinish_report
  <2>3. ReportedOnce'
    BY <1>3, <1>4, <1>5, <2>1, <2>2 DEF OneWay, ReportedOnce, Raced
  <2>4. \A x \in reports' : Raced(x.request)' \/ ~InDictionary(x.request)'
    BY <1>3, <1>4, <1>5, <2>1, <2>2 DEF OneWay, InDictionary
  <2>5. mainWrite.request # NoRequest =>
          ~InDictionary(mainWrite.request)' /\ \A x \in reports' : x.request # mainWrite.request
    BY <2>1, <2>2 DEF OneWay, InDictionary
  <2>6. \A x \in reports' : x.request # NoRequest
    BY <1>4, <1>7, <2>2
  <2>. QED
    BY <2>1, <2>3, <2>4, <2>5, <2>6 DEF OneWay
<1>18. CASE terminate
  <2>1. /\ \A r : r # NoRequest => ~InDictionary(r)'
        /\ mainWrite'.request = NoRequest /\ callback'.request = NoRequest /\ UNCHANGED reports
    BY <1>18 DEF terminate, InDictionary, NoWrite, NoCallback
  <2>. QED
    BY <1>4, <1>7, <1>8, <2>1 DEF OneWay
<1>19. ASSUME NEW p \in Photos, cancelDownload(p) PROVE Quiet
  BY <1>19 DEF cancelDownload, Quiet, Cleared
<1>20. ASSUME NEW p \in Photos, pauseDownload(p) \/ resumeDownload(p) PROVE Quiet
  BY <1>20 DEF pauseDownload, resumeDownload, Quiet, Cleared
<1>21. ASSUME NEW t \in Tasks,
              resumeDataProduced(t) \/ transferCompletes(t) \/ transferFails(t) \/ didWriteData(t)
       PROVE  Quiet
  BY <1>21 DEF resumeDataProduced, transferCompletes, transferFails, didWriteData, Quiet, Cleared
<1>22. CASE didFinish_remove \/ didFinish_copy \/ UNCHANGED vars
  <2>1. Quiet
    BY <1>22 DEF didFinish_remove, didFinish_copy, vars, Quiet, Cleared, Typed, TypeOK
  <2>. QED
    BY <1>9, <2>1
<1>. QED
  BY <1>9, <1>10, <1>11, <1>12, <1>15, <1>16, <1>17, <1>18, <1>19, <1>20, <1>21, <1>22
     DEF Next, didFinish

\* A download is reported once, unless a write to the dictionary was lost.
THEOREM DownloadsAreReportedOnce == Spec => []ReportedOnce
<1>1. Init => ReportsMatch /\ OneWay
  BY DEF Init, ReportsMatch, ReportIsForItsPhoto, OneWay, ReportedOnce, NoCallback, NoWrite
<1>2. Spec => [](TypeOK /\ Bookkeeping)
  BY DownloadTypes
<1>3. OneWay => ReportedOnce
  BY DEF OneWay
<1>. QED
  BY <1>1, <1>2, <1>3, ReportsMatchNext, OneWayNext, PTL DEF Spec, Typed

----------------------------------------------------------------------------
Arrived == {"transferred", "delivered", "cancelled"}

\* FilesAreWhole, and what removeItem left for copyItem to find.
Whole ==
    /\ FilesAreWhole
    /\ callback.at \in {"clear", "remove"} => callback.kept = NoTask
    /\ callback.at = "copy" => files[Destination] = callback.kept

\* A task whose file arrived is never run again.
LEMMA ArrivedStays ==
    Typed /\ [Next]_vars => \A t \in Tasks : tasks[t].state \in Arrived => tasks'[t].state \in Arrived
<1> SUFFICES ASSUME Typed, [Next]_vars
             PROVE  \A t \in Tasks : tasks[t].state \in Arrived => tasks'[t].state \in Arrived
  OBVIOUS
<1> USE DEF Typed, TypeOK, Arrived
<1>1. UnusedTask.state = "unused"
  BY DEF UnusedTask
<1>2. ASSUME NEW p \in Photos, startDownload(p) \/ resumeDownload(p)
      PROVE  \A t \in Tasks : tasks[t].state \in Arrived => tasks'[t].state \in Arrived
  BY <1>1, <1>2 DEF startDownload, resumeDownload
<1>3. ASSUME NEW p \in Photos, cancelDownload(p) \/ pauseDownload(p)
      PROVE  \A t \in Tasks : tasks[t].state \in Arrived => tasks'[t].state \in Arrived
  BY <1>3 DEF cancelDownload, pauseDownload, Cancelled
<1>4. ASSUME NEW t \in Tasks, transferCompletes(t) \/ transferFails(t) \/ didWriteData(t) \/ didFinish_lookup(t)
      PROVE  \A k \in Tasks : tasks[k].state \in Arrived => tasks'[k].state \in Arrived
  BY <1>4 DEF transferCompletes, transferFails, didWriteData, didFinish_lookup, Task
<1>5. CASE terminate
  <2>1. \A t \in Tasks, s \in TaskState : tasks[t].state # "unused" => Inherited(t, s).state = s
    BY <1>1 DEF Inherited, Task
  <2>. QED
    BY <1>5, <2>1 DEF terminate, TaskState
<1>6. CASE UNCHANGED tasks
  BY <1>6
<1>. QED
  BY <1>2, <1>3, <1>4, <1>5, <1>6
     DEF Next, vars, didFinish, mainWriteDone, resumeDataProduced, didFinish_clear, didFinish_remove,
         didFinish_copy, didFinish_report, racingWrites

LEMMA WholeNext == Typed /\ Whole /\ [Next]_vars => Whole'
<1> SUFFICES ASSUME Typed, Whole, [Next]_vars PROVE Whole'
  OBVIOUS
<1>1. \A t \in Tasks : tasks[t].state \in Arrived =>
         tasks'[t].state \in Arrived /\ tasks'[t].url = tasks[t].url
  BY ArrivedStays, StepKeeps DEF Kept, Arrived
<1>2. callback # NoCallback => /\ callback.task \in Tasks
                               /\ tasks[callback.task].state = "delivered"
                               /\ SourceUrl \in Urls /\ Destination \in Files
  BY DownloadConstants DEF Typed, Bookkeeping, SourceUrl, Destination
<1>3. callback # NoCallback => tasks'[callback.task].url = tasks[callback.task].url
                               /\ tasks'[callback.task].state \in Arrived
  BY <1>1, <1>2 DEF Arrived
<1>4. \A f \in Files : files[f] \in Tasks \cup {NoTask}
  BY DEF Typed, TypeOK
<1>5. \A f \in Files : files[f] # NoTask =>
         files[f] \in Tasks /\ LocalFile[tasks'[files[f]].url] = f /\ tasks'[files[f]].state \in Arrived
  BY <1>1, <1>4 DEF Whole, FilesAreWhole, Arrived
<1>6. CASE /\ UNCHANGED files /\ callback'.at \notin {"copy", "report"}
           /\ callback'.at \in {"clear", "remove"} => callback'.kept = NoTask
  BY <1>5, <1>6 DEF Whole, FilesAreWhole, Arrived
<1>7. CASE UNCHANGED <<files, callback>>
  <2>1. CASE callback = NoCallback
    BY <1>5, <1>7, <2>1 DEF Whole, FilesAreWhole, Arrived, NoCallback
  <2>2. CASE callback # NoCallback
    <3>1. Destination' = Destination
      BY <1>3, <1>7, <2>2 DEF Destination, SourceUrl
    <3>. QED
      BY <1>5, <1>7, <3>1 DEF Whole, FilesAreWhole, Arrived
  <2>. QED
    BY <2>1, <2>2
<1>8. CASE didFinish_remove
  <2>1. callback # NoCallback /\ UNCHANGED tasks
    BY <1>8 DEF didFinish_remove, NoCallback
  <2>2. callback'.at = "copy" /\ callback'.task = callback.task
    BY <1>8 DEF didFinish_remove, Typed, TypeOK
  <2>3. Destination' = Destination
    BY <2>1, <2>2 DEF Destination, SourceUrl
  <2>4. \A f \in Files : files'[f] = files[f] \/ (f = Destination /\ files'[f] = NoTask)
    BY <1>8 DEF didFinish_remove, Typed, TypeOK
  <2>5. files'[Destination] = callback'.kept
    BY <1>2, <1>8, <2>1 DEF didFinish_remove, Typed, TypeOK, Whole
  <2>. QED
    BY <1>2, <1>5, <2>2, <2>3, <2>4, <2>5 DEF Whole, FilesAreWhole, Arrived
<1>9. CASE didFinish_copy
  <2>1. callback # NoCallback /\ callback' = [callback EXCEPT !.at = "report"] /\ UNCHANGED tasks
        /\ files[Destination] = callback.kept
    BY <1>9 DEF didFinish_copy, NoCallback, Whole
  <2>2. callback'.at = "report" /\ callback'.task = callback.task /\ callback'.kept = callback.kept
    BY <2>1 DEF Typed, TypeOK
  <2>3. Destination' = Destination
    BY <2>1, <2>2 DEF Destination, SourceUrl
  <2>4. \A f \in Files : files'[f] = files[f] \/ (f = Destination /\ files'[f] = callback.task)
    BY <1>9 DEF didFinish_copy, Typed, TypeOK
  <2>5. LocalFile[tasks'[callback.task].url] = Destination
    BY <2>1 DEF Destination, SourceUrl
  <2>6. \/ callback.kept = NoTask /\ files'[Destination] \in {NoTask, callback.task}
        \/ callback.kept # NoTask /\ files'[Destination] = callback.kept
    BY <1>2, <1>9, <2>1, <2>4 DEF didFinish_copy
  <2>. QED
    BY <1>2, <1>3, <1>5, <2>1, <2>2, <2>3, <2>4, <2>5, <2>6 DEF Whole, FilesAreWhole, Arrived
<1>10. CASE didFinish_clear \/ racingWrites
  BY <1>6, <1>10 DEF didFinish_clear, racingWrites, Typed, TypeOK, Whole
<1>11. CASE didFinish_report \/ terminate
  BY <1>6, <1>11 DEF didFinish_report, terminate, NoCallback
<1>12. ASSUME NEW t \in Tasks, didFinish_lookup(t) PROVE Whole'
  BY <1>6, <1>12 DEF didFinish_lookup, Callback, NoCallback
<1>. QED
  BY <1>7, <1>8, <1>9, <1>10, <1>11, <1>12
     DEF Next, vars, didFinish, startDownload, cancelDownload, pauseDownload, resumeDownload,
         mainWriteDone, resumeDataProduced, transferCompletes, transferFails, didWriteData

\* Files are only ever whole, and a report finds its own bytes, no file, or
\* the file that its own failed removal left.
THEOREM StoredFilesAreWhole == Spec => []FilesAreWhole
<1>1. Init => Whole
  BY DownloadConstants DEF Init, Whole, FilesAreWhole, NoCallback
<1>2. Spec => [](TypeOK /\ Bookkeeping)
  BY DownloadTypes
<1>3. Whole => FilesAreWhole
  BY DEF Whole
<1>. QED
  BY <1>1, <1>2, <1>3, WholeNext, PTL DEF Spec, Typed
============================================================================
