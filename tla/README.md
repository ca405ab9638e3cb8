# ImSplash in TLA+

ImSplash is an iOS application (Swift, VIPER modules) that shows a feed of
Unsplash photos, keeps favourites and downloads photos to the device. Its
records are kept by Realm, whose object store (C++) is part of the repository
under `Pods/`. These modules model the parts of both in which order and
concurrency matter, check them with TLC, and prove the safety of the download
manager, the photo library, the feed, the photo images, the layout, the
notifiers and the changes read from transaction logs with TLAPS.

The project has two tiers. The first is the application itself; its paths are
relative to `src/ImSplash/ImSplash/Classes/`. The second is what the object
store does with a change of the database between the transaction log and the
callback of an observer; its paths are relative to
`src/ImSplash/Pods/Realm/Realm/ObjectStore/src/`.

## 1. Inventory

| Part | State it keeps | Operations | Talks to |
|---|---|---|---|
| Download manager (`Common/Services/DownloadManager.swift`) | `activeDownloads`, the `DownloadRequest` objects, the lazy background session | `startDownload`, `pauseDownload`, `resumeDownload`, `cancelDownload`; callbacks `didFinishDownloadingTo`, `didWriteData` | Documents directory; `ListInteractor` (its delegate) |
| Database (`Modules/Detail/Business Logic/Manager/DataManager.swift`) | Realm table of `LocalImage` | two ways to toggle a favourite, save a downloaded path, lookups | Detail and Collection screens, `ListInteractor` |
| Detail screen (`Modules/Detail`) | photo, `isFavorite`, alert | heart, download, close | database, download manager |
| Collection screen (`Modules/List`) | `dowList`, `favList`, the tab | tabs, `loadData`, hearts, repainting with progress | database, `activeDownloads` |
| Paged data source (`Common/Services/PagedDataSource.swift`) | `items`, `cursor`, `isFetching`, `canFetchMore` | `fetchNextPage`, `reset`, completion block | operation queue, `HomeInteractor` (its delegate) |
| Page requests (`Common/Operations`) | one `Operation` each: executing, finished, cancelled, error, items | `start`, `main`, `cancel`, `processResponse` | `URLSession.shared` |
| Home screen (`Modules/Home`) | `photos`, spinner, `EmptyView`, collection view | appearing, prefetching, showing results and errors | data source; opens the two other screens |
| Photo images (`Common/Services/ImageDownloader.swift`, `Common/Views/PhotoView.swift`) | per cell: task, `isCancelled`, image; shared `ImageCache` | `downloadPhoto`, `cancel`, `configure`, `prepareForReuse` | `URLSession.shared`, main queue |
| Waterfall layout (`Common/Views/WaterfallLayout.swift`) | frames, content height | `prepare`, `layoutAttributesForElements`, invalidation | collection views of Home and Collection |
| Not modelled | heart button, empty view, gradients, wireframes, presenters that only forward, search requests (no caller), conversions, dead types | | |

The object store of Realm:

| Part | State it keeps | Operations | Talks to |
|---|---|---|---|
| Index sets (`index_set.cpp`) | row numbers as sorted ranges, in chunks with cached counts | add, remove, insert, erase, shift, unshift, count, for one index or a set of them | the change sets |
| Change sets (`impl/collection_change_builder.cpp`) | deletions, insertions, modifications, moves, the mapping of moved rows | `modify`, `insert`, `erase`, `move`, `move_over`, `swap`, `subsume`, `clear`, `parse_complete`, `clean_up_stale_moves`, `merge`, `calculate`, `finalize` | logs, notifiers |
| Transaction logs (`impl/transact_log_handler.cpp`) | one change set for each observed list and table; row numbers of the observed lists | one handler for each instruction of a log | change sets |
| Results notifier (`impl/results_notifier.cpp`) | the rows of the previous run | `calculate_changes` | change sets |
| Notifiers and coordinator (`impl/collection_notifier.cpp`, `impl/realm_coordinator.cpp`, `shared_realm.cpp`, `list.cpp`) | callbacks with what they have to be told, versions, the skip version | adding, removing and suppressing callbacks; the worker's run; refresh, notify, begin, commit and cancel | the application's callbacks, other processes |
| Not modelled | storage engine (`include/core`), synchronization client, schema and key paths, bindings to Objective-C and Swift, other vendored libraries | | |

Threads: the main thread (taps, screens, blocks of `DispatchQueue.main.async`);
the delegate queue of the background session (serial); the operation queue; the
queue of `URLSession.shared`; and the thread an operation's `completionBlock`
runs on. The only locks are inside Realm, which the application uses on the main
thread only; Realm's notifiers run on a worker thread of its own.

What has no caller: `pauseDownload`, `resumeDownload` and `cancelDownload` (the
download manager is modelled with them, the composition without),
`ListInteractor.loadData` and `DataManager.getDataCollection`,
`PagedDataSource.cancelFetch`, and everything about searching.

### What is hard, and what is right

* **Downloads.** Two threads share a dictionary without a lock; a task is
  resumed before it is registered; the background session survives the process,
  the dictionary does not; a copy may fail after the old file was removed, or
  because it could not be.
  Right means: one report per download, for the right photo, and files that
  are whole.
* **Library.** The record is saved later than the report, from a queue that
  taps and screen changes share; two screens keep copies of what the database
  says. Right means: records, files, hearts and lists agree, nothing the user
  did is undone, and what finished is recorded.
* **Feed.** The data source is written by three threads; `reset` does not wait
  for the requests it cancels; a fetch can start before the last page reached
  the view; a response may be dropped. Right means: no page left out, the
  server's order, an end that is the server's, a spinner that stops, insertions
  that add up.
* **Images.** Cells are recycled while tasks, handlers and main-queue blocks of
  their former photo are still to come. Right means: the cell's own image, or
  a known reason why not.
* **Layout.** Fractions rounded down, any width, any item shape. Right means:
  nothing overlaps or leaves the screen, and what is found for a rect is what is
  in it, and little else.
* **Index sets.** A chunk splits in the middle of an operation; its cached count
  lets whole chunks be skipped. Right means: the set holds what it should, and
  lookups agree with the plain set.
* **Changes.** Rows are numbers, and every instruction changes what the numbers
  mean; logs are merged by translating each number through the other's shifts;
  the previous results of a query are numbers of an old version, looked up in
  moves that have to be sorted. Right means:
  applying what is reported to the old collection gives the new one, with every
  row, move and modification where it is.
* **Notifiers.** The list of callbacks is walked by index with the lock released
  during each call, while callbacks come and go; changes wait in two stages;
  versions of the Realm, the notifier and the file differ. Right means: each
  callback is told every change once, at the version its list is at, and in the
  end.

`PROJECT.json` lists every hazard at its line, with the properties that would
catch it or the reason why none does.

## 2. Modules

| Module | Models | Notes |
|---|---|---|
| `DownloadManager` | the download manager, its tasks and files | |
| `DataManager` | the database | one action operator per write transaction |
| `CollectionList` | the Collection screen's lists | item operators, used by the composition |
| `PhotoShelf` | the promise to the user: abstract specification | three sets of photos |
| `PhotoLibrary` | the composition of the four above with Detail, the main queue and navigation | `INSTANCE`s of the three components; refines `PhotoShelf` |
| `PagedFeed` | data source, page requests, interactor, presenter, Home screen | |
| `ImageDownloader` | photo cells, their downloads, the cache | |
| `WaterfallLayout` | the layout | `prepare` as one action per loop iteration |
| `IndexSets` | what index sets promise, on plain sets | no state; used by the next two |
| `IndexSet` | the chunked index set, every operation | checked against `IndexSets` at each step |
| `CollectionChange` | the change set and its operations | no state; written with `IndexSets` |
| `LogChanges` | the log handlers on lists and tables, and the merging of logs | uses `CollectionChange` |
| `QueryResults` | a query run again after a log, `calculate` | uses `CollectionChange` |
| `Notifiers` | callbacks, worker, coordinator, the Realm's writes and refreshes | change sets are sets of versions |
| `...Proofs` | theorems for TLAPS | of `DownloadManager`, `PhotoLibrary`, `PagedFeed`, `ImageDownloader`, `WaterfallLayout`, `Notifiers`, `CollectionChange`, `LogChanges` |
| `MC...` | instances for TLC | sets, functions and symmetry |

Operators whose comment begins with "Mutant" are deliberately wrong variants of
the definition that follows them. No specification uses them; replacing the
definition by its mutant must make TLC find the property violated, which shows
that the property depends on what the code does.

### DownloadManager

`activeDownloads`, `requests` (the heap of `DownloadRequest` objects), `tasks`
(the session's, with their state in the daemon) and `files` are the program's.
`mainWrite` and `callback` are program counters: the code of one thread is cut
where the other can see or change something. `startDownload` stops at
`task.resume()` (line 91) and `mainWriteDone` makes the assignment of line 95;
`didFinishDownloadingTo` is `didFinish_lookup` (114), `_clear` (115), `_remove`
(123), `_copy` (125-130) and `_report` (131-133). The removal of an old file may
fail unnoticed (`try?`); then the copy fails too, as `copyItem` does not
overwrite. `racingWrites` is the data
race proper: both threads write the dictionary at once, and one write may be
lost. (A crash, another outcome of that race, is `terminate`.) `terminate` ends
the process at any moment; the daemon keeps the tasks, or cancels them when the
user swiped the application away, or delivers an interrupted callback again.
`reports` and `raced` are history variables, and so is the field `kept` of
`callback`: the file that a failed removal left.

`progress` is the number of bytes received, not the quotient, and photos are
told apart by their raw URL only.

### PhotoLibrary

Each component's action is conjoined with what the other components do in the
same step: `didFinish_report` appends the block of
`ListInteractor.didUpdateLocal` to `mainQueue`, `runBlock` saves the path and
reloads the Collection screen if it is on top, `touchHeart` writes the database
and changes the lists. A tap waits until `startDownload` has returned
(`DM!MainIdle`), because both run on the main thread. A new
`ListViewController` is made each time the screen is pushed (`ListWireframe`),
so `showDownloadList` empties the lists. Two history variables: `lost`, the
files a failed copy, or a process that died, left missing, and `hearted`, the
photos first recorded by a heart tapped in the Downloads tab, in the cell of a
download that was not saved yet.

The mapping to `PhotoShelf` reads the favourites and the downloaded photos from
the database; `wanted`, the photos the user asked for, are those with a request
on the heap, which is never emptied.

### PagedFeed

An operation goes from `ready` through `executing` and `sent` to `finished`;
its `completionBlock` then takes it through `advanced`, `stored` and `appended`
to `done`, one step for every write the main thread can observe before the
next: cursor, items with the flag, the view's photos, the main-queue block.
`cancel` only sets flags (`Cancelled`), and stops the data task only if
`main()` has assigned it. A response with neither data nor an error leaves the
operation `unanswered`: `processResponseData` returns without completing it, so
that its `completionBlock` never runs. A photo is known by the number of the
page it came
on. `willDisplay` is the prefetching cell, with the three outcomes of
`fetchNextPage`; `viewWillAppear` is the refresh with its reset. `overtaken` is
a history variable: a page was asked for before the last one was delivered.

### ImageDownloader

`cellForItem` dequeues a cell and configures it; `configureAgain` repaints a
visible one. A data task is `running`, then `received` or `failed`; `handle` is
the part of its handler that lets go of `imageDataTask`, `post` the part that
caches and posts the image. `missed` and `overtaken` are history variables.

### WaterfallLayout

`prepare`, `placeItem` and `endPrepare` are one call of `prepare()`: nothing
else is enabled while the loop runs. The column width is a fraction of a point,
so horizontal positions are counted in units of 1/`numberOfColumns`; the floors
are the code's. Rects have the full width of the screen.

### IndexSets, IndexSet and CollectionChange

The row numbers of a change set are held by index sets. `IndexSet` models them
as the code keeps them (chunks, ranges, iterators, the builder that rewrites a
set) and carries `indices`, the plain set that the same operations of
`IndexSets` give; its invariants compare the two. `CollectionChange` is then
written with plain sets, which is what keeps its instances small. The two loops
over a sequence of moves (`clean_up_stale_moves` and the first one of `merge`)
are functions of the number of moves looked at, each step an operator of its own
(`DropStale`, `FollowMove`). `Unknown` is the size `npos` that `clear` is given
for a table: any number that no collection reaches. The model takes a small one;
what the real one means for a later merge is said under "Divergences". Looking
a row up in a change set (`RowNow`, of `results_notifier.cpp`) stands here too,
as both modules that follow need it: `lower_bound` is the place at which the
binary search ends when the moves are sorted. An iterator is a pair of
positions. `count` and the builder's cached count are translated
with the deviations listed under "Divergences"; `miscounted` records that the
second has happened.

### LogChanges

The collection is a sequence of entries with an identity, which the code does
not have; that is what lets the properties say whether the numbers it keeps are
right. One action per instruction: `link_list_...` on a list, the others on a
table. `accumulated` explains `base` to `middle`, over all logs that are
complete, and `changes` explains `middle` to `now`, the log being read.
`EntriesAreTraced` is about the merged changes, which say of every entry where
it went, in whatever order their moves are; `RowsAreFound` is about those of one
log, which is what a query that has run before searches: they must be sorted.
`parse_complete_log` is the end of a log with all the code does there: the
table's moves are worked out (`parse_complete`) or the list's stale ones
dropped (`clean_up_stale_moves`), and the result merged. `lists` are the row
numbers kept for observed lists; the loop of `erase_rows` that replaces a list
by the last one is written in closed form (`EraseListsOf`): the n-th list of the
erased row takes the n-th last list, as long as that is not past it. Which of
the unused identities a new entry gets is chosen once (`NewEntries`), since no
property tells them apart.

### QueryResults

A table with identities as in `LogChanges`, and a query that finds some of its
rows. `calculate_changes` is the run of the notifier: the rows of the previous
run are looked up in the table's change set (`RowNow`), the moves by their old
rows, and `calculate`
compares them with the new ones, by the moves of a result in table order or by
the longest common blocks of a sorted one (`find_longest_matches`). The order
of a sorted query is free: any order of the rows found.

### Notifiers

One Realm on one thread, one observed list, the worker, and others who commit.
What is in a change set is the subject of the two modules before; here it is
the set of versions whose changes it holds, so that merging is union. `main` is
the program counter of the Realm's thread: `waiting` in `package_and_wait`,
`calling` the callbacks, in between user code runs. The worker is cut where it
releases the lock: `startRun`, `runToSkipVersion`, `finishRun`. `seen` and
`asked` are history variables, `excused` records that something happened for
which the code gives no guarantee, and behaviours are followed up to there.

## 3. What TLC checks

| Run | Instance | Shows |
|---|---|---|
| `downloads` | 3 photos (two with a raw URL of their own, one without), 2 requests, 2 tasks, 1 step of progress | `ReportedOnce`, `ReportIsForItsPhoto`, `FilesAreWhole` |
| `library` | 2 photos (one without a raw URL), 2 requests, 2 tasks | `RecordedFileOnDisk`, `OneTransferPerPhoto`, `DetailHeartAgrees`, `FavouritesTabIsCurrent`, `RecordsCanBeShown`; refinement of `PhotoShelf` |
| `library_liveness` | 1 photo, 2 requests, 2 tasks | `CompletedTransferIsRecorded` |
| `feed` | 3 requests, 2 full pages of 2 and a last page of 1, 2 appearances, at most 2 blocks waiting when a cell is displayed | `NoSkippedPage`, `FeedInOrder`, `FlagIsARequest`, `EndIsReal`, `InsertIsConsistent`, `SpinnerHasReason`; under `FairSpec` `FetchEnds`, `SpinnerStops` |
| `feed_server_error` | the same with 4 requests and 1 appearance | a violation, see below |
| `images` | 2 cells, 3 photos (2 remote, 1 local), 3 tasks, 2 blocks waiting when a cell is recycled | `OneTaskPerCell`, `EmptyCellHasReason`, `WrongImageHasReason` |
| `images_liveness` | 1 cell, 3 photos (2 remote, 1 without a source) | `ImageArrives` |
| `layout` | 4 widths (no, one, two and three columns), 3 shapes of photo, up to 5 items | `PhotosFit` (`FramesApart` and `ContentHoldsAll`), `FramesInReadingOrder`, `ExtraElementsLieAbove`, `ItemsHaveAttributes` |
| `index_set` | chunks of 2 ranges, indices 0 to 8, the 16 sets over 0..3 as arguments | `HoldsItsIndices`, `LookupsAreRight` |
| `log_changes` | a list of up to 3 entries and 3 logs of 2 instructions; a table of up to 3 rows, 2 of whose lists are observed, and 2 logs of 3 instructions | `ChangesExplain`, `EntriesAreTraced`, `RowsAreFound`, `ModificationsAreMarked`, `ListsAreTracked` |
| `query_results` | a table of up to 4 rows, 3 instructions between two runs | `ReportProducesNewResults`, `ReportedModificationsAreRight`, `LongestBlockStays` |
| `notifiers` | 4 versions, 2 callbacks | `KnowsTheListItSees`, `NothingIsLostOrRepeated`; under `FairSpec` `ChangesArrive` |

A module's type invariant is a property of its run, or a conjunct of one
(`RecordsCanBeShown`, `PhotosFit`, `HoldsItsIndices`, `ChangesExplain`,
`ReportProducesNewResults`, `NothingIsLostOrRepeated`), or is proved
(`FeedTypes`, `ImageTypes`). Deadlock is checked for `index_set`, whose `clear`
is always possible, and not for the others: those systems may stop, once
requests, tasks, versions or instructions are used up, or when the user does
nothing.

**The bounds.** Requests and tasks of the download manager are never reused, so
their number bounds the history: two of each allow two downloads of one photo,
a resumed download with two tasks, a restart that leaves one task behind while
another is started, and two photos at once, which is every pairwise race; the
theorems of section 4 hold for any number. The feed's pages are small, but
full, partial and empty ones all occur, and three requests allow a reset with a
stale request, the new one and one that overtakes it, or all pages of the feed.
Two cells suffice for the images because cells share only the cache; three
tasks allow a cell to have one running and two that are not posted yet. Five
items fill three columns and start over.

Chunks of two ranges are smaller than the 4 of a debug and the 256 of a release
build; with indices up to 8 a set has up to five ranges in three and more
chunks, so that every split, every merge over a boundary and every skip occurs.
Three entries and two logs are enough for a move through a deleted entry, a
move back, a row moved over twice and a merge of the results; two table logs of
three instructions allow an insertion, a swap and a deletion in each. Four rows
are needed for two blocks of a sorted result to compete. Four versions let the
Realm, the notifier, the worker's target and the file be at different ones, and
two callbacks let each remove or miss the other. Symmetry is used in safety
runs only, over requests, tasks and cells, which are interchangeable.

**Fairness.** `FairSpec` in each module assumes that the main run loop and the
serial delegate queue serve what they were given, that an operation queue
starts its operations, and that a data task of `URLSession.shared` is answered,
by its time-out (30 s, `NetworkRequest.timeoutInterval`) at the latest. Nothing
is assumed of the user, of a background transfer, or of the process's life. In
`Notifiers` it assumes that the worker and the run loop serve what wakes them,
that a callback returns, and that a write transaction which has begun ends; the
user and other processes may stop at any moment.

### What the properties except, and why

Several invariants name the situations in which the code breaks what one would
expect. TLC shows that these are the only ones.

* `ReportedOnce` and `OneTransferPerPhoto`: except when a dictionary write was
  lost, and, for the latter, when a task of an earlier process took the entry
  of a new download down.
* `FilesAreWhole`: when the old file could not be removed, the destination of a
  report holds that file, not the new one. The report is made all the same.
* `RecordedFileOnDisk`: except after a failed copy or a death between remove
  and copy.
* `FavouritesTabIsCurrent`: except for photos the Downloads tab lists too; their
  hearts reach the database but not `favList` (`updateFavoriteForFav`).
* `RecordsCanBeShown`: except for a record made by a heart tapped in the
  Downloads tab, in the cell of a download under way, and only until that
  download is saved: the tap knows neither URL nor size. If the download fails,
  the record stays as it is.
* `FeedInOrder`, `FlagIsARequest`, `InsertIsConsistent`: except after a fetch
  has overtaken another. Two ways lead there: a reset with a request in flight,
  and a cell displayed between `isFetching = false` (line 100) and the delivery
  of that page. Even then `NoSkippedPage` holds.
* `FlagIsARequest`, `FetchEnds`, `SpinnerHasReason`, `SpinnerStops`: except for
  a request whose response was dropped because it had no data (`Hangs`). It
  keeps `isFetching` and the spinner up until a reset.
* `EndIsReal`: except that a request cancelled before it started looks like an
  empty last page.
* `EmptyCellHasReason`, `WrongImageHasReason`: a recycled cell drops the request
  for its new photo while its cancelled task has not called back, and shows its
  old photo's image when that was waiting on the main queue.
* `ItemsHaveAttributes`: except in a frame too narrow for one column.
* `HoldsItsIndices`, `LookupsAreRight`: the cached count of a chunk, once
  `add_shifted_by` has outrun the chunks it reserved; counts that start inside a
  chunk, after its first range.
* `ListsAreTracked`: a list that took the place of an erased row's.
* `ChangesExplain`, `EntriesAreTraced`, `RowsAreFound`: a table whose moves are
  not tracked, as no query is about it, reports only modifications.
* `KnowsTheListItSees`, `NothingIsLostOrRepeated`, `ChangesArrive`: after a
  write begun, or committed, in a callback; after the removal, during a
  delivery, of a callback added in it; after a write whose notification was
  suppressed is cancelled. `ChangesArrive` also leaves out the first call of a
  callback added during a delivery, up to the next change.

### A finding

`feed_server_error` checks `ServerErrorMeansAFailedRequest`: the "Server error"
screen means that a request failed. It does not: `HomeInteractor` maps every
error that is not a lost connection to `.serverError`, also the data source's
own "The data source is already fetching." A user who scrolls back and forth
over the prefetching cell during a fetch sees the feed covered by an error,
with no way to retry, until the page arrives.

### Divergences

Places where the code does something else than its comments say or its names
suggest. The models do what the code does; the properties are stated around it.
The first two are in the application, the others in the object store.

* `Common/Services/DownloadManager.swift:123`: a removal that fails is not
  noticed; the copy then fails as well, is only printed, and the old file is
  reported, and recorded, as the new download.
* `Common/Operations/UnsplashRequest.swift:56` and
  `Common/Operations/GetCollectionPhotosRequest.swift:61` return without
  completing the operation when there is no data and no error, so that whoever
  waits for its completion waits for ever.
* `index_set.cpp:300`: a count that starts in the middle of a chunk leaves part
  of a range out. Every caller that matters counts from the beginning of the
  set, but for the tie-breaking below.
* `index_set.cpp:243`: the builder adds 1 to the count of a chunk for a range
  of any size when it goes on past the chunks it reserved; `verify` (line 190)
  would assert, and later lookups would skip the chunk by the wrong number. A
  release build needs more than 256 ranges in a set to come there.
* `impl/transact_log_handler.cpp:578`: when a row is erased, the last observed
  list is put into the place of the erased row's and not looked at, so that, if
  it is the list of the last row of the table, which moves, it keeps the old
  number.
* `impl/realm_coordinator.cpp:711`: the change sets of notifiers at different
  versions are merged without the moves; the comment at 697-699 reasons as if
  row numbers meant the same in both. Marks of modified rows go stale in a
  table watched for modifications only.
* `impl/collection_change_builder.cpp:524-525` ("guaranteed to produce a minimal
  diff"): `r3 r4 r5` becoming `r4 r5 r3` is reported as two moves.
* `impl/collection_change_builder.cpp:673` counts the modified rows of a block
  from the wrong end when it breaks a tie; `:700` guards the recursion on the
  right with a position of the wrong sequence. Both only make a report longer.
* `impl/collection_change_builder.cpp:256`: `clear_table` does not know the
  length of the table and reports deletions up to `npos`. When another log is
  merged, `add_shifted_by` (`index_set.cpp:396`) walks every such index, which
  does not end in practice. In the model `Unknown` is a small number and the
  merge ends: what the properties say of a cleared table is what it would give.
* `impl/collection_change_builder.cpp:120`: `merge` appends the moves of the new
  log to those of the old ones, in no order, while the notifier of a query
  searches moves by halves (`impl/results_notifier.cpp:138`). In
  `move_over(1, 4)`, then `move_over(0, 3)` in a second log, on five rows, it
  would not find the row that was at 3. That does not happen: logs are merged
  only for notifiers that have not run (`impl/realm_coordinator.cpp:700-717`),
  and a first run looks nothing up (`impl/results_notifier.cpp:120`). Notifiers
  that have run are given the changes of one log, which `parse_complete` has
  sorted; that is `RowsAreFound`.
* `impl/collection_notifier.cpp:213`: `remove_callback` lowers the number of
  callbacks to call whether or not it counts the removed one, although
  `impl/collection_notifier.hpp:241-244` says a callback added during the
  delivery is not counted. The last counted callback is skipped, or the
  unsigned number goes below zero.
* `impl/collection_notifier.cpp:190`: a callback added during a delivery does
  not wake the worker; its first call waits for the next change.
* `impl/realm_coordinator.cpp:901-904` discards notifications that are "out of
  date". After a write begun in a callback these hold changes the callback is
  never told of. When the Realm advanced past a new notifier, they do not.
* `suppress_next_notification` sets a flag that `commit_write` does not use up:
  if the write is cancelled or fails, the next change of somebody else is
  skipped instead; and a run of the worker with no change between the two takes
  the flag down, and the write is notified after all.

## 4. What TLAPS proves

### Download manager

`DownloadManagerProofs` proves for all values of the constants that satisfy
`DownloadConstants` (raw URLs and paths are functions of photos and URLs;
sentinels are not members of their sets; progress is a natural number):

| Theorem | States |
|---|---|
| `DownloadTypes` | `Spec => [](TypeOK /\ Bookkeeping)` |
| `ReportsAreForTheirPhoto` | `Spec => []ReportIsForItsPhoto` |
| `DownloadsAreReportedOnce` | `Spec => []ReportedOnce` |
| `StoredFilesAreWhole` | `Spec => []FilesAreWhole` |

`TypeOK` alone is not inductive: an action that follows a request to its task,
or a callback to its source URL, needs that used tasks have a URL, that
allocated requests have a photo with a URL and a task, and that a running
callback has a task. `Bookkeeping` says that. On top of it:

* *For its photo.* Whatever the dictionary holds under a URL is a request for
  that URL (also what the main thread is about to write, and what the running
  callback took out), and a request's photo never changes (`IsForKept`).
* *Once.* The order of a request's life is one-way: allocated, about to be
  registered, registered, taken out by a callback, reported. A request is in at
  most one of these places and never goes back, unless its URL is in `raced`
  (`OneWayNext`).
* *Whole.* A task that has arrived never becomes one that has not
  (`ArrivedStays`), and the callback's position, with what a failed removal has
  `kept`, tells what the destination holds (`WholeNext`).

### Photo library

`PhotoLibraryProofs`, for any number of photos, URLs, requests and tasks
(`LibraryConstants`: raw URLs and paths are functions of photos and URLs;
sentinels are not members of their sets):

| Theorem | States |
|---|---|
| `LibraryTypes` | `Spec => [](TypeOK /\ SavesAreRight)` |
| `RecordedFilesAreOnDisk` | `Spec => []RecordedFileOnDisk` |
| `DetailHeart` | `Spec => []DetailHeartAgrees` |
| `FavouritesTab` | `Spec => []FavouritesTabIsCurrent` |
| `RecordsAreShown` | `Spec => []RecordsCanBeShown` |
| `OneTransfer` | `Spec => []OneTransferPerPhoto` |
| `LibraryKeepsItsPromise` | `Spec => ImplementsPhotoShelf` |

What is known of the download manager is not proved again: `DownloadSteps` says
that every step of the composition is one of `DownloadManager` or leaves its
variables alone, so that the invariants of `DownloadManagerProofs` hold here
too. On top of them:

* *What is saved.* `SavesAreRight`: a path that is recorded, or in a block that
  will record it, is the path of its photo's own URL, and the user asked for
  that photo.
* *Files.* The property is about records; `SavedAreOnDisk` says the same of
  what is queued to be recorded and of what the callback is about to report.
  The file system changes only under the callback (`OnDiskStays`).
* *Hearts.* Detail toggles its own flag and the record's in one step;
  `HeartAgrees` must also survive the saves of the main queue, which keep the
  heart of a record that exists and give a new one none.
* *Favourites.* `TabIsCurrent`: `favList` is right unless a `loadData` is still
  queued, and a heart tapped there changes list and database alike.
* *What can be shown.* `Presentable`: a record can be shown, or is `Incomplete`,
  made by a heart for a download not saved yet; an item of the Collection
  screen has a record or is one of a download. So a heart tapped there completes
  no record and makes an incomplete one only for a download; a heart on Detail
  and the save of a path complete a record (`HeartForm`), and nothing takes its
  size or image away again.
* *One transfer.* `OneActive`: a task of this process that runs, or whose
  callback has not yet cleared the dictionary, is in the dictionary under its
  URL or about to be put there, unless the URL is excused; so `startDownload`
  finds it.
* *The promise.* `RecordSteps` and `AskingSteps` say what each step does to the
  records and the requests; with `SavesAreRight`, a step that records a path
  does so for a photo that was wanted (`ShelfSteps`).

### Photo images

`ImageDownloaderProofs`, for any number of cells, photos and tasks
(`ImageConstants`: sentinels are not members of their sets, every photo has a
kind of source):

| Theorem | States |
|---|---|
| `ImageTypes` | `Spec => []Typed`: `TypeOK`, `OneTaskPerCell` and `Bookkeeping` |
| `CellsHaveOneTask` | `Spec => []OneTaskPerCell` |
| `WrongImagesAreLate` | `Spec => []WrongImageHasReason` |
| `EmptyCellsWait` | `Spec => []EmptyCellHasReason` |

* *One task.* The handler of a task takes down `imageDataTask` without asking
  whose it is. That it is never another's follows from `Bookkeeping` (a cell's
  task is one of its own that has not called back) and from the guard that no
  task is started while there is one.
* *Wrong images.* `LateImages` says of every image still on its way, in a task
  or in the main queue, that it is the cell's own or that the cell was recycled
  after it left; it is inductive where the property about the shown image is
  not.
* *Empty cells.* `EmptyCellHasReason` is inductive itself on top of `Typed`:
  each step that takes one of its reasons away leaves another, or the image.

### Feed

`PagedFeedProofs`, for any number of requests, any page size, any length of the
feed, and any prefetching distance up to a page (`FeedConstants`):

| Theorem | States |
|---|---|
| `FeedTypes` | `Spec => []TypeOK` |
| `FlagsAreRequests` | `Spec => []FlagIsARequest` |
| `RequestsBringTheirPage` | `Spec => []Results` |
| `EndsAreReal` | `Spec => []EndIsReal` |
| `SpinnersHaveReason` | `Spec => []SpinnerHasReason` |
| `PagesAreNotSkipped` | `Spec => []NoSkippedPage` |
| `FeedStaysInOrder` | `Spec => []FeedInOrder` |
| `InsertionsAreConsistent` | `Spec => []InsertIsConsistent` |

* *The flag.* `FlagIsARequest` needs that, unless a fetch has overtaken
  another, at most one request is between its creation and its delivery
  (`OneAtATime`): with two, the completion of one takes down the flag of the
  other. While one is on its way no reset has cancelled it and no other hangs.
* *The end.* `Results` says what a request has brought in each of its states;
  the empty result of one that was cancelled before it started is the only
  short page besides the server's last.
* *The spinner.* Not only a spinner that turns (`SpinnerIsFollowed`), but also
  every block that will start it (`SpinnersAreFollowed`) must be followed by a
  block that stops it, or by a request no reset has given up (`Awaited`). That
  such a request is on its way or hangs gives the property; that a cancelled one
  does not count makes it inductive, since a reset that gives up a hanging
  request creates another.
* *No page skipped.* `NoHoles`: all pages before the cursor, and before the page
  of any request that was ever created, have arrived. The cursor moves only to
  the page after one that has just arrived, whichever request brought it, and
  resets only move it back.
* *The order.* `PagesInOrder`: unless a fetch has overtaken another, the data
  source holds the first `n` pages, the cursor is at the next one (one further
  between its move and the storing of the items), and the request under way is
  for that page, or brings page `n` to the view and is all the view lacks. By
  `OneAtATime` only one request need be looked at. `AreFirstPages` says at
  which places each page stands, so that `NextOfPages` is arithmetic.
* *The insertions.* `UpdatesAgree` looks at the whole main queue: a block for
  new photos is the first update in it and the only one with photos, every
  request is delivered, and the view lacks just these photos. No fetch can
  start then: the photos are a full page, so that the prefetching cell is
  not displayed yet (`Prefetch <= PerPage`), or the feed has ended. A block for
  no photos is posted only after the end or in a feed without photos, for which
  `PagesInOrder` is needed (`ShortPages`).

### Waterfall layout

`WaterfallLayoutProofs`, for any widths, shapes of photos, insets and number of
items. `LayoutConstants` asks that widths, spacing and the minimum width of a
column be positive, that no photo have the width 0, and that a margin be at
most as wide as the narrowest column and its spacing (166 points in the code,
`WaterfallLayout.swift:199`; the margins are UIKit's, a few tens of points with
the safe area): otherwise the columns of a narrow frame would have a negative
width.

| Theorem | States |
|---|---|
| `PhotosAlwaysFit` | `Spec => []PhotosFit` |
| `PhotosInReadingOrder` | `Spec => []FramesInReadingOrder` |
| `Balanced` | `Spec => []ColumnsBalanced` |
| `AttributesForItems` | `Spec => []ItemsHaveAttributes` |
| `OnlyPhotosAboveAreExtra` | `Spec => []ExtraElementsLieAbove` |

The invariant is `Layout`. Its core, `Stacked`, is that of the loop in
`prepare`: each column is filled from the top without overlaps, and no column
ends above the top of an item that was placed. The next item goes to the lowest
column, at whose end it starts, so it starts below every item before it; that
gives the reading order, and that a column ends below the others by no more
than its last item. The horizontal part is arithmetic about a fraction: columns
of width `scaledWidth / columns` and their gaps stay within the frame
(`ColumnsFit`), and `floor` only makes photos narrower (`ItemFits`). The query
for a rect returns the range from the first to the last photo that meets it. By
the reading order a photo in between starts between the two, so above the lower
edge of the rect; if it does not meet the rect, it ends above its upper edge.
A first and a last photo are a least and a greatest element of a set of
naturals (`LeastAndGreatest`), and the order is that of a layout with columns,
which one with frames is (`NarrowIsEmpty`).

### Notifiers

`NotifiersProofs`, for any number of versions and of callbacks
(`NotifierConstants`):

| Theorem | States |
|---|---|
| `NotifierTypes` | `Spec => []TypeOK` |
| `CallbacksKnowTheirList` | `Spec => []KnowsTheListItSees` |
| `NothingLostOrRepeated` | `Spec => []NothingIsLostOrRepeated` |

`Sound` holds whatever happens: the types, what a waiting or writing Realm's
version is (`Waits`), and that a run moves the notifier forwards and stops at
the Realm's own write (`Runs`). `Guaranteed` is inductive only up to the first
of the situations for which the code gives no guarantee:

* `Calls`: during a delivery `index` and `count` divide the callbacks into
  those that have been called, those to be called and those that came later,
  which is what removals and additions from inside a callback must keep;
* `Informed`: for each callback there is a version up to which it has been told
  everything; what it is being told reaches from there to the version being
  delivered, and what it will be told from there to the notifier's version
  (`Told`, with `Between` for the changes between two versions);
* `Skips`: a write that is to be skipped is the very next version that the
  notifier comes to, and nothing is waiting to be told when the flag is used.

The two properties follow from `Informed`: the three spans lie end to end, so
that they are disjoint and leave nothing out.

Each inductive step is proved action by action of `Next`. The invariants were
first checked by TLC on the instances of section 3.

### Change sets

`CollectionChangeProofs` has no specification to be about: its theorems are
about the operators, for all finite sets and all sequences of moves.

| Theorem | States |
|---|---|
| `MergeRenumbers` | the merged index sets renumber as the two changes one after the other |
| `StaleMoveRenumbers` | a move whose counts agree can be dropped, and every other entry keeps its old index |
| `CleanUp` | `clean_up_stale_moves` drops only moves that the rest of the change set makes anyway |
| `Follow` | where the first loop of `merge` sends each old move, and which new moves and marks it leaves |

`OldIndex(D, I, n)` is the position that the entry now at `n` had before `D` was
deleted and `I` inserted: `n` is unshifted by `I` and shifted by `D`. It is an
increasing map of the positions that are not in `I` onto those that are not in
`D` (`OldIndexRenumbers`), and there is only one such map
(`OnlyRenumbering`). That replaces arithmetic on shifts: to know what the
sets of `insert`, `erase` or `merge` renumber to, it is enough to give some
increasing map between the right sets, and two of them in a row are one. The
two loops over moves are proved with what holds after any number of steps
(`Cleaned`, `Followed`); such an induction goes through a least counterexample,
as an induction rule cannot be applied.

### Transaction logs

`LogChangesProofs`, for any identities, any length of a list or a table, any
number of logs, instructions and observed lists (`CollectionsAssumption`: the
identities are distinct and suffice for the longest collection, the observed
rows are among them, and no collection is as long as `Unknown`):

| Theorem | States |
|---|---|
| `ChangesInvariant` | `Spec => []Inv` |
| `ChangesExplained` | `Spec => []ChangesExplain` |
| `EntriesTraced` | `Spec => []EntriesAreTraced` |
| `RowsFoundAgain` | `Spec => []RowsAreFound` |
| `ModificationsMarked` | `Spec => []ModificationsAreMarked` |
| `ListsTracked` | `Spec => []ListsAreTracked` |
| `MergeExplains` | `merge` composes change sets that explain two versions each |
| `MergeMarks` | and keeps the marks of both |

What the properties say is mostly about the merged changes. `Inv` says as much
of the log being read, in a form that every instruction keeps and `merge`
composes; TLC checked it on the instance of `log_changes` first:

* `Explains(c, old, new)`: `OldIndex` takes the entries of `new` that are not
  inserted to where they are in `old`, every entry of `old` that is not deleted
  is among them, and the moves are exactly those of the deleted entries that
  are still there. The last part says more than `MovesAreReal`: a deletion
  without a move means that the entry is gone.
* `TableExplains`: while the log of a table is read its moves are a mapping, and
  the sets are about places and not about order: a row that is not inserted is
  where it was, one whose place is gone or taken is deleted, and an inserted row
  that was there before is mapped to where it was. `parse_complete` turns this
  into `Explains` (`TableComplete`): as many rows are deleted as inserted before
  a row that stays, so it is renumbered to itself.
* `Plain`: of a table whose moves are not tracked only marks are recorded.
* `Marked`: the marks of the log being read are exactly the entries set that
  are still there; those of the merged changes are so for the old entries.
* `Tracked`: each observed list is at its row, or has been overlooked.

Beside these the invariant needs that entries are distinct and that none comes
back that was gone (`Collections`), for otherwise `merge` could not know an
entry deleted by one log and inserted by the next. Each of the 13 actions has a
lemma `Step...`. `ChangesExplained`, in particular its order, then follows from
`OldIndex` being increasing (`ExplainsRest`), `EntriesTraced` from the inverse
of `OldIndex` being what the shifts of the two sets compute (`ExplainsTraces`).
`RowsFoundAgain` needs two more facts: `parse_complete` sorts the moves
(`MovesByOldRow`, `TableComplete`), and in sorted moves a binary search ends at
the move that starts at the row it is asked for (`LowerBound`).

### What is only model-checked

All liveness properties (`CompletedTransferIsRecorded`, `FetchEnds`,
`SpinnerStops`, `ImageArrives`, `ChangesArrive`): fairness and `ENABLED` are out
of the prover's reach. And two parts of the object store: `IndexSet`
(`HoldsItsIndices`, `LookupsAreRight`) and `QueryResults`
(`ReportProducesNewResults`, `ReportedModificationsAreRight`,
`LongestBlockStays`) are built from recursive operators over chunks, ranges and
blocks, with which the provers cannot work. The theorems about change sets take
an index set to be a plain set; that the chunked one is that set is what the run
`index_set` checks. Every safety property of the other modules' passing runs is
a theorem; `ColumnsBalanced`, a second consequence of taking the lowest column,
is proved only.

## 5. What is not modelled

Presentation, conversions and object construction (see the inventory); HTTP
codes beyond success and failure; the contents of a transferred file, so that
an HTTP error page saved as a photo is not told apart; an update of the
application, which moves the container the recorded absolute paths point to;
the collection view's own deferred layout, beyond the item count it believes;
the cell indices the Collection screen holds while a reload is pending
(`ListViewController+CollectionView.swift:83`).

Of Realm: the storage engine, of which the repository has only the headers
(`include/core`) and whose library is a binary; the synchronization client and
its session states, which the application does not use; schemas, migrations and
key paths; the bindings; asynchronous errors; and the `before` callbacks, which
the Swift binding leaves empty. `DataManager` takes a write transaction as one
durable step: one Realm on one thread sees its own writes in order.

The map covers most of the application's classes that keep state, and a small
part of the C++ in the repository: most of that is headers of vendored
libraries, among them the storage engine, which declare types and storage
layouts and have no behaviour the application depends on in itself.

## 6. What could come next

In the order of their worth:

1. The index set in chunks written without recursive operators, and a proof that
   each operation keeps `HoldsItsIndices`; the same for the blocks of a sorted
   result, whose change set would then have to be shown to satisfy `Explains`.
2. Navigation and the collection view of the Collection screen.
3. Several lists observed through one Realm, and several Realms of one file.
