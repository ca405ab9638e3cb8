----------------------------- MODULE PagedFeed -----------------------------
(***************************************************************************)
(* The Home feed: PagedDataSource, the life of the page request it gives   *)
(* to its OperationQueue (ConcurrentOperation, NetworkRequest,             *)
(* UnsplashPagedRequest, GetCollectionPhotosRequest), HomeInteractor,      *)
(* HomePresenter and HomeViewController.                                   *)
(*                                                                         *)
(* The main thread calls fetchNextPage and reset and runs the blocks given *)
(* to DispatchQueue.main.async.  A request is started by the operation     *)
(* queue, answered on the URL session's queue, and its completionBlock     *)
(* runs on yet another thread, where it writes the data source's state and *)
(* then the view controller's photos, all without a lock.                  *)
(***************************************************************************)
EXTENDS Naturals, Sequences, SequencesExt

CONSTANTS
    Ops,         \* request objects: how many may be created
    PerPage,     \* cursor.perPage
    FullPages,   \* pages the server can fill
    Remainder,   \* photos on the page after them
    Prefetch,    \* prefetchCount of willDisplay
    MaxAppears,  \* how often the screen appears with no photo to show
    MaxBlocks    \* blocks waiting on the main queue when a cell is displayed

ASSUME FeedConstants ==
    /\ PerPage \in Nat /\ Remainder \in 0 .. PerPage - 1
    /\ FullPages \in Nat /\ MaxAppears \in Nat /\ MaxBlocks \in Nat
    /\ Prefetch \in 1 .. PerPage

VARIABLES
    items, cursor, isFetching, canFetchMore,  \* PagedDataSource; cursor is its page
    ops,          \* the requests
    photos,       \* HomeViewController.photos
    shown,        \* how many items the collection view has been told of
    spinner,      \* the spinner is animating
    emptyView,    \* the state of the EmptyView covering the screen, or "hidden"
    mainQueue,    \* blocks given to DispatchQueue.main.async
    visible,      \* Home is the screen in front
    appears,      \* bound: times refresh() went through
    overtaken     \* history: a page was asked for before an earlier one was delivered

source == <<items, cursor, isFetching, canFetchMore>>
view == <<photos, shown, spinner, emptyView, mainQueue>>
vars == <<source, ops, view, visible, appears, overtaken>>

----------------------------------------------------------------------------
\* A photo of the feed is told apart only by the page it came on.
PageSize(page) == IF page <= FullPages THEN PerPage ELSE IF page = FullPages + 1 THEN Remainder ELSE 0
Page(page) == [i \in 1 .. PageSize(page) |-> page]

\* ready: in the queue; executing: start() found it not cancelled; sent: its
\* data task is resumed; unanswered: a response without data was dropped, and
\* the request never completes; finished: its completionBlock is to run; advanced:
\* the block has moved the cursor; stored: it has stored the items and is
\* about to call the delegate; appended: the view has the photos, but its
\* update is not on the main queue yet.
OpState == {"unused", "ready", "executing", "sent", "unanswered", "finished", "advanced",
            "stored", "appended", "done"}

\* "failed" is every error that is not a lost connection, cancellation included.
OpError == {"none", "offline", "failed"}

Op == [state: OpState, page: Nat, items: Seq(Nat), error: OpError, needInsert: BOOLEAN,
       cancelled: BOOLEAN, taskCancelled: BOOLEAN]

Unused == [state |-> "unused", page |-> 0, items |-> <<>>, error |-> "none",
           needInsert |-> FALSE, cancelled |-> FALSE, taskCancelled |-> FALSE]

Request(page) == [Unused EXCEPT !.state = "ready", !.page = page]

\* Operation.cancel: it stops the data task only if there already is one.
Cancelled(op) ==
    IF op.state \notin {"ready", "executing", "sent", "unanswered"} THEN op
    ELSE [op EXCEPT !.cancelled = TRUE, !.taskCancelled = (op.state = "sent")]

\* A request nobody will hear of again, until a reset gives it up.
Hangs(o) == ops[o].state = "unanswered" /\ ~ops[o].cancelled

Unfinished(o) == ops[o].state \in {"ready", "executing", "sent", "finished", "advanced"}
Undelivered(o) == ops[o].state \notin {"unused", "unanswered", "done"}

Block == [kind: {"spin", "stop", "insert", "reload"}, count: Nat]
SpinBlock == [kind |-> "spin", count |-> 0]
StopBlock == [kind |-> "stop", count |-> 0]

\* Mutant: one index path too many.
UpdateBlock_closedRange(new, needInsert) ==
    [kind |-> IF needInsert THEN "insert" ELSE "reload", count |-> Len(new) + 1]

\* The block of updateWithResult.  hideSpinner's block, posted just before
\* it, does no more than its first statement.
UpdateBlock(new, needInsert) ==
    [kind |-> IF needInsert THEN "insert" ELSE "reload", count |-> Len(new)]

Init ==
    /\ items = <<>> /\ cursor = 1 /\ isFetching = FALSE /\ canFetchMore = TRUE
    /\ ops = [o \in Ops |-> Unused]
    /\ photos = <<>> /\ shown = 0 /\ spinner = FALSE /\ emptyView = "hidden"
    /\ mainQueue = <<>> /\ visible = FALSE /\ appears = 0 /\ overtaken = FALSE

----------------------------------------------------------------------------
\* showEmptyView touches the view at once, on whatever thread this is, and
\* stops the spinner unless the EmptyView is there already.
showEmptyView(state) ==
    /\ emptyView' = state
    /\ spinner' = IF emptyView = "hidden" THEN FALSE ELSE spinner

\* Mutant: the spinner is left to updateWithResult.
errorWhileFetching_spinning(state) ==
    /\ emptyView' = state
    /\ UNCHANGED <<photos, shown, spinner, mainQueue>>

\* hideSpinner, which posts a block, and showErrorState
errorWhileFetching(state) ==
    /\ mainQueue' = Append(mainQueue, StopBlock)
    /\ showEmptyView(state)
    /\ UNCHANGED <<photos, shown>>

ErrorState(error) == IF error = "offline" THEN "noInternetConnection" ELSE "serverError"

Overtakes == overtaken \/ \E k \in Ops : Undelivered(k)

\* The delegate shows the spinner for the first page.
willStartFetching(current) ==
    mainQueue' = IF current = <<>> THEN Append(mainQueue, SpinBlock) ELSE mainQueue

\* The part of fetchNextPage that creates and enqueues a request, with the
\* data source's state as the caller left it.
beginFetch(requests, current, page) ==
    \E o \in Ops :
        /\ requests[o] = Unused
        /\ ops' = [requests EXCEPT ![o] = Request(page)]
        /\ willStartFetching(current)
        /\ isFetching' = TRUE
        /\ overtaken' = Overtakes

\* collectionView(willDisplay:) of the cell Prefetch items before the end.
\* The cell may be displayed again while its fetch is under way: then the
\* "error" dataSourceIsFetching takes the way of a failed request.
willDisplay ==
    /\ visible
    /\ Len(mainQueue) < MaxBlocks
    /\ Len(photos) >= Prefetch
    /\ Len(photos) - Prefetch < shown
    /\ \/ /\ isFetching
          /\ errorWhileFetching("serverError")
          /\ UNCHANGED <<source, ops, overtaken>>
       \/ /\ ~isFetching /\ ~canFetchMore
          /\ mainQueue' = Append(mainQueue, UpdateBlock(<<>>, photos # <<>>))
          /\ overtaken' = Overtakes
          /\ UNCHANGED <<source, ops, photos, shown, spinner, emptyView>>
       \/ /\ ~isFetching /\ canFetchMore
          /\ beginFetch(ops, items, cursor)
          /\ UNCHANGED <<items, cursor, canFetchMore, photos, shown, spinner, emptyView>>
    /\ UNCHANGED <<visible, appears>>

\* The Collection button (or a photo): the EmptyView covers it.
leave ==
    /\ visible /\ emptyView = "hidden"
    /\ visible' = FALSE
    /\ UNCHANGED <<source, ops, view, appears, overtaken>>

\* PagedDataSource.reset, but for the requests it cancels and the flag it
\* takes down, which fetchNextPage puts up again.
reset == items' = <<>> /\ cursor' = 1 /\ canFetchMore' = TRUE

\* The data source is reset, which cancels the requests still in the queue,
\* the collection view reloaded and the first page fetched.
refresh ==
    /\ photos = <<>>
    /\ appears < MaxAppears
    /\ appears' = appears + 1
    /\ reset
    /\ beginFetch([o \in Ops |-> Cancelled(ops[o])], <<>>, 1)
    /\ shown' = 0
    /\ UNCHANGED <<photos, spinner, emptyView>>

\* Home appears, for the first time or again: it refreshes what is empty.
viewWillAppear ==
    /\ ~visible
    /\ visible' = TRUE
    /\ \/ refresh
       \/ photos # <<>> /\ UNCHANGED <<source, ops, view, appears, overtaken>>

\* The main queue's next block.
runBlock ==
    /\ mainQueue # <<>>
    /\ mainQueue' = Tail(mainQueue)
    /\ LET kind == Head(mainQueue).kind
       IN  /\ spinner' = (kind = "spin")
           /\ emptyView' = IF kind \in {"insert", "reload"} THEN "hidden" ELSE emptyView
           /\ shown' = IF kind \in {"insert", "reload"} THEN Len(photos) ELSE shown
    /\ UNCHANGED <<source, ops, photos, visible, appears, overtaken>>

----------------------------------------------------------------------------
completeOperation(o) == [ops[o] EXCEPT !.state = "finished"]

completeWithError(o, e) == [completeOperation(o) EXCEPT !.error = e]

\* ConcurrentOperation.start: a request cancelled before it started finishes
\* with no error and no items.
start(o) ==
    /\ ops[o].state = "ready"
    /\ ops' = [ops EXCEPT ![o] = IF ops[o].cancelled THEN completeOperation(o)
                                 ELSE [ops[o] EXCEPT !.state = "executing"]]
    /\ UNCHANGED <<source, view, visible, appears, overtaken>>

\* NetworkRequest.main, once the data task is assigned and resumed
main(o) ==
    /\ ops[o].state = "executing"
    /\ ops' = [ops EXCEPT ![o].state = "sent"]
    /\ UNCHANGED <<source, view, visible, appears, overtaken>>

\* A successful response: the photos of the page, or what the decoder throws.
\* Without data (guard let data = data else { return }) nothing is completed.
processResponseData(o) ==
    {[completeOperation(o) EXCEPT !.items = Page(ops[o].page)], completeWithError(o, "failed"),
     [ops[o] EXCEPT !.state = "unanswered"]}

\* NetworkRequest.processResponse and processHTTPResponse: a lost connection
\* or another error, a status that is not a success, or data.  A cancelled
\* task may have been answered already.
processResponse(o) ==
    /\ ops[o].state = "sent"
    /\ \E op \in processResponseData(o) \cup {completeWithError(o, e) : e \in {"offline", "failed"}} :
        /\ ops[o].taskCancelled => op.error # "offline"
        /\ ops' = [ops EXCEPT ![o] = op]
    /\ UNCHANGED <<source, view, visible, appears, overtaken>>

\* Mutants: the request's own page again; a page too far.
NextPage_same(o) == ops[o].page
NextPage_skips(o) == ops[o].page + 2

\* nextCursor
NextPage(o) == ops[o].page + 1

\* Mutant: a full page is taken for the last.
IsLastPage_full(o) == Len(ops[o].items) <= PerPage

IsLastPage(o) == Len(ops[o].items) < PerPage

\* Mutant: a failure leaves the flag up.
advance_flagUp(o) ==
    /\ ops[o].state = "finished"
    /\ \/ /\ ops[o].error # "none"
          /\ ops' = [ops EXCEPT ![o].state = "stored"]
          /\ UNCHANGED <<cursor, canFetchMore>>
       \/ /\ ops[o].error = "none"
          /\ ops' = [ops EXCEPT ![o].state = "advanced"]
          /\ IF IsLastPage(o) THEN canFetchMore' = FALSE /\ UNCHANGED cursor
             ELSE cursor' = NextPage(o) /\ UNCHANGED canFetchMore
    /\ UNCHANGED <<items, isFetching, view, visible, appears, overtaken>>

\* The completionBlock of fetchNextPage: a failure only takes the flag down,
\* a page moves the cursor or ends the feed.
advance(o) ==
    /\ ops[o].state = "finished"
    /\ \/ /\ ops[o].error # "none"
          /\ ops' = [ops EXCEPT ![o].state = "stored"]
          /\ isFetching' = FALSE
          /\ UNCHANGED <<cursor, canFetchMore>>
       \/ /\ ops[o].error = "none"
          /\ ops' = [ops EXCEPT ![o].state = "advanced"]
          /\ IF IsLastPage(o) THEN canFetchMore' = FALSE /\ UNCHANGED cursor
             ELSE cursor' = NextPage(o) /\ UNCHANGED canFetchMore
          /\ UNCHANGED isFetching
    /\ UNCHANGED <<items, view, visible, appears, overtaken>>

\* Then the items, and the flag.
store(o) ==
    /\ ops[o].state = "advanced"
    /\ ops' = [ops EXCEPT ![o].state = "stored"]
    /\ items' = items \o ops[o].items
    /\ isFetching' = FALSE
    /\ UNCHANGED <<cursor, canFetchMore, view, visible, appears, overtaken>>

\* fetchDidComplete and what the delegate does: an error is shown, a page is
\* appended to the photos.
deliver(o) ==
    /\ ops[o].state = "stored"
    /\ \/ /\ ops[o].error # "none"
          /\ ops' = [ops EXCEPT ![o].state = "done"]
          /\ errorWhileFetching(ErrorState(ops[o].error))
       \/ /\ ops[o].error = "none"
          /\ ops' = [ops EXCEPT ![o].state = "appended",
                               ![o].needInsert = Len(ops[o].items) < Len(photos)]
          /\ photos' = photos \o ops[o].items
          /\ UNCHANGED <<shown, spinner, emptyView, mainQueue>>
    /\ UNCHANGED <<source, visible, appears, overtaken>>

\* The end of updateWithResult
updateWithResult(o) ==
    /\ ops[o].state = "appended"
    /\ ops' = [ops EXCEPT ![o].state = "done"]
    /\ mainQueue' = Append(mainQueue, UpdateBlock(ops[o].items, ops[o].needInsert))
    /\ UNCHANGED <<source, photos, shown, spinner, emptyView, visible, appears, overtaken>>

----------------------------------------------------------------------------
Work(o) == \/ start(o) \/ main(o) \/ processResponse(o)
           \/ advance(o) \/ store(o) \/ deliver(o) \/ updateWithResult(o)

Next == viewWillAppear \/ leave \/ willDisplay \/ runBlock \/ \E o \in Ops : Work(o)

Spec == Init /\ [][Next]_vars

\* The queues run what they are given, and a data task is answered, by its
\* time-out at the latest: what processResponse does with the answer is up to
\* it.  The user need not do anything.
FairSpec == Spec /\ WF_vars(runBlock) /\ \A o \in Ops : WF_vars(Work(o))

----------------------------------------------------------------------------
\* The type invariant of the feed's state.
TypeOK ==
    /\ items \in Seq(Nat) /\ cursor \in Nat /\ isFetching \in BOOLEAN /\ canFetchMore \in BOOLEAN
    /\ ops \in [Ops -> Op]
    /\ photos \in Seq(Nat) /\ shown \in Nat /\ spinner \in BOOLEAN
    /\ emptyView \in {"hidden", "noInternetConnection", "serverError"}
    /\ mainQueue \in Seq(Block)
    /\ visible \in BOOLEAN /\ appears \in 0 .. MaxAppears /\ overtaken \in BOOLEAN

Stored == {o \in Ops : ops[o].state = "stored"}
Accepted == {o \in Ops : ops[o].state \in {"advanced", "stored"}}

\* Failed, cancelled, repeated and overtaking requests may repeat pages or
\* shuffle them, but never leave one out: the cursor moves only with a page
\* that arrived, to the page after it.  A page counts from that moment on,
\* as a later one may reach the view before it.
NoSkippedPage ==
    LET got == {photos[i] : i \in DOMAIN photos}
               \cup {k \in 1 .. FullPages + 1 : \E o \in Accepted : Contains(ops[o].items, k)}
    IN  \A k \in got : 1 .. k \subseteq got

\* The first n pages of the feed, in order: the places of page k are those from
\* the (k - 1) * PerPage-th on up to the k * PerPage-th.
AreFirstPages(n, s) ==
    /\ Len(s) = IF n <= FullPages THEN n * PerPage ELSE FullPages * PerPage + Remainder
    /\ \A i \in DOMAIN s : (s[i] - 1) * PerPage < i /\ i <= s[i] * PerPage

\* As long as no fetch overtakes another, the data source holds the server's
\* pages in order, each once, and the view the same photos but for the page
\* being delivered.
FeedInOrder ==
    ~overtaken =>
        /\ \E n \in 0 .. FullPages + 1 : AreFirstPages(n, items)
        /\ \/ photos = items
           \/ \E o \in Stored : photos \o ops[o].items = items

\* The flag that keeps two fetches apart says what it should: it is up
\* exactly while a request has not run its completion, or hangs because its
\* response was dropped and no reset has given it up.
FlagIsARequest ==
    ~overtaken => (isFetching <=> \E o \in Ops : Unfinished(o) \/ Hangs(o))

\* A request that ended the feed, and had reason to.
Ends(o) ==
    /\ ops[o].state \in {"advanced", "stored", "appended", "done"}
    /\ ops[o].error = "none"
    /\ ops[o].page > FullPages \/ (ops[o].cancelled /\ ops[o].items = <<>>)

\* The feed ends only because the server's photos do, or because a request
\* was cancelled before it started: its empty result looks like a last page,
\* and stops a feed that was reset in between.
EndIsReal == ~canFetchMore => \E o \in Ops : Ends(o)

\* insertItems(at:) raises an exception unless the items the collection view
\* knows and the inserted ones add up to the data source's count.
InsertIsConsistent ==
    ~overtaken /\ mainQueue # <<>> /\ Head(mainQueue).kind = "insert" =>
        shown + Head(mainQueue).count = Len(photos)

\* A turning spinner will be stopped: a request is on its way, or a block
\* that stops it is in the queue.  Only a request that hangs keeps it.
SpinnerHasReason ==
    spinner => \/ \E o \in Ops : Undelivered(o) \/ Hangs(o)
               \/ \E i \in DOMAIN mainQueue : mainQueue[i].kind # "spin"

\* Every fetch ends, whatever is cancelled, fails or overtakes it, unless a
\* request hangs: a response without data is the one way to leave isFetching
\* up, and every later fetch refused.
FetchEnds == isFetching ~> ~isFetching \/ \E o \in Ops : Hangs(o)

\* The Home screen keeps its spinner for ever only for such a request.
SpinnerStops == spinner ~> ~spinner \/ \E o \in Ops : Hangs(o)

\* "Server error" is shown for a request that failed, as its name and that of
\* the error behind it ("The data source is already fetching.") say.
ServerErrorMeansAFailedRequest ==
    emptyView = "serverError" => \E o \in Ops : ops[o].error = "failed"
============================================================================
