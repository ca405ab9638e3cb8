-------------------------- MODULE PagedFeedProofs --------------------------
(***************************************************************************)
(* Proofs, for any number of requests, any page size and any length of the *)
(* feed, of invariants that PagedFeed.cfg model-checks.                    *)
(***************************************************************************)
EXTENDS PagedFeed, TLAPS

\* What the server answers.
LEMMA PageSeq ==
    ASSUME NEW p \in Nat
    PROVE  /\ Page(p) \in Seq(Nat) /\ Len(Page(p)) = PageSize(p) /\ PageSize(p) \in Nat
           /\ DOMAIN Page(p) = 1 .. PageSize(p)
           /\ \A i \in 1 .. PageSize(p) : Page(p)[i] = p
<1>1. PageSize(p) \in Nat
  BY FeedConstants DEF PageSize
<1>. QED
  BY <1>1 DEF Page

\* A request has every type a request has after any of its fields changed.
LEMMA OpFields ==
    ASSUME NEW op \in Op
    PROVE  /\ \A s \in OpState : [op EXCEPT !.state = s] \in Op
           /\ \A s \in OpState, e \in OpError : [op EXCEPT !.state = s, !.error = e] \in Op
           /\ \A s \in OpState, q \in Seq(Nat) : [op EXCEPT !.state = s, !.items = q] \in Op
           /\ \A s \in OpState, b \in BOOLEAN : [op EXCEPT !.state = s, !.needInsert = b] \in Op
           /\ Cancelled(op) \in Op
           /\ Cancelled(op).state = op.state /\ Cancelled(op).page = op.page
           /\ Cancelled(op).items = op.items /\ Cancelled(op).error = op.error
           /\ op.cancelled \/ op.state = "unanswered" => Cancelled(op).cancelled
  BY DEF Op, Cancelled

LEMMA NewRequest ==
    ASSUME NEW p \in Nat
    PROVE  /\ Request(p) \in Op /\ Request(p).state = "ready" /\ Request(p).page = p
           /\ Request(p).items = <<>> /\ Request(p).error = "none" /\ ~Request(p).cancelled
<1>1. Unused \in Op
  <2>1. <<>> \in Seq(Nat)
    OBVIOUS
  <2>. QED
    BY <2>1 DEF Unused, Op, OpState, OpError
<1>2. Unused.items = <<>> /\ Unused.error = "none" /\ ~Unused.cancelled
  BY DEF Unused
<1>3. "ready" \in OpState
  BY DEF OpState
<1>. QED
  BY <1>1, <1>2, <1>3 DEF Request, Op

LEMMA AppendBlock ==
    ASSUME mainQueue \in Seq(Block), NEW b \in Block
    PROVE  Append(mainQueue, b) \in Seq(Block)
  OBVIOUS

LEMMA Blocks ==
    /\ SpinBlock \in Block /\ StopBlock \in Block
    /\ SpinBlock.kind = "spin" /\ StopBlock.kind = "stop"
    /\ \A q \in Seq(Nat), b \in BOOLEAN :
          UpdateBlock(q, b) \in Block /\ UpdateBlock(q, b).kind \in {"insert", "reload"}
  BY DEF SpinBlock, StopBlock, UpdateBlock, Block

----------------------------------------------------------------------------
LEMMA TypedInit == Init => TypeOK
<1>1. <<>> \in Seq(Nat) /\ <<>> \in Seq(Block)
  OBVIOUS
<1>2. Unused \in Op
  BY <1>1 DEF Unused, Op, OpState, OpError
<1>3. [o \in Ops |-> Unused] \in [Ops -> Op]
  BY <1>2
<1>4. Init => /\ items \in Seq(Nat) /\ cursor \in Nat /\ photos \in Seq(Nat) /\ shown \in Nat
              /\ mainQueue \in Seq(Block) /\ ops \in [Ops -> Op]
  BY <1>1, <1>3 DEF Init
<1>5. Init => /\ isFetching \in BOOLEAN /\ canFetchMore \in BOOLEAN /\ spinner \in BOOLEAN
              /\ emptyView = "hidden" /\ visible \in BOOLEAN /\ overtaken \in BOOLEAN
  BY Zenon DEF Init
<1>6. Init => appears \in 0 .. MaxAppears
  BY FeedConstants DEF Init
<1>. QED
  BY <1>4, <1>5, <1>6 DEF TypeOK

\* A fetch makes a request of one that was not used.
LEMMA FetchTyped ==
    ASSUME TypeOK, NEW requests \in [Ops -> Op], NEW current, NEW page \in Nat,
           beginFetch(requests, current, page)
    PROVE  /\ ops' \in [Ops -> Op] /\ mainQueue' \in Seq(Block)
           /\ isFetching' \in BOOLEAN /\ overtaken' \in BOOLEAN
<1>1. ops' \in [Ops -> Op] /\ isFetching' \in BOOLEAN
  BY NewRequest DEF beginFetch
<1>2. mainQueue' \in Seq(Block)
  BY AppendBlock, Blocks DEF beginFetch, willStartFetching, TypeOK
<1>3. overtaken' \in BOOLEAN
  BY DEF beginFetch, Overtakes, TypeOK
<1>. QED
  BY <1>1, <1>2, <1>3

\* What is shown is a number of photos the view has.
LEMMA TypedNext == TypeOK /\ [Next]_vars => TypeOK'
<1>. SUFFICES ASSUME TypeOK, [Next]_vars
              PROVE  TypeOK'
  OBVIOUS
<1>. USE DEF vars, source, view
<1>1. CASE UNCHANGED vars
  BY <1>1 DEF TypeOK
<1>2. CASE refresh /\ visible' = TRUE
  <2>1. [o \in Ops |-> Cancelled(ops[o])] \in [Ops -> Op]
    BY OpFields DEF TypeOK
  <2>2. /\ ops' \in [Ops -> Op] /\ mainQueue' \in Seq(Block)
        /\ isFetching' \in BOOLEAN /\ overtaken' \in BOOLEAN
    BY <1>2, <2>1, FetchTyped DEF refresh
  <2>3. appears' \in 0 .. MaxAppears
    BY <1>2, FeedConstants DEF refresh, TypeOK
  <2>. QED
    BY <1>2, <2>2, <2>3 DEF refresh, reset, TypeOK
<1>3. CASE viewWillAppear /\ ~refresh
  BY <1>3 DEF viewWillAppear, TypeOK
<1>4. CASE leave
  BY <1>4 DEF leave, TypeOK
<1>5. CASE willDisplay
  <2>1. CASE isFetching /\ errorWhileFetching("serverError") /\ UNCHANGED <<source, ops, overtaken>>
    BY <1>5, <2>1, AppendBlock, Blocks
       DEF willDisplay, errorWhileFetching, showEmptyView, TypeOK
  <2>2. CASE /\ mainQueue' = Append(mainQueue, UpdateBlock(<<>>, photos # <<>>))
             /\ overtaken' = Overtakes
             /\ UNCHANGED <<source, ops, photos, shown, spinner, emptyView>>
    <3>1. mainQueue' \in Seq(Block)
      <4>1. UpdateBlock(<<>>, photos # <<>>) \in Block
        <5>1. <<>> \in Seq(Nat) /\ (photos # <<>>) \in BOOLEAN
          OBVIOUS
        <5>. QED
          BY <5>1, Blocks
      <4>. QED
        BY <2>2, <4>1, AppendBlock DEF TypeOK
    <3>. QED
      BY <1>5, <2>2, <3>1 DEF willDisplay, Overtakes, TypeOK
  <2>3. CASE /\ beginFetch(ops, items, cursor)
             /\ UNCHANGED <<items, cursor, canFetchMore, photos, shown, spinner, emptyView>>
    <3>1. /\ ops' \in [Ops -> Op] /\ mainQueue' \in Seq(Block)
          /\ isFetching' \in BOOLEAN /\ overtaken' \in BOOLEAN
      BY <2>3, FetchTyped DEF TypeOK
    <3>. QED
      BY <1>5, <2>3, <3>1 DEF willDisplay, TypeOK
  <2>. QED
    BY <1>5, <2>1, <2>2, <2>3 DEF willDisplay
<1>6. CASE runBlock
  <2>1. Tail(mainQueue) \in Seq(Block)
    BY <1>6 DEF runBlock, TypeOK
  <2>. QED
    BY <1>6, <2>1 DEF runBlock, TypeOK
<1>7. ASSUME NEW o \in Ops, Work(o)
      PROVE  TypeOK'
  <2>1. ops[o] \in Op /\ ops[o].items \in Seq(Nat) /\ ops[o].page \in Nat
    BY DEF TypeOK, Op
  <2>9. \A s \in OpState : [ops EXCEPT ![o].state = s] \in [Ops -> Op]
    BY <2>1, OpFields DEF TypeOK
  <2>10. OpState = {"unused", "ready", "executing", "sent", "unanswered", "finished", "advanced",
                    "stored", "appended", "done"}
    BY DEF OpState
  <2>2. CASE start(o)
    BY <2>1, <2>2, OpFields DEF start, completeOperation, TypeOK, OpState
  <2>3. CASE main(o)
    BY <2>1, <2>3, OpFields DEF main, TypeOK, OpState
  <2>4. CASE processResponse(o)
    <3>1. "finished" \in OpState /\ {"offline", "failed"} \subseteq OpError
      BY DEF OpState, OpError
    <3>2. \A e \in OpError : completeWithError(o, e) \in Op
      BY <2>1 DEF completeWithError, completeOperation, Op, OpState
    <3>3. [completeOperation(o) EXCEPT !.items = Page(ops[o].page)] \in Op
      BY <2>1, PageSeq DEF completeOperation, Op, OpState
    <3>5. [ops[o] EXCEPT !.state = "unanswered"] \in Op
      BY <2>1, OpFields DEF OpState
    <3>4. \A op \in processResponseData(o) \cup {completeWithError(o, e) : e \in {"offline", "failed"}} :
             op \in Op
      BY <2>9, <2>10, <3>1, <3>2, <3>3, <3>5 DEF processResponseData
    <3>. QED
      BY <2>1, <2>4, <3>4 DEF processResponse, TypeOK
  <2>5. CASE advance(o)
    <3>1. cursor' \in Nat
      BY <2>1, <2>5 DEF advance, NextPage, TypeOK
    <3>. QED
      BY <2>1, <2>5, <3>1, <2>9, <2>10 DEF advance, TypeOK
  <2>6. CASE store(o)
    <3>1. items' \in Seq(Nat)
      BY <2>1, <2>6 DEF store, TypeOK
    <3>. QED
      BY <2>1, <2>6, <3>1, <2>9, <2>10 DEF store, TypeOK
  <2>7. CASE deliver(o)
    <3>1. CASE ops[o].error # "none"
      <4>1. mainQueue' \in Seq(Block)
        BY <2>7, <3>1, AppendBlock, Blocks DEF deliver, errorWhileFetching, TypeOK
      <4>. QED
        BY <2>1, <2>7, <2>9, <2>10, <3>1, <4>1
           DEF deliver, errorWhileFetching, showEmptyView, ErrorState, TypeOK
    <3>2. CASE ops[o].error = "none"
      <4>0. /\ ops' = [ops EXCEPT ![o] = [ops[o] EXCEPT !.state = "appended",
                                            !.needInsert = Len(ops[o].items) < Len(photos)]]
            /\ photos' = photos \o ops[o].items
        BY <2>7, <3>2, Zenon DEF deliver
      <4>1. photos' \in Seq(Nat)
        BY <2>1, <4>0 DEF TypeOK
      <4>2. \A b \in BOOLEAN : [ops[o] EXCEPT !.state = "appended", !.needInsert = b] \in Op
        BY <2>1 DEF Op, OpState
      <4>3. ops' \in [Ops -> Op]
        <5>1. (Len(ops[o].items) < Len(photos)) \in BOOLEAN
          OBVIOUS
        <5>2. [ops[o] EXCEPT !.state = "appended",
                             !.needInsert = Len(ops[o].items) < Len(photos)] \in Op
          BY <4>2, <5>1, Zenon
        <5>. QED
          BY <4>0, <5>2 DEF TypeOK
      <4>. QED
        BY <2>7, <3>2, <4>1, <4>3 DEF deliver, TypeOK
    <3>. QED
      BY <3>1, <3>2
  <2>8. CASE updateWithResult(o)
    <3>1. mainQueue' \in Seq(Block)
      BY <2>1, <2>8, AppendBlock, Blocks DEF updateWithResult, TypeOK, Op
    <3>. QED
      BY <2>1, <2>8, <3>1, OpFields DEF updateWithResult, TypeOK, OpState
  <2>. QED
    BY <1>7, <2>2, <2>3, <2>4, <2>5, <2>6, <2>7, <2>8 DEF Work
<1>. QED
  BY <1>1, <1>2, <1>3, <1>4, <1>5, <1>6, <1>7 DEF Next, viewWillAppear

\* TypeOK: the types of the feed's state.
THEOREM FeedTypes == Spec => []TypeOK
  BY TypedInit, TypedNext, PTL DEF Spec
----------------------------------------------------------------------------
\* Everything of a request that cancelling it leaves alone is as it was.
Kept(k) ==
    /\ ops'[k].state = ops[k].state /\ ops'[k].page = ops[k].page
    /\ ops'[k].items = ops[k].items /\ ops'[k].error = ops[k].error
    /\ ops[k].cancelled => ops'[k].cancelled

\* A fetch starts one request that was not used, whatever it cancels.
LEMMA FetchStarts ==
    ASSUME TypeOK, NEW requests, NEW current, NEW page \in Nat, beginFetch(requests, current, page),
           requests = ops \/ requests = [o \in Ops |-> Cancelled(ops[o])]
    PROVE  \E o \in Ops : /\ ops[o].state = "unused"
                          /\ ops'[o] = Request(page)
                          /\ \A k \in Ops \ {o} : Kept(k)
                          /\ requests = [k \in Ops |-> Cancelled(ops[k])] =>
                                \A k \in Ops : ~Hangs(k)'
<1>1. PICK o \in Ops : requests[o] = Unused /\ ops' = [requests EXCEPT ![o] = Request(page)]
  BY DEF beginFetch
<1>2. \A k \in Ops : /\ requests[k].state = ops[k].state /\ requests[k].page = ops[k].page
                     /\ requests[k].items = ops[k].items /\ requests[k].error = ops[k].error
                     /\ ops[k].cancelled => requests[k].cancelled
  BY OpFields DEF TypeOK
<1>4. ASSUME requests = [k \in Ops |-> Cancelled(ops[k])], NEW k \in Ops
      PROVE  requests[k].state = "unanswered" => requests[k].cancelled
  BY <1>4, OpFields DEF TypeOK
<1>3. DOMAIN requests = Ops
  BY DEF TypeOK
<1>. QED
  BY <1>1, <1>2, <1>3, <1>4, NewRequest DEF Kept, Hangs, Unused

\* A request ends with its page, with an error and no photo, or never.
LEMMA Responses ==
    ASSUME TypeOK, NEW o \in Ops, processResponse(o)
    PROVE  /\ ops[o].state = "sent" /\ ops'[o].state \in {"finished", "unanswered"}
           /\ ops'[o].page = ops[o].page /\ ops'[o].cancelled = ops[o].cancelled
           /\ \A k \in Ops \ {o} : ops'[k] = ops[k]
           /\ IF ops'[o].state = "unanswered"
              THEN ops'[o].error = ops[o].error /\ ops'[o].items = ops[o].items
              ELSE \/ ops'[o].error = ops[o].error /\ ops'[o].items = Page(ops[o].page)
                   \/ ops'[o].error # "none" /\ ops'[o].items = ops[o].items
<1>1. ops[o] \in Op /\ DOMAIN ops = Ops
  BY DEF TypeOK
<1>2. PICK op \in processResponseData(o) \cup {completeWithError(o, e) : e \in {"offline", "failed"}} :
         ops' = [ops EXCEPT ![o] = op]
  BY DEF processResponse
<1>3. ops[o].state = "sent"
  BY DEF processResponse
<1>4. op = [completeOperation(o) EXCEPT !.items = Page(ops[o].page)]
      \/ op = [ops[o] EXCEPT !.state = "unanswered"]
      \/ \E e \in {"offline", "failed"} : op = completeWithError(o, e)
  BY <1>2 DEF processResponseData
<1>5. CASE op = [completeOperation(o) EXCEPT !.items = Page(ops[o].page)]
  BY <1>1, <1>2, <1>3, <1>5 DEF completeOperation, Op
<1>6. ASSUME NEW e \in {"offline", "failed"}, op = completeWithError(o, e)
      PROVE  /\ op.state = "finished" /\ op.page = ops[o].page /\ op.error # "none"
             /\ op.cancelled = ops[o].cancelled /\ op.items = ops[o].items
  BY <1>1, <1>6 DEF completeWithError, completeOperation, Op
<1>7. CASE op = [ops[o] EXCEPT !.state = "unanswered"]
  BY <1>1, <1>2, <1>3, <1>7 DEF Op
<1>. QED
  BY <1>1, <1>2, <1>3, <1>4, <1>5, <1>6, <1>7

\* The steps of a request change nothing of another, nor its page.
LEMMA WorkSteps ==
    ASSUME TypeOK, NEW o \in Ops, Work(o)
    PROVE  /\ \A k \in Ops \ {o} : ops'[k] = ops[k]
           /\ ops'[o].page = ops[o].page /\ ops'[o].cancelled = ops[o].cancelled
           /\ overtaken' = overtaken
<1>1. ops[o] \in Op /\ DOMAIN ops = Ops
  BY DEF TypeOK
<1>2. CASE start(o)
  BY <1>1, <1>2 DEF start, completeOperation, Op
<1>3. CASE main(o)
  BY <1>1, <1>3 DEF main, Op
<1>4. CASE processResponse(o)
  BY <1>4, Responses DEF processResponse
<1>5. CASE advance(o)
  BY <1>1, <1>5 DEF advance, Op
<1>6. CASE store(o)
  BY <1>1, <1>6 DEF store, Op
<1>7. CASE deliver(o)
  BY <1>1, <1>7 DEF deliver, Op
<1>8. CASE updateWithResult(o)
  BY <1>1, <1>8 DEF updateWithResult, Op
<1>. QED
  BY <1>2, <1>3, <1>4, <1>5, <1>6, <1>7, <1>8 DEF Work

\* The states a request goes through.
LEMMA WorkStates ==
    ASSUME TypeOK, NEW o \in Ops
    PROVE  /\ start(o) => ops[o].state = "ready" /\ ops'[o].state \in {"finished", "executing"}
           /\ main(o) => ops[o].state = "executing" /\ ops'[o].state = "sent"
           /\ processResponse(o) => ops[o].state = "sent" /\ ops'[o].state \in {"finished", "unanswered"}
           /\ advance(o) => ops[o].state = "finished" /\ ops'[o].state \in {"stored", "advanced"}
           /\ store(o) => ops[o].state = "advanced" /\ ops'[o].state = "stored"
           /\ deliver(o) => ops[o].state = "stored" /\ ops'[o].state \in {"appended", "done"}
           /\ updateWithResult(o) => ops[o].state = "appended" /\ ops'[o].state = "done"
<1>1. ops[o] \in Op /\ DOMAIN ops = Ops
  BY DEF TypeOK
<1>2. start(o) => ops[o].state = "ready" /\ ops'[o].state \in {"finished", "executing"}
  BY <1>1 DEF start, completeOperation, Op
<1>3. main(o) => ops[o].state = "executing" /\ ops'[o].state = "sent"
  BY <1>1 DEF main, Op
<1>4. processResponse(o) => ops[o].state = "sent" /\ ops'[o].state \in {"finished", "unanswered"}
  BY Responses
<1>5. advance(o) => ops[o].state = "finished" /\ ops'[o].state \in {"stored", "advanced"}
  BY <1>1 DEF advance, Op
<1>6. store(o) => ops[o].state = "advanced" /\ ops'[o].state = "stored"
  BY <1>1 DEF store, Op
<1>7. deliver(o) => ops[o].state = "stored" /\ ops'[o].state \in {"appended", "done"}
  BY <1>1 DEF deliver, Op
<1>8. updateWithResult(o) => ops[o].state = "appended" /\ ops'[o].state = "done"
  BY <1>1 DEF updateWithResult, Op
<1>. QED
  BY <1>2, <1>3, <1>4, <1>5, <1>6, <1>7, <1>8

----------------------------------------------------------------------------
\* One request at a time is between its creation and its delivery, and the
\* flag is up while its completion has not run, or never will.  While it is on
\* its way, no reset has cancelled it and no other hangs.
OneAtATime ==
    ~overtaken =>
        /\ \A o, p \in Ops : Undelivered(o) /\ Undelivered(p) => o = p
        /\ isFetching <=> \E o \in Ops : Unfinished(o) \/ Hangs(o)
        /\ \A o, p \in Ops : Undelivered(o) => ~ops[o].cancelled /\ ~Hangs(p)

LEMMA OneAtATimeNext ==
    ASSUME TypeOK, OneAtATime, [Next]_vars
    PROVE  OneAtATime'
<1>. USE DEF vars, source, view
<1>1. CASE UNCHANGED vars
  BY <1>1 DEF OneAtATime, Undelivered, Unfinished, Hangs
<1>2. ASSUME NEW requests, NEW current, NEW page \in Nat, beginFetch(requests, current, page),
             \/ requests = ops /\ ~isFetching
             \/ requests = [o \in Ops |-> Cancelled(ops[o])]
      PROVE  OneAtATime'
  <2>1. PICK o \in Ops : /\ ops[o].state = "unused" /\ ops'[o] = Request(page)
                         /\ \A k \in Ops \ {o} : Kept(k)
                         /\ requests = [k \in Ops |-> Cancelled(ops[k])] =>
                               \A k \in Ops : ~Hangs(k)'
    BY <1>2, FetchStarts
  <2>2. isFetching' /\ (overtaken' \/ \A k \in Ops : ~Undelivered(k))
    BY <1>2 DEF beginFetch, Overtakes
  <2>3. ops'[o].state = "ready" /\ ~ops'[o].cancelled
    BY <1>2, <2>1, NewRequest
  <2>4. ~overtaken' => \A k \in Ops : ~Hangs(k)'
    <3>1. ASSUME ~overtaken', ~isFetching
          PROVE  \A k \in Ops : ~Hangs(k)
      BY <1>2, <3>1 DEF beginFetch, Overtakes, OneAtATime
    <3>. QED
      BY <1>2, <2>1, <2>3, <3>1 DEF Hangs, Kept
  <2>. QED
    BY <2>1, <2>2, <2>3, <2>4 DEF OneAtATime, Undelivered, Unfinished, Kept
<1>3. CASE viewWillAppear
  <2>1. CASE refresh
    BY <1>2, <2>1 DEF refresh
  <2>2. CASE UNCHANGED <<source, ops, view, appears, overtaken>>
    BY <2>2 DEF OneAtATime, Undelivered, Unfinished, Hangs
  <2>. QED
    BY <1>3, <2>1, <2>2 DEF viewWillAppear
<1>4. CASE willDisplay
  <2>1. CASE UNCHANGED <<source, ops>> /\ overtaken' \in {overtaken, Overtakes}
    BY <2>1 DEF OneAtATime, Undelivered, Unfinished, Hangs, Overtakes, TypeOK
  <2>2. CASE beginFetch(ops, items, cursor) /\ ~isFetching
    BY <1>2, <2>2 DEF TypeOK
  <2>. QED
    BY <1>4, <2>1, <2>2 DEF willDisplay
<1>5. CASE leave \/ runBlock
  BY <1>5 DEF leave, runBlock, OneAtATime, Undelivered, Unfinished, Hangs
<1>6. ASSUME NEW o \in Ops, Work(o)
      PROVE  OneAtATime'
  <2>1. \A k \in Ops \ {o} : ops'[k] = ops[k]
    BY <1>6, WorkSteps
  <2>2. overtaken' = overtaken
    BY <1>6, WorkSteps
  <2>3. CASE start(o) \/ main(o) \/ processResponse(o)
    <3>1. isFetching' = isFetching
      BY <2>3 DEF start, main, processResponse
    <3>2. Unfinished(o) /\ Undelivered(o) /\ ~Hangs(o)
      BY <2>3, WorkStates DEF Unfinished, Undelivered, Hangs
    <3>3. ~overtaken => ~ops'[o].cancelled
      BY <1>6, <3>2, WorkSteps DEF OneAtATime
    <3>4. \/ Unfinished(o)' /\ ~Hangs(o)'
          \/ ~Undelivered(o)' /\ (~ops'[o].cancelled => Hangs(o)')
      BY <2>3, WorkStates DEF Unfinished, Undelivered, Hangs
    <3>. QED
      BY <2>1, <2>2, <3>1, <3>2, <3>3, <3>4 DEF OneAtATime, Undelivered, Unfinished, Hangs
  <2>4. CASE advance(o) \/ store(o)
    <3>1. Unfinished(o) /\ Undelivered(o) /\ ~Hangs(o)'
      BY <2>4, WorkStates DEF Unfinished, Undelivered, Hangs
    <3>4. ops'[o].cancelled = ops[o].cancelled
      BY <1>6, WorkSteps
    <3>2. \/ Unfinished(o)' /\ isFetching' = isFetching
          \/ ~Unfinished(o)' /\ ~isFetching'
      BY <2>4, WorkStates DEF advance, store, Unfinished, TypeOK, Op
    <3>3. \A k \in Ops \ {o} : Unfinished(k) => Undelivered(k)
      BY DEF Unfinished, Undelivered
    <3>. QED
      BY <2>1, <2>2, <3>1, <3>2, <3>3, <3>4 DEF OneAtATime, Undelivered, Unfinished, Hangs
  <2>5. CASE deliver(o) \/ updateWithResult(o)
    <3>1. isFetching' = isFetching
      BY <2>5 DEF deliver, updateWithResult
    <3>2. Undelivered(o) /\ ~Unfinished(o) /\ ~Unfinished(o)' /\ ~Hangs(o) /\ ~Hangs(o)'
      BY <2>5, WorkStates DEF Unfinished, Undelivered, Hangs
    <3>3. ops'[o].cancelled = ops[o].cancelled
      BY <1>6, WorkSteps
    <3>. QED
      BY <2>1, <2>2, <3>1, <3>2, <3>3 DEF OneAtATime, Undelivered, Unfinished, Hangs
  <2>. QED
    BY <1>6, <2>3, <2>4, <2>5 DEF Work
<1>. QED
  BY <1>1, <1>3, <1>4, <1>5, <1>6 DEF Next

\* FlagIsARequest: the flag that keeps two fetches apart is up exactly while
\* a request has not run its completion, or hangs for want of an answer.
THEOREM FlagsAreRequests == Spec => []FlagIsARequest
<1>1. Init => OneAtATime
  BY DEF Init, OneAtATime, Undelivered, Unfinished, Hangs, Unused
<1>2. TypeOK /\ OneAtATime /\ [Next]_vars => OneAtATime'
  BY OneAtATimeNext
<1>3. OneAtATime => FlagIsARequest
  BY DEF OneAtATime, FlagIsARequest
<1>. QED
  BY <1>1, <1>2, <1>3, FeedTypes, PTL DEF Spec
----------------------------------------------------------------------------
\* What a request has brought: nothing before it has finished, then its page,
\* or nothing with an error or after it was cancelled before it started.
Waiting == {"unused", "ready", "executing", "sent", "unanswered"}

Results ==
    \A o \in Ops :
        /\ ops[o].state \in Waiting =>
              ops[o].items = <<>> /\ ops[o].error = "none"
        /\ ops[o].state \notin Waiting =>
              \/ ops[o].items = Page(ops[o].page) /\ ops[o].error = "none"
              \/ ops[o].items = <<>> /\ (ops[o].cancelled \/ ops[o].error # "none")

\* Only an answer changes the items and the error of a request.
LEMMA WorkItems ==
    ASSUME TypeOK, NEW o \in Ops, Work(o), ~processResponse(o)
    PROVE  ops'[o].items = ops[o].items /\ ops'[o].error = ops[o].error
<1>1. ops[o] \in Op /\ DOMAIN ops = Ops
  BY DEF TypeOK
<1>2. CASE start(o)
  BY <1>1, <1>2 DEF start, completeOperation, Op
<1>3. CASE main(o)
  BY <1>1, <1>3 DEF main, Op
<1>4. CASE advance(o)
  BY <1>1, <1>4 DEF advance, Op
<1>5. CASE store(o)
  BY <1>1, <1>5 DEF store, Op
<1>6. CASE deliver(o)
  BY <1>1, <1>6 DEF deliver, Op
<1>7. CASE updateWithResult(o)
  BY <1>1, <1>7 DEF updateWithResult, Op
<1>. QED
  BY <1>2, <1>3, <1>4, <1>5, <1>6, <1>7 DEF Work

LEMMA ResultsNext ==
    ASSUME TypeOK, Results, [Next]_vars
    PROVE  Results'
<1>. USE DEF vars, source, view
<1>1. CASE UNCHANGED ops
  BY <1>1 DEF Results
<1>2. ASSUME NEW requests, NEW current, NEW page \in Nat, beginFetch(requests, current, page),
             requests = ops \/ requests = [o \in Ops |-> Cancelled(ops[o])]
      PROVE  Results'
  <2>1. PICK o \in Ops : /\ ops[o].state = "unused" /\ ops'[o] = Request(page)
                         /\ \A k \in Ops \ {o} : Kept(k)
    BY <1>2, FetchStarts
  <2>2. /\ ops'[o].state = "ready" /\ ops'[o].items = <<>> /\ ops'[o].error = "none"
    BY <1>2, <2>1, NewRequest
  <2>. QED
    BY <2>1, <2>2 DEF Results, Waiting, Kept
<1>3. ASSUME NEW o \in Ops, Work(o)
      PROVE  Results'
  <2>1. /\ \A k \in Ops \ {o} : ops'[k] = ops[k]
        /\ ops'[o].page = ops[o].page /\ ops'[o].cancelled = ops[o].cancelled
    BY <1>3, WorkSteps
  <2>2. CASE processResponse(o)
    BY <2>1, <2>2, Responses DEF Results, Waiting
  <2>3. CASE start(o)
    <3>1. ops'[o].items = ops[o].items /\ ops'[o].error = ops[o].error
      BY <1>3, <2>3, WorkItems, WorkStates
    <3>2. ops[o].cancelled \/ ops'[o].state = "executing"
      BY <2>3 DEF start, TypeOK, Op
    <3>. QED
      BY <2>1, <2>3, <3>1, <3>2, WorkStates DEF Results, Waiting
  <2>4. CASE ~processResponse(o) /\ ~start(o)
    <3>1. ops'[o].items = ops[o].items /\ ops'[o].error = ops[o].error
      BY <1>3, <2>4, WorkItems
    <3>. QED
      BY <1>3, <2>1, <2>4, <3>1, WorkStates DEF Results, Waiting, Work
  <2>. QED
    BY <2>2, <2>3, <2>4
<1>4. viewWillAppear => Results'
  BY <1>1, <1>2 DEF viewWillAppear, refresh
<1>5. willDisplay => Results'
  BY <1>1, <1>2 DEF willDisplay, TypeOK
<1>6. leave \/ runBlock => UNCHANGED ops
  BY DEF leave, runBlock
<1>. QED
  BY <1>1, <1>3, <1>4, <1>5, <1>6 DEF Next

\* What each request has brought, as an invariant.
THEOREM RequestsBringTheirPage == Spec => []Results
<1>1. Init => Results
  BY DEF Init, Results, Waiting, Unused
<1>2. TypeOK /\ Results /\ [Next]_vars => Results'
  BY ResultsNext
<1>. QED
  BY <1>1, <1>2, FeedTypes, PTL DEF Spec

----------------------------------------------------------------------------
LEMMA EndsNext ==
    ASSUME TypeOK, Results, EndIsReal, [Next]_vars
    PROVE  EndIsReal'
<1>. USE DEF vars, source, view
<1>1. CASE UNCHANGED <<ops, canFetchMore>>
  BY <1>1 DEF EndIsReal, Ends
<1>7. /\ EndIsReal => canFetchMore \/ \E o \in Ops : Ends(o)
      /\ canFetchMore' \/ (\E o \in Ops : Ends(o)') => EndIsReal'
  BY Zenon DEF EndIsReal
<1>2. CASE viewWillAppear
  BY <1>1, <1>2 DEF viewWillAppear, refresh, reset, EndIsReal
<1>3. ASSUME beginFetch(ops, items, cursor), UNCHANGED canFetchMore
      PROVE  EndIsReal'
  <2>1. PICK o \in Ops : /\ ops[o].state = "unused" /\ \A k \in Ops \ {o} : Kept(k)
    BY <1>3, FetchStarts DEF TypeOK
  <2>2. \A k \in Ops : Ends(k) => Ends(k)'
    BY <2>1 DEF Ends, Kept
  <2>. QED
    BY <1>3, <1>7, <2>2
<1>4. willDisplay => EndIsReal'
  BY <1>1, <1>3 DEF willDisplay
<1>5. ASSUME NEW o \in Ops, Work(o)
      PROVE  EndIsReal'
  <2>1. /\ \A k \in Ops \ {o} : ops'[k] = ops[k]
        /\ ops'[o].page = ops[o].page /\ ops'[o].cancelled = ops[o].cancelled
    BY <1>5, WorkSteps
  <2>2. \A k \in Ops : Ends(k) => Ends(k)'
    <3>1. CASE ops[o].state \in {"advanced", "stored", "appended", "done"}
      <4>1. ~processResponse(o) /\ ops'[o].state \in {"advanced", "stored", "appended", "done"}
        BY <1>5, <3>1, WorkStates DEF Work
      <4>. QED
        BY <1>5, <2>1, <4>1, WorkItems DEF Ends
    <3>. QED
      BY <2>1, <3>1 DEF Ends
  <2>3. CASE canFetchMore' = canFetchMore
    BY <1>7, <2>2, <2>3
  <2>4. CASE canFetchMore' # canFetchMore
    <3>1. advance(o) /\ ops[o].error = "none" /\ IsLastPage(o)
      BY <1>5, <2>4
         DEF Work, start, main, processResponse, advance, store, deliver, updateWithResult
    <3>2. /\ ops[o].state = "finished" /\ ops'[o].state \in {"stored", "advanced"}
          /\ ops'[o].items = ops[o].items /\ ops'[o].error = ops[o].error
      BY <1>5, <3>1, WorkStates, WorkItems
    <3>3. ops[o].page > FullPages \/ (ops[o].cancelled /\ ops[o].items = <<>>)
      <4>1. ops[o].page \in Nat
        BY DEF TypeOK, Op
      <4>2. CASE ops[o].items = Page(ops[o].page)
        <5>1. PageSize(ops[o].page) < PerPage
          BY <3>1, <4>1, <4>2, PageSeq DEF IsLastPage
        <5>. QED
          BY <4>1, <5>1, FeedConstants DEF PageSize
      <4>. QED
        BY <3>1, <3>2, <4>2 DEF Results, Waiting
    <3>4. Ends(o)'
      BY <2>1, <3>1, <3>2, <3>3 DEF Ends
    <3>. QED
      BY <1>7, <3>4
  <2>. QED
    BY <2>3, <2>4
<1>6. leave \/ runBlock => UNCHANGED <<ops, canFetchMore>>
  BY DEF leave, runBlock
<1>. QED
  BY <1>1, <1>2, <1>4, <1>5, <1>6 DEF Next

\* EndIsReal: the feed ends after a page the server could not fill, or after
\* the empty result of a request that was cancelled before it started.
THEOREM EndsAreReal == Spec => []EndIsReal
<1>1. Init => EndIsReal
  BY DEF Init, EndIsReal
<1>2. TypeOK /\ Results /\ EndIsReal /\ [Next]_vars => EndIsReal'
  BY EndsNext
<1>. QED
  BY <1>1, <1>2, FeedTypes, RequestsBringTheirPage, PTL DEF Spec
----------------------------------------------------------------------------
\* A request that no reset has given up is on its way, or hangs.
Pending(o) == ops[o].state \notin {"unused", "done"} /\ ~ops[o].cancelled
Awaited == \E o \in Ops : Pending(o)

\* A spinner that turns, or is to come, is not the last that is heard of a
\* fetch.  A request that a reset gave up may hang as well, but the reset has
\* started another.
SpinnersAreFollowed ==
    \A i \in DOMAIN mainQueue : mainQueue[i].kind = "spin" =>
        Awaited \/ \E j \in DOMAIN mainQueue : j > i /\ mainQueue[j].kind # "spin"

SpinnerIsFollowed == spinner => Awaited \/ \E i \in DOMAIN mainQueue : mainQueue[i].kind # "spin"

\* A block that does not start the spinner follows all that do.
LEMMA StoppedLater ==
    ASSUME TypeOK, NEW b \in Block, b.kind # "spin", mainQueue' = Append(mainQueue, b)
    PROVE  SpinnersAreFollowed' /\ SpinnerIsFollowed'
<1>1. /\ DOMAIN mainQueue' = 1 .. Len(mainQueue) + 1 /\ Len(mainQueue) \in Nat
      /\ mainQueue'[Len(mainQueue) + 1] = b
  BY DEF TypeOK
<1>2. \A i \in DOMAIN mainQueue' : i = Len(mainQueue) + 1 \/ i < Len(mainQueue) + 1
  BY <1>1
<1>3. Len(mainQueue) + 1 \in DOMAIN mainQueue'
  BY <1>1
<1>. QED
  BY <1>1, <1>2, <1>3 DEF SpinnersAreFollowed, SpinnerIsFollowed

LEMMA FollowedNext ==
    ASSUME TypeOK, SpinnersAreFollowed, SpinnerIsFollowed, [Next]_vars
    PROVE  SpinnersAreFollowed' /\ SpinnerIsFollowed'
<1>. USE DEF vars, source, view
<1>1. CASE /\ UNCHANGED <<spinner, mainQueue>>
           /\ (Awaited => Awaited')
  BY <1>1 DEF SpinnersAreFollowed, SpinnerIsFollowed
<1>2. CASE Awaited'
  BY <1>2 DEF SpinnersAreFollowed, SpinnerIsFollowed
<1>3. ASSUME NEW requests, NEW current, NEW page \in Nat, beginFetch(requests, current, page),
             requests = ops \/ requests = [o \in Ops |-> Cancelled(ops[o])]
      PROVE  Awaited'
  <2>1. PICK o \in Ops : ops'[o] = Request(page)
    BY <1>3, FetchStarts
  <2>. QED
    BY <1>3, <2>1, NewRequest DEF Awaited, Pending
<1>4. CASE UNCHANGED vars
  BY <1>1, <1>4 DEF Awaited, Pending
<1>5. CASE viewWillAppear
  BY <1>1, <1>2, <1>3, <1>5 DEF viewWillAppear, refresh, Awaited, Pending
<1>6. CASE leave
  BY <1>1, <1>6 DEF leave, Awaited, Pending
<1>7. CASE willDisplay
  <2>1. CASE errorWhileFetching("serverError")
    BY <2>1, Blocks, StoppedLater DEF errorWhileFetching
  <2>2. CASE mainQueue' = Append(mainQueue, UpdateBlock(<<>>, photos # <<>>))
    <3>1. <<>> \in Seq(Nat) /\ (photos # <<>>) \in BOOLEAN
      OBVIOUS
    <3>2. /\ UpdateBlock(<<>>, photos # <<>>) \in Block
          /\ UpdateBlock(<<>>, photos # <<>>).kind # "spin"
      BY <3>1, Blocks
    <3>. QED
      BY <2>2, <3>2, StoppedLater
  <2>3. CASE beginFetch(ops, items, cursor)
    BY <1>2, <1>3, <2>3 DEF TypeOK
  <2>. QED
    BY <1>7, <2>1, <2>2, <2>3 DEF willDisplay
<1>8. CASE runBlock
  <2>1. /\ mainQueue \in Seq(Block) /\ mainQueue # <<>> /\ mainQueue' = Tail(mainQueue)
        /\ spinner' = (mainQueue[1].kind = "spin")
    BY <1>8 DEF runBlock, TypeOK
  <2>2. /\ 1 \in DOMAIN mainQueue
        /\ \A i \in DOMAIN mainQueue' : i + 1 \in DOMAIN mainQueue /\ mainQueue'[i] = mainQueue[i + 1]
        /\ \A i \in DOMAIN mainQueue : i = 1 \/ i - 1 \in DOMAIN mainQueue'
        /\ DOMAIN mainQueue \subseteq Nat /\ DOMAIN mainQueue' \subseteq Nat
    BY <2>1
  <2>3. UNCHANGED ops
    BY <1>8 DEF runBlock
  <2>4. ASSUME NEW i \in DOMAIN mainQueue, mainQueue[i].kind = "spin", ~Awaited
        PROVE  \E j \in DOMAIN mainQueue' : j > i - 1 /\ mainQueue'[j].kind # "spin"
    <3>1. PICK j \in DOMAIN mainQueue : j > i /\ mainQueue[j].kind # "spin"
      BY <2>4 DEF SpinnersAreFollowed
    <3>2. j - 1 \in DOMAIN mainQueue' /\ (j - 1) + 1 = j /\ j - 1 > i - 1
      BY <2>2, <3>1
    <3>. QED
      BY <2>2, <3>1, <3>2
  <2>5. CASE Awaited
    BY <1>2, <2>3, <2>5 DEF Awaited, Pending
  <2>6. CASE ~Awaited
    <3>1. SpinnerIsFollowed'
      BY <2>1, <2>2, <2>4, <2>6 DEF SpinnerIsFollowed
    <3>2. SpinnersAreFollowed'
      <4>1. \A i \in DOMAIN mainQueue' : (i + 1) - 1 = i
        BY <2>2
      <4>. QED
        BY <2>2, <2>4, <2>6, <4>1 DEF SpinnersAreFollowed
    <3>. QED
      BY <3>1, <3>2
  <2>. QED
    BY <2>5, <2>6
<1>9. ASSUME NEW o \in Ops, Work(o)
      PROVE  SpinnersAreFollowed' /\ SpinnerIsFollowed'
  <2>1. CASE start(o) \/ main(o) \/ processResponse(o) \/ advance(o) \/ store(o)
    <3>1. /\ UNCHANGED <<spinner, mainQueue>>
          /\ \A k \in Ops \ {o} : ops'[k] = ops[k]
          /\ ops'[o].cancelled = ops[o].cancelled
      BY <1>9, <2>1, WorkSteps DEF start, main, processResponse, advance, store
    <3>2. ops[o].state \notin {"unused", "done"} /\ ops'[o].state \notin {"unused", "done"}
      BY <2>1, WorkStates
    <3>. QED
      BY <1>1, <3>1, <3>2 DEF Awaited, Pending
  <2>2. CASE deliver(o) /\ ops[o].error # "none"
    BY <2>2, Blocks, StoppedLater DEF deliver, errorWhileFetching
  <2>3. CASE deliver(o) /\ ops[o].error = "none"
    <3>1. /\ UNCHANGED <<spinner, mainQueue>> /\ ops'[o].state = "appended"
          /\ \A k \in Ops \ {o} : ops'[k] = ops[k]
          /\ ops[o].state = "stored" /\ ops'[o].cancelled = ops[o].cancelled
      BY <1>9, <2>3, WorkSteps DEF deliver, TypeOK, Op
    <3>. QED
      BY <1>1, <3>1 DEF Awaited, Pending
  <2>4. CASE updateWithResult(o)
    <3>1. ops[o].items \in Seq(Nat) /\ ops[o].needInsert \in BOOLEAN
      BY DEF TypeOK, Op
    <3>2. UpdateBlock(ops[o].items, ops[o].needInsert) \in Block
          /\ UpdateBlock(ops[o].items, ops[o].needInsert).kind # "spin"
      BY <3>1, Blocks
    <3>. QED
      BY <2>4, <3>2, StoppedLater DEF updateWithResult
  <2>. QED
    BY <1>9, <2>1, <2>2, <2>3, <2>4 DEF Work
<1>. QED
  BY <1>4, <1>5, <1>6, <1>7, <1>8, <1>9 DEF Next

\* SpinnerHasReason: while the spinner turns, a request is on its way or a
\* block that stops it is in the main queue, unless a request hangs.
THEOREM SpinnersHaveReason == Spec => []SpinnerHasReason
<1>1. Init => SpinnersAreFollowed /\ SpinnerIsFollowed
  BY DEF Init, SpinnersAreFollowed, SpinnerIsFollowed
<1>2. TypeOK /\ SpinnersAreFollowed /\ SpinnerIsFollowed /\ [Next]_vars
        => SpinnersAreFollowed' /\ SpinnerIsFollowed'
  BY FollowedNext
<1>3. Awaited => \E o \in Ops : Undelivered(o) \/ Hangs(o)
  BY DEF Awaited, Pending, Undelivered, Hangs
<1>4. SpinnerIsFollowed => SpinnerHasReason
  BY <1>3 DEF SpinnerIsFollowed, SpinnerHasReason
<1>. QED
  BY <1>1, <1>2, <1>4, FeedTypes, PTL DEF Spec
----------------------------------------------------------------------------
\* The pages that have arrived, as NoSkippedPage counts them.
Shown(k) == \E i \in DOMAIN photos : photos[i] = k
Brought(o, k) == o \in Accepted /\ Contains(ops[o].items, k) /\ k \in 1 .. FullPages + 1
Got(k) == Shown(k) \/ \E o \in Ops : Brought(o, k)

\* Neither the cursor nor a request is ahead of a page that has not arrived.
NoHoles ==
    /\ \A k : Got(k) => \A j \in 1 .. k : Got(j)
    /\ cursor >= 1 /\ \A j \in 1 .. cursor - 1 : Got(j)
    /\ \A o \in Ops : ops[o].state # "unused" =>
          ops[o].page >= 1 /\ \A j \in 1 .. ops[o].page - 1 : Got(j)

LEMMA NoHolesSuffice == NoHoles => NoSkippedPage
  BY DEF NoHoles, NoSkippedPage, Got, Shown, Brought, Accepted

\* A page holds nothing but its own photos, and the server has those it fills.
LEMMA PagePhotos ==
    ASSUME NEW p \in Nat, p >= 1
    PROVE  /\ \A k : Contains(Page(p), k) => k = p /\ k \in 1 .. FullPages + 1
           /\ Len(Page(p)) >= PerPage => Contains(Page(p), p)
<1>1. /\ Page(p) \in Seq(Nat) /\ Len(Page(p)) = PageSize(p) /\ PageSize(p) \in Nat
      /\ \A i \in 1 .. PageSize(p) : Page(p)[i] = p
  BY PageSeq
<1>2. PageSize(p) > 0 => p \in 1 .. FullPages + 1
  BY FeedConstants DEF PageSize
<1>3. ASSUME NEW k, Contains(Page(p), k)
      PROVE  k = p /\ k \in 1 .. FullPages + 1
  <2>1. PICK i \in 1 .. PageSize(p) : Page(p)[i] = k
    BY <1>1, <1>3 DEF Contains
  <2>2. PageSize(p) > 0
    BY <1>1, <2>1
  <2>. QED
    BY <1>1, <1>2, <2>1, <2>2
<1>4. ASSUME Len(Page(p)) >= PerPage
      PROVE  Contains(Page(p), p)
  <2>1. 1 \in 1 .. PageSize(p)
    BY <1>1, <1>4, FeedConstants
  <2>. QED
    BY <1>1, <2>1 DEF Contains
<1>. QED
  BY <1>3, <1>4

\* The pages in what a request has brought: its own, if the server has it.
LEMMA BroughtPages ==
    ASSUME TypeOK, NEW o \in Ops, ops[o].items \in {<<>>, Page(ops[o].page)},
           ops[o].state # "unused", NoHoles
    PROVE  /\ \A k : Contains(ops[o].items, k) => k = ops[o].page /\ k \in 1 .. FullPages + 1
           /\ ~IsLastPage(o) => Contains(ops[o].items, ops[o].page)
<1>1. ops[o].page \in Nat /\ ops[o].page >= 1
  BY DEF TypeOK, Op, NoHoles
<1>2. CASE ops[o].items = <<>>
  BY <1>2, FeedConstants DEF Contains, IsLastPage
<1>3. CASE ops[o].items = Page(ops[o].page)
  <2>1. /\ \A k : Contains(ops[o].items, k) => k = ops[o].page /\ k \in 1 .. FullPages + 1
        /\ Len(ops[o].items) >= PerPage => Contains(ops[o].items, ops[o].page)
    BY <1>1, <1>3, PagePhotos
  <2>2. Len(ops[o].items) \in Nat
    BY <1>1, <1>3, PageSeq
  <2>. QED
    BY <2>1, <2>2, FeedConstants DEF IsLastPage
<1>. QED
  BY <1>2, <1>3

LEMMA NoHolesNext ==
    ASSUME TypeOK, TypeOK', Results, NoHoles, [Next]_vars
    PROVE  NoHoles'
<1>. USE DEF vars, source, view
<1>1. CASE UNCHANGED <<ops, photos, cursor>>
  BY <1>1 DEF NoHoles, Got, Shown, Brought, Accepted
<1>2. ASSUME NEW requests, NEW current, NEW page \in Nat, beginFetch(requests, current, page),
             requests = ops \/ requests = [o \in Ops |-> Cancelled(ops[o])],
             UNCHANGED photos, page >= 1, \A j \in 1 .. page - 1 : Got(j), cursor' = page
      PROVE  NoHoles'
  <2>1. PICK o \in Ops : /\ ops[o].state = "unused" /\ ops'[o] = Request(page)
                         /\ \A k \in Ops \ {o} : Kept(k)
    BY <1>2, FetchStarts
  <2>2. ops'[o].state = "ready" /\ ops'[o].page = page
    BY <1>2, <2>1, NewRequest
  <2>3. \A p \in Ops : \A k : Brought(p, k)' <=> Brought(p, k)
    BY <2>1, <2>2 DEF Brought, Accepted, Kept
  <2>4. \A k : Got(k)' <=> Got(k)
    BY <1>2, <2>3 DEF Got, Shown
  <2>. QED
    BY <1>2, <2>1, <2>2, <2>4 DEF NoHoles, Kept
<1>3. CASE viewWillAppear
  BY <1>1, <1>2, <1>3 DEF viewWillAppear, refresh, reset
<1>4. CASE willDisplay
  BY <1>1, <1>2, <1>4 DEF willDisplay, errorWhileFetching, TypeOK, NoHoles
<1>5. CASE leave \/ runBlock
  BY <1>1, <1>5 DEF leave, runBlock
<1>6. ASSUME NEW o \in Ops, Work(o)
      PROVE  NoHoles'
  <2>1. /\ \A k \in Ops \ {o} : ops'[k] = ops[k]
        /\ ops'[o].page = ops[o].page /\ ops'[o].cancelled = ops[o].cancelled
    BY <1>6, WorkSteps
  <2>2. ops[o].state # "unused" /\ ops'[o].state # "unused"
    BY <1>6, WorkStates DEF Work
  <2>3. \A p \in Ops \ {o} : \A k : Brought(p, k)' <=> Brought(p, k)
    BY <2>1 DEF Brought, Accepted
  <2>4. ASSUME UNCHANGED cursor, \A k : Got(k)' <=> Got(k)
        PROVE  NoHoles'
    BY <2>1, <2>2, <2>4 DEF NoHoles
  <2>5. ASSUME UNCHANGED <<photos, cursor>>, \A k : Brought(o, k)' <=> Brought(o, k)
        PROVE  NoHoles'
    <3>1. \A k : Got(k)' <=> Got(k)
      BY <2>3, <2>5 DEF Got, Shown
    <3>. QED
      BY <2>4, <2>5, <3>1
  <2>6. CASE start(o) \/ main(o) \/ processResponse(o) \/ updateWithResult(o)
    <3>1. /\ ops[o].state \notin {"advanced", "stored"} /\ ops'[o].state \notin {"advanced", "stored"}
          /\ UNCHANGED <<photos, cursor>>
      BY <2>6, WorkStates DEF start, main, processResponse, updateWithResult
    <3>. QED
      BY <2>5, <3>1 DEF Brought, Accepted
  <2>7. CASE store(o)
    <3>1. /\ ops[o].state \in {"advanced", "stored"} /\ ops'[o].state \in {"advanced", "stored"}
          /\ ops'[o].items = ops[o].items /\ UNCHANGED <<photos, cursor>>
      BY <1>6, <2>7, WorkStates, WorkItems DEF store
    <3>. QED
      BY <2>5, <3>1 DEF Brought, Accepted
  <2>8. CASE advance(o)
    <3>1. /\ ops[o].state = "finished" /\ ops'[o].state \in {"advanced", "stored"}
          /\ ops'[o].items = ops[o].items /\ UNCHANGED photos
      BY <1>6, <2>8, WorkStates, WorkItems DEF advance
    <3>2. ops[o].items \in {<<>>, Page(ops[o].page)}
      BY <3>1 DEF Results, Waiting
    <3>8. ops[o].page \in Nat /\ ops[o].page >= 1 /\ \A j \in 1 .. ops[o].page - 1 : Got(j)
      BY <2>2 DEF TypeOK, Op, NoHoles
    <3>9. \A j \in 1 .. ops[o].page : j = ops[o].page \/ j \in 1 .. ops[o].page - 1
      BY <3>8
    <3>3. \A k : Brought(o, k)' => k = ops[o].page
      BY <2>2, <3>1, <3>2, BroughtPages DEF Brought
    <3>4. \A k : ~Brought(o, k)
      BY <3>1 DEF Brought, Accepted
    <3>5. \A k : Got(k)' <=> Got(k) \/ Brought(o, k)'
      BY <2>3, <3>1, <3>4 DEF Got, Shown
    <3>10. \A k : Got(k)' => \A j \in 1 .. k : Got(j)'
      <4>1. ASSUME NEW k, Brought(o, k)', NEW j \in 1 .. k
            PROVE  Got(j)'
        <5>1. k = ops[o].page
          BY <3>3, <4>1
        <5>2. j = k \/ Got(j)
          BY <3>8, <3>9, <5>1
        <5>. QED
          BY <3>5, <4>1, <5>2
      <4>. QED
        BY <3>5, <4>1 DEF NoHoles
    <3>6. CASE UNCHANGED cursor
      BY <2>1, <2>2, <3>5, <3>6, <3>10 DEF NoHoles
    <3>7. CASE cursor' = ops[o].page + 1 /\ ~IsLastPage(o)
      <4>1. /\ Contains(ops[o].items, ops[o].page)
            /\ Contains(ops[o].items, ops[o].page) => ops[o].page \in 1 .. FullPages + 1
        BY <2>2, <3>2, <3>7, BroughtPages
      <4>2. \A k : k = ops[o].page => Brought(o, k)'
        BY <2>1, <3>1, <4>1 DEF Brought, Accepted
      <4>3. \A j \in 1 .. cursor' - 1 : Got(j)'
        <5>1. 1 .. cursor' - 1 = 1 .. ops[o].page
          BY <3>7, <3>8
        <5>. QED
          BY <3>5, <3>8, <3>9, <4>2, <5>1
      <4>4. cursor' >= 1
        BY <3>7, <3>8
      <4>. QED
        BY <2>1, <2>2, <3>5, <3>10, <4>3, <4>4 DEF NoHoles
    <3>. QED
      BY <2>8, <3>6, <3>7 DEF advance, NextPage
  <2>9. CASE deliver(o)
    <3>1. /\ ops[o].state = "stored" /\ ops'[o].state \in {"appended", "done"}
          /\ ops[o].items \in {<<>>, Page(ops[o].page)} /\ UNCHANGED cursor
      BY <2>9, WorkStates DEF deliver, Results, Waiting
    <3>2. \A k : ~Brought(o, k)'
      BY <3>1 DEF Brought, Accepted
    <3>3. \A k : Brought(o, k) <=> Contains(ops[o].items, k)
      BY <2>2, <3>1, BroughtPages DEF Brought, Accepted
    <3>4. \A k : Shown(k)' <=> Shown(k) \/ Contains(ops[o].items, k)
      <4>1. CASE ops[o].error # "none"
        <5>1. ops[o].items = <<>> /\ UNCHANGED photos
          BY <2>9, <3>1, <4>1 DEF deliver, errorWhileFetching, Results, Waiting
        <5>. QED
          BY <5>1 DEF Shown, Contains
      <4>2. CASE ops[o].error = "none"
        <5>1. photos' = photos \o ops[o].items
          BY <2>9, <4>2, Zenon DEF deliver
        <5>2. photos \in Seq(Nat) /\ ops[o].items \in Seq(Nat)
          BY DEF TypeOK, Op
        <5>3. /\ DOMAIN photos' = 1 .. Len(photos) + Len(ops[o].items)
              /\ \A i \in DOMAIN photos : i \in DOMAIN photos' /\ photos'[i] = photos[i]
              /\ \A i \in 1 .. Len(ops[o].items) :
                    Len(photos) + i \in DOMAIN photos' /\ photos'[Len(photos) + i] = ops[o].items[i]
          BY SMTT(30), <5>1, <5>2
        <5>4. \A i \in DOMAIN photos' :
                 \/ i \in DOMAIN photos
                 \/ \E j \in 1 .. Len(ops[o].items) : i = Len(photos) + j
          <6>1. \A i \in DOMAIN photos' : i \in DOMAIN photos \/ i - Len(photos) \in 1 .. Len(ops[o].items)
            BY <5>2, <5>3
          <6>2. \A i \in DOMAIN photos' : i = Len(photos) + (i - Len(photos))
            BY <5>2, <5>3
          <6>. QED
            BY <6>1, <6>2
        <5>. QED
          <6>1. \A k : Shown(k) => Shown(k)'
            BY <5>3 DEF Shown
          <6>2. \A k : Contains(ops[o].items, k) => Shown(k)'
            BY <5>3 DEF Shown, Contains
          <6>3. \A k : Shown(k)' => Shown(k) \/ Contains(ops[o].items, k)
            BY SMTT(30), <5>3, <5>4 DEF Shown, Contains
          <6>. QED
            BY <6>1, <6>2, <6>3
      <4>. QED
        BY <4>1, <4>2
    <3>5. \A k : Got(k)' <=> Got(k)
      BY <2>3, <3>2, <3>3, <3>4 DEF Got
    <3>. QED
      BY <2>4, <3>1, <3>5
  <2>. QED
    BY <1>6, <2>6, <2>7, <2>8, <2>9 DEF Work
<1>. QED
  BY <1>1, <1>3, <1>4, <1>5, <1>6 DEF Next

\* NoSkippedPage: with failed, cancelled, repeated and overtaking requests the
\* pages that have arrived are the first pages of the feed.
THEOREM PagesAreNotSkipped == Spec => []NoSkippedPage
<1>1. Init => NoHoles
  BY DEF Init, NoHoles, Got, Shown, Brought, Accepted, Unused
<1>2. TypeOK /\ TypeOK' /\ Results /\ NoHoles /\ [Next]_vars => NoHoles'
  BY NoHolesNext
<1>. QED
  BY <1>1, <1>2, NoHolesSuffice, FeedTypes, RequestsBringTheirPage, PTL DEF Spec
----------------------------------------------------------------------------
(* The order of the feed *)

Early == {"ready", "executing", "sent", "finished"}
Advanced(o) == ops[o].state = "advanced"
Arriving(o) == ops[o].state = "stored" /\ ops[o].error = "none"
Appended(o) == ops[o].state = "appended"

\* The data source holds n pages, and a request is for the one after them or
\* brings the last of them to the view.
HoldsPages(n) ==
    /\ AreFirstPages(n, items)
    /\ canFetchMore => IF \E o \in Ops : Advanced(o) THEN cursor = n + 2 /\ n + 1 <= FullPages
                       ELSE cursor = n + 1 /\ n <= FullPages
    /\ \A o \in Ops :
          /\ Undelivered(o) => ~ops[o].cancelled
          /\ ops[o].state \in Early => canFetchMore /\ ops[o].page = cursor
          /\ Advanced(o) => ops[o].error = "none" /\ ops[o].page = n + 1 /\ n <= FullPages
          /\ Arriving(o) \/ Appended(o) => ops[o].error = "none" /\ ops[o].page = n
          /\ Arriving(o) => photos \o ops[o].items = items
    /\ (\A o \in Ops : ~Arriving(o)) => photos = items

PagesInOrder == ~overtaken => \E n \in 0 .. FullPages + 1 : HoldsPages(n)

\* The page after the first n of them.
LEMMA NextOfPages ==
    ASSUME NEW n \in Nat, n <= FullPages, NEW s \in Seq(Nat), AreFirstPages(n, s)
    PROVE  AreFirstPages(n + 1, s \o Page(n + 1))
<1> DEFINE page == Page(n + 1)
           length == n * PerPage
<1>1. /\ PerPage \in Nat \ {0} /\ FullPages \in Nat /\ Remainder \in Nat /\ Remainder < PerPage
  BY FeedConstants
<1>2. /\ length \in Nat /\ (n + 1) * PerPage = length + PerPage /\ ((n + 1) - 1) * PerPage = length
  BY <1>1
<1>3. /\ Len(s) = length
      /\ \A i \in DOMAIN s : (s[i] - 1) * PerPage < i /\ i <= s[i] * PerPage
  BY <1>1 DEF AreFirstPages
<1>4. /\ page \in Seq(Nat) /\ Len(page) = PageSize(n + 1) /\ PageSize(n + 1) \in 0 .. PerPage
      /\ \A i \in 1 .. PageSize(n + 1) : page[i] = n + 1
  <2>1. n + 1 \in Nat
    OBVIOUS
  <2>2. PageSize(n + 1) \in 0 .. PerPage
    BY <1>1 DEF PageSize
  <2>. QED
    BY <2>1, <2>2, PageSeq
<1>5. Len(s \o page) = length + PageSize(n + 1)
  <2>1. s \in Seq(Nat) /\ page \in Seq(Nat)
    BY <1>4
  <2>. HIDE DEF page, length
  <2>2. Len(s \o page) = Len(s) + Len(page)
    BY <2>1
  <2>. QED
    BY <1>3, <1>4, <2>2
<1>6. Len(s \o page) = IF n + 1 <= FullPages THEN (n + 1) * PerPage ELSE FullPages * PerPage + Remainder
  <2>1. CASE n + 1 <= FullPages
    <3>1. PageSize(n + 1) = PerPage
      BY <2>1 DEF PageSize
    <3>. QED
      BY <1>2, <1>5, <2>1, <3>1
  <2>2. CASE ~(n + 1 <= FullPages)
    <3>1. n = FullPages /\ PageSize(n + 1) = Remainder
      BY <1>1, <2>2 DEF PageSize
    <3>. QED
      BY <1>5, <2>2, <3>1
  <2>. QED
    BY <2>1, <2>2
<1> HIDE DEF page, length
<1>7. ASSUME NEW i \in DOMAIN (s \o page)
      PROVE  /\ ((s \o page)[i] - 1) * PerPage < i
             /\ i <= (s \o page)[i] * PerPage
  <2>1. i \in 1 .. length + PageSize(n + 1) /\ DOMAIN s = 1 .. length
    BY <1>3, <1>4, <1>5
  <2>2. CASE i <= length
    <3>1. i \in DOMAIN s /\ (s \o page)[i] = s[i]
      BY <1>2, <1>3, <1>4, <2>1, <2>2
    <3>. QED
      BY <1>3, <3>1
  <2>3. CASE i > length
    <3>1. i - length \in 1 .. PageSize(n + 1) /\ (s \o page)[i] = page[i - length]
      BY <1>2, <1>3, <1>4, <2>1, <2>3
    <3>2. (s \o page)[i] = n + 1
      BY <1>4, <3>1
    <3>3. length < i /\ i <= length + PerPage
      <4>1. PageSize(n + 1) \in 0 .. PerPage
        BY <1>4
      <4>. DEFINE size == PageSize(n + 1)
      <4>. HIDE DEF size
      <4>2. size \in 0 .. PerPage /\ i \in 1 .. length + size
        BY <2>1, <4>1 DEF size
      <4>. QED
        BY <1>1, <1>2, <2>3, <4>2
    <3>. QED
      BY <1>2, <3>2, <3>3
  <2>. QED
    BY <1>2, <2>1, <2>2, <2>3
<1>. QED
  BY <1>6, <1>7 DEF AreFirstPages, page

\* A request that has arrived has its page, or an error.
LEMMA ArrivedPages ==
    ASSUME TypeOK, Results, NEW o \in Ops, ops[o].error = "none", ~ops[o].cancelled,
           ops[o].state \notin Waiting
    PROVE  /\ ops[o].page \in Nat /\ ops[o].items = Page(ops[o].page)
           /\ ops[o].items \in Seq(Nat) /\ Len(ops[o].items) \in Nat
           /\ Len(ops[o].items) = PageSize(ops[o].page)
<1>1. ops[o].page \in Nat
  BY DEF TypeOK, Op
<1>2. ops[o].items = Page(ops[o].page)
  BY DEF Results
<1>3. /\ Page(ops[o].page) \in Seq(Nat) /\ Len(Page(ops[o].page)) = PageSize(ops[o].page)
      /\ PageSize(ops[o].page) \in Nat
  BY <1>1, PageSeq
<1>. QED
  BY <1>1, <1>2, <1>3

LEMMA InOrderWork ==
    ASSUME TypeOK, Results, OneAtATime, NEW n \in 0 .. FullPages + 1, HoldsPages(n),
           NEW o \in Ops, Work(o), ~overtaken
    PROVE  \E m \in 0 .. FullPages + 1 : HoldsPages(m)'
<1>1. /\ \A k \in Ops \ {o} : ops'[k] = ops[k]
      /\ ops'[o].page = ops[o].page /\ ops'[o].cancelled = ops[o].cancelled
  BY WorkSteps
<1>2. Undelivered(o)
  BY WorkStates DEF Work, Undelivered
<1>3. \A k \in Ops \ {o} : ~Undelivered(k)
  BY <1>2 DEF OneAtATime
<1>4. \A k \in Ops \ {o} : ~Undelivered(k)' /\ ~Advanced(k) /\ ~Advanced(k)'
                           /\ ~Arriving(k) /\ ~Arriving(k)' /\ ~Appended(k)'
                           /\ ops'[k].state \notin Early
  BY <1>1, <1>3 DEF Undelivered, Advanced, Arriving, Appended, Early
<1>5. /\ AreFirstPages(n, items)
      /\ canFetchMore => IF Advanced(o) THEN cursor = n + 2 /\ n + 1 <= FullPages
                         ELSE cursor = n + 1 /\ n <= FullPages
      /\ ~ops[o].cancelled
      /\ ops[o].state \in Early => canFetchMore /\ ops[o].page = cursor
      /\ Advanced(o) => ops[o].error = "none" /\ ops[o].page = n + 1 /\ n <= FullPages
      /\ Arriving(o) \/ Appended(o) => ops[o].error = "none" /\ ops[o].page = n
      /\ Arriving(o) => photos \o ops[o].items = items
      /\ ~Arriving(o) => photos = items
  BY <1>2, <1>4 DEF HoldsPages
\* It is enough to look at this request.
<1>6. ASSUME NEW m,
             AreFirstPages(m, items'),
             canFetchMore' => IF Advanced(o)' THEN cursor' = m + 2 /\ m + 1 <= FullPages
                              ELSE cursor' = m + 1 /\ m <= FullPages,
             ops'[o].state \in Early => canFetchMore' /\ ops'[o].page = cursor',
             Advanced(o)' => ops'[o].error = "none" /\ ops'[o].page = m + 1 /\ m <= FullPages,
             Arriving(o)' \/ Appended(o)' => ops'[o].error = "none" /\ ops'[o].page = m,
             Arriving(o)' => photos' \o ops'[o].items = items',
             ~Arriving(o)' => photos' = items'
      PROVE  HoldsPages(m)'
  BY <1>1, <1>4, <1>5, <1>6 DEF HoldsPages, AreFirstPages
<1>7. CASE start(o) \/ main(o) \/ processResponse(o)
  <2>1. /\ UNCHANGED <<items, cursor, canFetchMore, photos>>
        /\ ops[o].state \in Early /\ ops'[o].state \in Early \cup {"unanswered"}
    BY <1>7, WorkStates DEF start, main, processResponse, source, view, Early
  <2>2. ~Advanced(o) /\ ~Arriving(o) /\ ~Advanced(o)' /\ ~Arriving(o)' /\ ~Appended(o)'
    BY <2>1 DEF Advanced, Arriving, Appended, Early
  <2>3. HoldsPages(n)'
    BY <1>1, <1>5, <1>6, <2>1, <2>2
  <2>. QED
    BY <2>3
<1>8. CASE advance(o)
  <2>1. /\ UNCHANGED <<items, photos>> /\ ops[o].state = "finished"
        /\ ops'[o].items = ops[o].items /\ ops'[o].error = ops[o].error
    BY <1>8, WorkStates, WorkItems DEF advance, view, Work
  <2>2. /\ ~Advanced(o) /\ ~Arriving(o)
        /\ canFetchMore /\ ops[o].page = n + 1 /\ n <= FullPages /\ cursor = n + 1 /\ photos = items
    BY <1>5, <2>1 DEF Advanced, Arriving, Early
  <2>3. CASE ops[o].error # "none"
    <3>1. ops'[o].state = "stored" /\ UNCHANGED <<cursor, canFetchMore>>
      BY <1>8, <2>3 DEF advance, TypeOK, Op
    <3>2. ~Advanced(o)' /\ ~Arriving(o)' /\ ~Appended(o)' /\ ops'[o].state \notin Early
      BY <2>1, <2>3, <3>1 DEF Advanced, Arriving, Appended, Early
    <3>3. HoldsPages(n)'
      BY <1>5, <1>6, <2>1, <2>2, <3>1, <3>2
    <3>. QED
      BY <3>3
  <2>4. CASE ops[o].error = "none"
    <3>1. /\ ops'[o].state = "advanced"
          /\ IF IsLastPage(o) THEN canFetchMore' = FALSE ELSE cursor' = n + 2
      <4>1. n \in Nat /\ NextPage(o) = n + 2
        BY <2>2, FeedConstants DEF NextPage
      <4>. QED
        BY <1>8, <2>4, <4>1 DEF advance, TypeOK, Op
    <3>2. ~IsLastPage(o) => n + 1 <= FullPages
      <4>1. Len(ops[o].items) = PageSize(n + 1)
        BY <1>5, <2>1, <2>2, <2>4, ArrivedPages DEF Waiting
      <4>. QED
        BY <4>1, <2>2, FeedConstants DEF IsLastPage, PageSize
    <3>3. Advanced(o)' /\ ~Arriving(o)' /\ ~Appended(o)' /\ ops'[o].state \notin Early
      BY <3>1 DEF Advanced, Arriving, Appended, Early
    <3>4. canFetchMore' => ~IsLastPage(o)
      BY <3>1
    <3>5. HoldsPages(n)'
      BY <1>1, <1>5, <1>6, <2>1, <2>2, <2>4, <3>1, <3>2, <3>3, <3>4
    <3>. QED
      BY <3>5
  <2>. QED
    BY <2>3, <2>4
<1>9. CASE store(o)
  <2>1. /\ UNCHANGED <<cursor, canFetchMore, photos>> /\ items' = items \o ops[o].items
        /\ ops[o].state = "advanced" /\ ops'[o].state = "stored"
        /\ ops'[o].items = ops[o].items /\ ops'[o].error = ops[o].error
    BY <1>9, WorkStates, WorkItems DEF store, view, Work
  <2>2. /\ Advanced(o) /\ ~Arriving(o) /\ ops[o].error = "none" /\ ops[o].page = n + 1 /\ n <= FullPages
        /\ photos = items
        /\ canFetchMore => cursor = n + 2 /\ n + 1 <= FullPages
    BY <1>5, <2>1 DEF Advanced, Arriving
  <2>3. ~Advanced(o)' /\ Arriving(o)' /\ ops'[o].state \notin Early
    BY <2>1, <2>2 DEF Advanced, Arriving, Early
  <2>4. n \in Nat /\ n + 1 \in 0 .. FullPages + 1 /\ (n + 1) + 1 = n + 2
    BY <2>2, FeedConstants
  <2>5. AreFirstPages(n + 1, items')
    <3>1. ops[o].items = Page(n + 1) /\ items \in Seq(Nat)
      BY <1>5, <2>1, <2>2, ArrivedPages DEF Waiting, TypeOK
    <3>. QED
      BY <1>5, <2>1, <2>2, <2>4, <3>1, NextOfPages
  <2>6. HoldsPages(n + 1)'
    BY <1>1, <1>6, <2>1, <2>2, <2>3, <2>4, <2>5
  <2>. QED
    BY <2>4, <2>6
<1>10. CASE deliver(o)
  <2>1. /\ UNCHANGED <<items, cursor, canFetchMore>> /\ ops[o].state = "stored"
        /\ ops'[o].state \in {"appended", "done"}
        /\ photos' = IF ops[o].error = "none" THEN photos \o ops[o].items ELSE photos
    BY <1>10, WorkStates DEF deliver, errorWhileFetching, source
  <2>2. ~Advanced(o) /\ ~Advanced(o)' /\ ~Arriving(o)' /\ ops'[o].state \notin Early
    BY <2>1 DEF Advanced, Arriving, Early
  <2>3. photos' = items
    BY <1>5, <2>1 DEF Arriving
  <2>4. Appended(o)' => ops'[o].error = "none" /\ ops'[o].page = n
    <3>1. CASE ops[o].error = "none"
      <4>1. Arriving(o) /\ ops'[o].error = ops[o].error
        BY <1>10, <2>1, <3>1, WorkItems, WorkStates DEF Arriving, Work
      <4>. QED
        BY <1>1, <1>5, <4>1
    <3>2. CASE ops[o].error # "none"
      <4>1. ops'[o].state = "done"
        BY <1>10, <3>2 DEF deliver, TypeOK, Op
      <4>. QED
        BY <4>1 DEF Appended
    <3>. QED
      BY <3>1, <3>2
  <2>5. HoldsPages(n)'
    BY <1>5, <1>6, <2>1, <2>2, <2>3, <2>4
  <2>. QED
    BY <2>5
<1>11. CASE updateWithResult(o)
  <2>1. /\ UNCHANGED <<items, cursor, canFetchMore, photos>>
        /\ ops[o].state = "appended" /\ ops'[o].state = "done"
    BY <1>11, WorkStates DEF updateWithResult, source
  <2>2. /\ ~Advanced(o) /\ ~Arriving(o) /\ ~Advanced(o)' /\ ~Arriving(o)' /\ ~Appended(o)'
        /\ ops'[o].state \notin Early
    BY <2>1 DEF Advanced, Arriving, Appended, Early
  <2>3. HoldsPages(n)'
    BY <1>5, <1>6, <2>1, <2>2
  <2>. QED
    BY <2>3
<1>. QED
  BY <1>7, <1>8, <1>9, <1>10, <1>11 DEF Work

\* A fetch that overtakes no other finds all requests delivered.
LEMMA FetchAlone ==
    ASSUME TypeOK, NEW requests, NEW current, NEW page \in Nat, beginFetch(requests, current, page),
           requests = ops \/ requests = [o \in Ops |-> Cancelled(ops[o])], ~overtaken'
    PROVE  /\ ~overtaken /\ \A k \in Ops : ~Undelivered(k)
           /\ \E o \in Ops : /\ ops'[o] = Request(page) /\ ~ops'[o].cancelled
                             /\ \A k \in Ops \ {o} : ~Undelivered(k)'
<1>1. ~overtaken /\ \A k \in Ops : ~Undelivered(k)
  BY DEF beginFetch, Overtakes
<1>2. PICK o \in Ops : ops'[o] = Request(page) /\ \A k \in Ops \ {o} : Kept(k)
  BY FetchStarts
<1>3. ~Request(page).cancelled
  BY DEF Request, Unused
<1>. QED
  BY <1>1, <1>2, <1>3 DEF Kept, Undelivered

LEMMA InOrderFetch ==
    ASSUME TypeOK, NEW requests, NEW current, NEW page \in Nat, beginFetch(requests, current, page),
           requests = ops \/ requests = [o \in Ops |-> Cancelled(ops[o])], ~overtaken',
           NEW n \in 0 .. FullPages, AreFirstPages(n, items'), canFetchMore' = TRUE,
           cursor' = n + 1, page = n + 1, photos' = items'
    PROVE  HoldsPages(n)'
<1>1. PICK o \in Ops : /\ ops'[o] = Request(page) /\ ~ops'[o].cancelled
                       /\ \A k \in Ops \ {o} : ~Undelivered(k)'
  BY FetchAlone
<1>2. ops'[o].state = "ready" /\ ops'[o].page = page
  BY <1>1, NewRequest
<1>3. \A k \in Ops : /\ ~Advanced(k)' /\ ~Arriving(k)' /\ ~Appended(k)'
                     /\ (ops'[k].state \in Early => k = o)
  BY <1>1, <1>2 DEF Undelivered, Advanced, Arriving, Appended, Early
<1>4. n <= FullPages
  BY FeedConstants
<1>. QED
  BY <1>1, <1>2, <1>3, <1>4 DEF HoldsPages, AreFirstPages

LEMMA InOrderNext ==
    ASSUME TypeOK, Results, OneAtATime, PagesInOrder, [Next]_vars
    PROVE  PagesInOrder'
<1>. USE DEF vars, source, view
<1>1. CASE UNCHANGED <<items, cursor, canFetchMore, ops, photos>> /\ (~overtaken' => ~overtaken)
  BY <1>1 DEF PagesInOrder, HoldsPages, AreFirstPages, Advanced, Arriving, Appended, Undelivered
<1>2. CASE refresh
  <2>1. ASSUME ~overtaken'
        PROVE  HoldsPages(0)'
    <3>1. /\ items' = <<>> /\ photos' = <<>> /\ canFetchMore' = TRUE /\ cursor' = 1
      BY <1>2 DEF refresh, reset
    <3>2. AreFirstPages(0, items') /\ 0 \in 0 .. FullPages
      BY <3>1, FeedConstants DEF AreFirstPages
    <3>3. beginFetch([o \in Ops |-> Cancelled(ops[o])], <<>>, 1)
      BY <1>2 DEF refresh
    <3>4. 1 \in Nat /\ 1 = 0 + 1
      OBVIOUS
    <3>. QED
      BY <2>1, <3>1, <3>2, <3>3, <3>4, InOrderFetch
  <2>2. 0 \in 0 .. FullPages + 1
    BY FeedConstants
  <2>. QED
    BY <2>1, <2>2 DEF PagesInOrder
<1>3. CASE beginFetch(ops, items, cursor) /\ canFetchMore /\ UNCHANGED <<items, cursor, canFetchMore, photos>>
  <2>1. ASSUME ~overtaken'
        PROVE  \E n \in 0 .. FullPages + 1 : HoldsPages(n)'
    <3>1. ~overtaken /\ \A k \in Ops : ~Undelivered(k)
      BY <1>3, <2>1, FetchAlone DEF TypeOK
    <3>2. PICK n \in 0 .. FullPages + 1 : HoldsPages(n)
      BY <3>1 DEF PagesInOrder
    <3>3. \A k \in Ops : ~Advanced(k) /\ ~Arriving(k)
      BY <3>1 DEF Undelivered, Advanced, Arriving
    <3>4. /\ AreFirstPages(n, items) /\ photos = items
          /\ cursor = n + 1 /\ n <= FullPages
      BY <1>3, <3>2, <3>3 DEF HoldsPages
    <3>5. n \in 0 .. FullPages /\ cursor \in Nat
      BY <3>4, FeedConstants DEF TypeOK
    <3>6. HoldsPages(n)'
      BY <1>3, <2>1, <3>4, <3>5, InOrderFetch
    <3>. QED
      BY <3>6
  <2>. QED
    BY <2>1 DEF PagesInOrder
<1>4. viewWillAppear => PagesInOrder'
  BY <1>1, <1>2 DEF viewWillAppear
<1>5. willDisplay => PagesInOrder'
  <2>1. Overtakes <=> overtaken \/ \E k \in Ops : Undelivered(k)
    BY DEF Overtakes
  <2>. QED
    BY <1>1, <1>3, <2>1 DEF willDisplay, errorWhileFetching
<1>6. leave \/ runBlock => PagesInOrder'
  BY <1>1 DEF leave, runBlock
<1>7. ASSUME NEW o \in Ops, Work(o)
      PROVE  PagesInOrder'
  <2>1. overtaken' = overtaken
    BY <1>7, WorkSteps
  <2>. QED
    BY <1>7, <2>1, InOrderWork DEF PagesInOrder
<1>. QED
  BY <1>1, <1>4, <1>5, <1>6, <1>7 DEF Next

LEMMA OrderInit == Init => OneAtATime /\ PagesInOrder
<1>1. Init => OneAtATime
  BY DEF Init, OneAtATime, Undelivered, Unfinished, Hangs, Unused
<1>2. Init => HoldsPages(0)
  BY FeedConstants DEF Init, HoldsPages, AreFirstPages, Undelivered, Advanced, Arriving, Appended,
        Early, Unused
<1>3. 0 \in 0 .. FullPages + 1
  BY FeedConstants
<1>. QED
  BY <1>1, <1>2, <1>3 DEF PagesInOrder

\* FeedInOrder: unless a fetch has overtaken another, the data source holds the
\* first pages of the feed in order and the view shows them, but for the page
\* that is being delivered.
THEOREM FeedStaysInOrder == Spec => []FeedInOrder
<1>1. Init => OneAtATime /\ PagesInOrder
  BY OrderInit
<1>2. TypeOK /\ Results /\ OneAtATime /\ PagesInOrder /\ [Next]_vars => OneAtATime' /\ PagesInOrder'
  BY OneAtATimeNext, InOrderNext
<1>3. PagesInOrder => FeedInOrder
  BY DEF PagesInOrder, HoldsPages, FeedInOrder, Arriving, Stored
<1>. QED
  BY <1>1, <1>2, <1>3, FeedTypes, RequestsBringTheirPage, PTL DEF Spec
----------------------------------------------------------------------------
(* The updates of the collection view *)

Quiet == \A o \in Ops : ~Undelivered(o)
EmptyFeed == photos = <<>> /\ FullPages = 0 /\ Remainder = 0

\* The blocks on the main queue that update the view, for new photos or none.
Updates(i) == mainQueue[i].kind \in {"insert", "reload"}
Grows(i) == Updates(i) /\ mainQueue[i].count > 0
Idles(i) == Updates(i) /\ mainQueue[i].count = 0

\* An update for new photos is the first one in the queue and the only such
\* one: every request is delivered and the view lacks just these photos.
GrowsOnce(i) ==
    /\ Quiet /\ shown + mainQueue[i].count = Len(photos)
    /\ mainQueue[i].count = PerPage \/ ~canFetchMore
    /\ \A j \in DOMAIN mainQueue : Updates(j) => i <= j /\ (Grows(j) => j = i)

\* An update for none comes of a feed with no photos, or after its end.
IdlesAtEnd == EmptyFeed \/ (Quiet /\ ~canFetchMore /\ photos # <<>>)

UpdatesAgree ==
    ~overtaken =>
        /\ \A i \in DOMAIN mainQueue : /\ Grows(i) => GrowsOnce(i)
                                       /\ Idles(i) => IdlesAtEnd
        /\ \A o \in Ops : Appended(o) => shown + Len(ops[o].items) = Len(photos)
        /\ \/ \E o \in Ops : Appended(o)
           \/ \E i \in DOMAIN mainQueue : Grows(i)
           \/ shown = Len(photos)

LEMMA Lengths ==
    ASSUME TypeOK
    PROVE  /\ Len(photos) \in Nat /\ shown \in Nat /\ Len(mainQueue) \in Nat
           /\ DOMAIN mainQueue = 1 .. Len(mainQueue)
           /\ \A i \in DOMAIN mainQueue : mainQueue[i].count \in Nat
           /\ photos = <<>> <=> Len(photos) = 0
           /\ \A o \in Ops : ops[o].items \in Seq(Nat) /\ Len(ops[o].items) \in Nat
<1>1. photos \in Seq(Nat) /\ mainQueue \in Seq(Block) /\ shown \in Nat
  BY DEF TypeOK
<1>2. \A i \in DOMAIN mainQueue : mainQueue[i] \in Block
  BY <1>1
<1>3. \A o \in Ops : ops[o].items \in Seq(Nat)
  BY DEF TypeOK, Op
<1>. QED
  BY <1>1, <1>2, <1>3 DEF Block

\* The queue after a block is posted.
LEMMA Posted ==
    ASSUME TypeOK, NEW b, mainQueue' = Append(mainQueue, b)
    PROVE  /\ DOMAIN mainQueue' = DOMAIN mainQueue \cup {Len(mainQueue) + 1}
           /\ \A i \in DOMAIN mainQueue : mainQueue'[i] = mainQueue[i] /\ i < Len(mainQueue) + 1
           /\ mainQueue'[Len(mainQueue) + 1] = b
<1>1. mainQueue \in Seq(Block)
  BY DEF TypeOK
<1>. QED
  BY <1>1

\* While no update is lacking, the view shows as many photos as there are.
LEMMA NothingLacking ==
    ASSUME TypeOK, UpdatesAgree, ~overtaken
    PROVE  photos = <<>> => shown = 0 /\ \A i \in DOMAIN mainQueue : ~Grows(i)
<1>. SUFFICES ASSUME photos = <<>>
              PROVE  shown = 0 /\ \A i \in DOMAIN mainQueue : ~Grows(i)
  OBVIOUS
<1>1. Len(photos) = 0 /\ shown \in Nat
  BY Lengths
<1>2. ASSUME NEW i \in DOMAIN mainQueue, Grows(i)
      PROVE  FALSE
  <2>1. shown + mainQueue[i].count = 0 /\ mainQueue[i].count > 0
    BY <1>1, <1>2 DEF UpdatesAgree, GrowsOnce, Grows
  <2>2. mainQueue[i].count \in Nat
    BY Lengths
  <2>. QED
    BY <1>1, <2>1, <2>2
<1>3. shown = 0
  <2>1. CASE \E o \in Ops : Appended(o)
    <3>1. PICK o \in Ops : shown + Len(ops[o].items) = 0
      BY <1>1, <2>1 DEF UpdatesAgree
    <3>2. Len(ops[o].items) \in Nat
      BY Lengths
    <3>. QED
      BY <1>1, <3>1, <3>2
  <2>2. CASE ~\E o \in Ops : Appended(o)
    BY <1>1, <1>2, <2>2 DEF UpdatesAgree
  <2>. QED
    BY <2>1, <2>2
<1>. QED
  BY <1>2, <1>3

\* A step that posts at most a block that is no update, and leaves the rest.
LEMMA UpdatesKept ==
    ASSUME TypeOK, UpdatesAgree, UNCHANGED <<photos, shown>>, ~overtaken' => ~overtaken,
           \/ UNCHANGED mainQueue
           \/ mainQueue' \in {Append(mainQueue, SpinBlock), Append(mainQueue, StopBlock)},
           canFetchMore' => canFetchMore, ~overtaken' /\ Quiet => Quiet',
           \A o \in Ops : Appended(o)' = Appended(o) /\ (Appended(o) => ops'[o].items = ops[o].items)
    PROVE  UpdatesAgree'
<1>. SUFFICES ASSUME ~overtaken'
              PROVE  UpdatesAgree'
  BY DEF UpdatesAgree
<1>1. \A i \in DOMAIN mainQueue : i \in DOMAIN mainQueue' /\ mainQueue'[i] = mainQueue[i]
  BY Posted
<1>2. \A i \in DOMAIN mainQueue' : Updates(i)' => i \in DOMAIN mainQueue
  BY Posted, Blocks DEF Updates
<1>3. \A i \in DOMAIN mainQueue :
        /\ Updates(i)' <=> Updates(i)
        /\ Grows(i)' <=> Grows(i)
        /\ Idles(i)' <=> Idles(i)
  BY <1>1 DEF Updates, Grows, Idles
<1>4. \A i \in DOMAIN mainQueue' : (Grows(i)' \/ Idles(i)') => Updates(i)'
  BY DEF Grows, Idles
<1>5. \A i \in DOMAIN mainQueue : Grows(i) => GrowsOnce(i)'
  BY <1>1, <1>2, <1>3, <1>4 DEF UpdatesAgree, GrowsOnce
<1>6. IdlesAtEnd => IdlesAtEnd'
  BY DEF IdlesAtEnd, EmptyFeed
<1>7. \A i \in DOMAIN mainQueue' : (Grows(i)' => GrowsOnce(i)') /\ (Idles(i)' => IdlesAtEnd')
  BY <1>2, <1>3, <1>4, <1>5, <1>6 DEF UpdatesAgree
<1>8. \A o \in Ops : Appended(o)' => shown' + Len(ops'[o].items) = Len(photos')
  BY DEF UpdatesAgree
<1>9. \/ \E o \in Ops : Appended(o)'
      \/ \E i \in DOMAIN mainQueue' : Grows(i)'
      \/ shown' = Len(photos')
  BY <1>1, <1>3 DEF UpdatesAgree
<1>. QED
  BY <1>7, <1>8, <1>9 DEF UpdatesAgree

\* A fetch that overtakes no other finds the view up to date, and adds at most
\* a spinner to the queue.
LEMMA UpdatesFetch ==
    ASSUME TypeOK, NEW requests, NEW current, NEW page \in Nat, beginFetch(requests, current, page),
           requests = ops \/ requests = [o \in Ops |-> Cancelled(ops[o])], ~overtaken',
           UNCHANGED photos, shown' = Len(photos),
           \A i \in DOMAIN mainQueue : Updates(i) => EmptyFeed /\ ~Grows(i)
    PROVE  UpdatesAgree'
<1>1. UNCHANGED mainQueue \/ mainQueue' = Append(mainQueue, SpinBlock)
  BY DEF beginFetch, willStartFetching
<1>2. \A i \in DOMAIN mainQueue' :
         Updates(i)' => i \in DOMAIN mainQueue /\ mainQueue'[i] = mainQueue[i]
  BY <1>1, Posted, Blocks DEF Updates
<1>3. ASSUME NEW i \in DOMAIN mainQueue', Updates(i)'
      PROVE  ~Grows(i)' /\ IdlesAtEnd'
  <2>1. i \in DOMAIN mainQueue /\ mainQueue'[i] = mainQueue[i]
    BY <1>2, <1>3
  <2>2. Updates(i)
    BY <1>3, <2>1 DEF Updates
  <2>. QED
    BY <2>1, <2>2 DEF Updates, Grows, IdlesAtEnd, EmptyFeed
<1>4. \A k \in Ops : ~Appended(k)'
  <2>1. PICK o \in Ops : ops'[o] = Request(page) /\ \A k \in Ops \ {o} : ~Undelivered(k)'
    BY FetchAlone
  <2>. QED
    BY <2>1, NewRequest DEF Appended, Undelivered
<1>. QED
  BY <1>3, <1>4 DEF UpdatesAgree, Grows, Idles

LEMMA UpdatesRun ==
    ASSUME TypeOK, UpdatesAgree, runBlock
    PROVE  UpdatesAgree'
<1>. USE DEF source
<1>0. SUFFICES ASSUME ~overtaken
               PROVE  UpdatesAgree'
  BY DEF UpdatesAgree, runBlock
<1>1. /\ UNCHANGED <<ops, photos, canFetchMore>> /\ mainQueue # <<>> /\ mainQueue' = Tail(mainQueue)
      /\ shown' = IF Updates(1) THEN Len(photos) ELSE shown
  BY DEF runBlock, Updates
<1>2. mainQueue \in Seq(Block) /\ 1 \in DOMAIN mainQueue
  BY <1>1 DEF TypeOK
<1>3. \A i \in DOMAIN mainQueue' : i \in Nat \ {0} /\ i + 1 \in DOMAIN mainQueue /\ mainQueue'[i] = mainQueue[i + 1]
  BY <1>1, <1>2
<1>4. \A i \in DOMAIN mainQueue : i = 1 \/ (i - 1 \in DOMAIN mainQueue' /\ (i - 1) + 1 = i)
  BY <1>1, <1>2
<1>5. \A i \in DOMAIN mainQueue' :
         /\ Updates(i)' <=> Updates(i + 1)
         /\ Grows(i)' <=> Grows(i + 1)
         /\ Idles(i)' <=> Idles(i + 1)
  BY <1>3 DEF Updates, Grows, Idles
<1>6. \A o \in Ops : Appended(o)' <=> Appended(o)
  BY <1>1 DEF Appended
<1>7. Quiet' <=> Quiet
  BY <1>1 DEF Quiet, Undelivered
<1>8. ASSUME NEW i \in DOMAIN mainQueue', Idles(i)'
      PROVE  IdlesAtEnd'
  BY <1>0, <1>1, <1>3, <1>5, <1>7, <1>8 DEF UpdatesAgree, IdlesAtEnd, EmptyFeed
\* Behind an update no other waits for new photos, and none of a request whose
\* photos the view already has.
<1>9. CASE Updates(1)
  <2>1. \A i \in DOMAIN mainQueue' : ~Grows(i)'
    <3>1. ASSUME NEW i \in DOMAIN mainQueue', Grows(i)'
          PROVE  FALSE
      <4>1. i \in Nat \ {0} /\ i + 1 \in DOMAIN mainQueue /\ GrowsOnce(i + 1)
        BY <1>0, <1>3, <1>5, <3>1 DEF UpdatesAgree
      <4>2. i + 1 <= 1
        BY <1>2, <1>9, <4>1 DEF GrowsOnce
      <4>. QED
        BY <4>1, <4>2
    <3>. QED
      BY <3>1
  <2>2. ASSUME NEW o \in Ops, Appended(o)
        PROVE  Len(photos) + Len(ops[o].items) = Len(photos)
    <3>1. ~Quiet
      BY <2>2 DEF Quiet, Appended, Undelivered
    <3>2. Grows(1) \/ Idles(1)
      BY <1>2, <1>9, Lengths DEF Grows, Idles
    <3>3. photos = <<>>
      BY <1>0, <1>2, <3>1, <3>2 DEF UpdatesAgree, GrowsOnce, IdlesAtEnd, EmptyFeed
    <3>4. shown = 0
      BY <1>0, <3>3, NothingLacking
    <3>. QED
      BY <1>0, <2>2, <3>3, <3>4, Lengths DEF UpdatesAgree
  <2>. QED
    BY <1>0, <1>1, <1>6, <1>8, <1>9, <2>1, <2>2 DEF UpdatesAgree
<1>10. CASE ~Updates(1)
  <2>1. ASSUME NEW i \in DOMAIN mainQueue', Grows(i)'
        PROVE  GrowsOnce(i)'
    <3>1. i \in Nat \ {0} /\ i + 1 \in DOMAIN mainQueue /\ mainQueue'[i] = mainQueue[i + 1] /\ GrowsOnce(i + 1)
      BY <1>0, <1>3, <1>5, <2>1 DEF UpdatesAgree
    <3>2. ASSUME NEW j \in DOMAIN mainQueue', Updates(j)'
          PROVE  i <= j /\ (Grows(j)' => j = i)
      <4>1. j \in Nat \ {0} /\ j + 1 \in DOMAIN mainQueue /\ Updates(j + 1)
        BY <1>3, <1>5, <3>2
      <4>2. i + 1 <= j + 1 /\ (Grows(j + 1) => j + 1 = i + 1)
        BY <3>1, <4>1 DEF GrowsOnce
      <4>. QED
        BY <1>5, <3>1, <4>1, <4>2
    <3>. QED
      BY <1>1, <1>7, <1>10, <3>1, <3>2 DEF GrowsOnce
  <2>2. (\E i \in DOMAIN mainQueue : Grows(i)) => \E i \in DOMAIN mainQueue' : Grows(i)'
    <3>1. ASSUME NEW i \in DOMAIN mainQueue, Grows(i)
          PROVE  \E j \in DOMAIN mainQueue' : Grows(j)'
      <4>1. i - 1 \in DOMAIN mainQueue' /\ (i - 1) + 1 = i
        BY <1>4, <1>10, <3>1 DEF Grows
      <4>. QED
        BY <1>5, <3>1, <4>1
    <3>. QED
      BY <3>1
  <2>. QED
    BY <1>0, <1>1, <1>6, <1>8, <1>10, <2>1, <2>2 DEF UpdatesAgree
<1>. QED
  BY <1>9, <1>10

\* What a request with no error brings is a full page, unless it ended the feed;
\* it brings nothing for no photos only if the server has none.
LEMMA ShortPages ==
    ASSUME TypeOK, Results, OneAtATime, PagesInOrder, ~overtaken, NEW o \in Ops, Appended(o)
    PROVE  /\ Len(ops[o].items) = PerPage \/ ~canFetchMore
           /\ photos = <<>> /\ Len(ops[o].items) = 0 => EmptyFeed
<1>1. PICK n \in 0 .. FullPages + 1 : HoldsPages(n)
  BY DEF PagesInOrder
<1>2. ~ops[o].cancelled /\ ops[o].error = "none" /\ ops[o].page = n
  BY <1>1 DEF HoldsPages, Appended, Undelivered
<1>3. Len(ops[o].items) = PageSize(n)
  BY <1>2, ArrivedPages DEF Appended, Waiting
<1>4. canFetchMore => n <= FullPages
  <2>1. n \in Nat /\ (n + 1 <= FullPages => n <= FullPages)
    BY FeedConstants
  <2>. QED
    BY <1>1, <2>1 DEF HoldsPages
<1>5. ASSUME photos = <<>>, Len(ops[o].items) = 0
      PROVE  EmptyFeed
  <2>1. n = FullPages + 1 /\ Remainder = 0
    BY <1>3, <1>5, FeedConstants DEF PageSize
  <2>2. \A k \in Ops : ~Arriving(k)
    BY DEF OneAtATime, Undelivered, Appended, Arriving
  <2>3. AreFirstPages(n, <<>>)
    BY <1>1, <1>5, <2>2 DEF HoldsPages
  <2>4. 0 = FullPages * PerPage + Remainder
    BY <2>1, <2>3, FeedConstants DEF AreFirstPages
  <2>5. FullPages \in Nat /\ PerPage \in Nat \ {0}
    BY FeedConstants
  <2>6. FullPages = 0
    BY <2>1, <2>4, <2>5
  <2>. QED
    BY <1>5, <2>1, <2>6 DEF EmptyFeed
<1>6. Len(ops[o].items) = PerPage \/ ~canFetchMore
  BY <1>3, <1>4 DEF PageSize
<1>. QED
  BY <1>5, <1>6

LEMMA UpdatesDeliver ==
    ASSUME TypeOK, Results, OneAtATime, PagesInOrder, UpdatesAgree, ~overtaken,
           NEW o \in Ops, deliver(o), ops[o].error = "none"
    PROVE  UpdatesAgree'
<1>. USE DEF source
<1>1. /\ UNCHANGED <<shown, mainQueue, canFetchMore>> /\ photos' = photos \o ops[o].items
      /\ ops[o].state = "stored" /\ ops'[o].state = "appended" /\ ops'[o].items = ops[o].items
      /\ \A k \in Ops \ {o} : ops'[k] = ops[k]
  <2>1. ops'[o].state = "appended"
    BY DEF deliver, TypeOK, Op
  <2>. QED
    BY <2>1, WorkItems, WorkSteps, WorkStates DEF deliver, Work
<1>2. ~Quiet /\ \A k \in Ops : ~Appended(k)
  BY <1>1 DEF Quiet, OneAtATime, Undelivered, Appended
<1>3. (\A i \in DOMAIN mainQueue : ~Grows(i)) /\ shown = Len(photos)
  BY <1>2 DEF UpdatesAgree, GrowsOnce
<1>4. EmptyFeed => photos' = <<>>
  <2>1. SUFFICES ASSUME EmptyFeed
                 PROVE  photos' = <<>>
    OBVIOUS
  <2>2. PICK n \in 0 .. FullPages + 1 : HoldsPages(n)
    BY DEF PagesInOrder
  <2>3. Arriving(o)
    BY <1>1 DEF Arriving
  <2>4. photos' = items /\ AreFirstPages(n, items)
    BY <1>1, <2>2, <2>3 DEF HoldsPages
  <2>5. FullPages = 0 /\ Remainder = 0 /\ n \in 0 .. 1 /\ PerPage \in Nat
    BY <2>1, <2>2, FeedConstants DEF EmptyFeed
  <2>6. Len(items) = 0
    BY <2>4, <2>5 DEF AreFirstPages
  <2>. QED
    BY <2>4, <2>6 DEF TypeOK
<1>5. ASSUME NEW i \in DOMAIN mainQueue', Updates(i)'
      PROVE  ~Grows(i)' /\ (Idles(i)' => IdlesAtEnd')
  <2>1. i \in DOMAIN mainQueue /\ ~Grows(i)' /\ (Idles(i)' => Idles(i))
    BY <1>1, <1>3, <1>5 DEF Grows, Idles, Updates
  <2>2. Idles(i) => EmptyFeed
    BY <1>2, <2>1 DEF UpdatesAgree, IdlesAtEnd
  <2>. QED
    BY <1>4, <2>1, <2>2 DEF IdlesAtEnd, EmptyFeed
<1>6. ASSUME NEW k \in Ops, Appended(k)'
      PROVE  shown' + Len(ops'[k].items) = Len(photos')
  <2>1. k = o
    BY <1>1, <1>2, <1>6 DEF Appended
  <2>2. Len(photos \o ops[o].items) = Len(photos) + Len(ops[o].items)
    BY Lengths DEF TypeOK
  <2>. QED
    BY <1>1, <1>3, <2>1, <2>2
<1>7. Appended(o)'
  BY <1>1 DEF Appended
<1>. QED
  BY <1>5, <1>6, <1>7 DEF UpdatesAgree, Grows, Idles

\* The update for the photos of a request comes when it is the only one under
\* way, so that it is right if no other update is waiting.
LEMMA UpdatesPost ==
    ASSUME TypeOK, Results, OneAtATime, PagesInOrder, UpdatesAgree, ~overtaken,
           NEW o \in Ops, updateWithResult(o)
    PROVE  UpdatesAgree'
<1>. USE DEF source
<1>0. PICK last \in Nat, b \in Block :
         last = Len(mainQueue) + 1 /\ b = UpdateBlock(ops[o].items, ops[o].needInsert)
  <2>1. UpdateBlock(ops[o].items, ops[o].needInsert) \in Block /\ Len(mainQueue) + 1 \in Nat
    BY Blocks, Lengths DEF TypeOK, Op
  <2>. QED
    BY <2>1
<1>1. /\ UNCHANGED <<shown, photos, canFetchMore>> /\ mainQueue' = Append(mainQueue, b)
      /\ Appended(o) /\ ops'[o].state = "done" /\ \A k \in Ops \ {o} : ops'[k] = ops[k]
  BY <1>0, WorkSteps, WorkStates DEF updateWithResult, Work, Appended
<1>2. ~Quiet /\ Quiet' /\ \A k \in Ops : ~Appended(k)'
  BY <1>1 DEF Quiet, OneAtATime, Undelivered, Appended
<1>3. \A i \in DOMAIN mainQueue : ~Grows(i) /\ (Idles(i) => EmptyFeed)
  BY <1>2 DEF UpdatesAgree, GrowsOnce, IdlesAtEnd
<1>4. \A i \in DOMAIN mainQueue' :
         \/ i = last /\ mainQueue'[i] = b
         \/ i # last /\ i \in DOMAIN mainQueue /\ mainQueue'[i] = mainQueue[i]
  BY <1>0, <1>1, Posted
<1>5. b.kind \in {"insert", "reload"} /\ b.count = Len(ops[o].items) /\ last \in DOMAIN mainQueue'
  BY <1>0, <1>1, Posted DEF UpdateBlock
<1>6. shown + b.count = Len(photos) /\ b.count \in Nat
  BY <1>1, <1>5, Lengths DEF UpdatesAgree
<1>7. /\ b.count = PerPage \/ ~canFetchMore
      /\ photos = <<>> /\ b.count = 0 => EmptyFeed
  BY <1>1, <1>5, ShortPages
<1>8. ASSUME NEW i \in DOMAIN mainQueue', i # last, Updates(i)'
      PROVE  ~Grows(i)' /\ Idles(i)' /\ EmptyFeed
  <2>1. i \in DOMAIN mainQueue /\ mainQueue'[i] = mainQueue[i] /\ mainQueue[i].count \in Nat
    BY <1>4, <1>8, Lengths
  <2>. QED
    BY <1>3, <1>8, <2>1 DEF Updates, Grows, Idles
<1>9. EmptyFeed => EmptyFeed'
  BY <1>1 DEF EmptyFeed
<1>10. CASE b.count = 0
  <2>1. ~canFetchMore
    BY <1>7, <1>10, FeedConstants
  <2>2. IdlesAtEnd'
    BY <1>1, <1>2, <1>7, <1>9, <1>10, <2>1 DEF IdlesAtEnd
  <2>3. \A i \in DOMAIN mainQueue' : ~Grows(i)'
    BY <1>4, <1>8, <1>10 DEF Grows
  <2>4. shown' = Len(photos')
    BY <1>1, <1>6, <1>10, Lengths
  <2>. QED
    BY <1>2, <2>2, <2>3, <2>4 DEF UpdatesAgree
<1>11. CASE b.count > 0
  <2>1. ~EmptyFeed
    BY <1>6, <1>11, Lengths DEF EmptyFeed
  <2>2. \A i \in DOMAIN mainQueue' : Updates(i)' => i = last
    BY <1>8, <2>1
  <2>3. Grows(last)'
    BY <1>4, <1>5, <1>11 DEF Grows, Updates
  <2>4. \A j \in DOMAIN mainQueue' : Updates(j)' => last <= j /\ (Grows(j)' => j = last)
    BY <2>2, <2>3
  <2>5. GrowsOnce(last)'
    BY <1>1, <1>2, <1>4, <1>5, <1>6, <1>7, <2>4 DEF GrowsOnce
  <2>6. \A i \in DOMAIN mainQueue' : (Grows(i)' => GrowsOnce(i)') /\ ~Idles(i)'
    BY <1>4, <1>11, <2>2, <2>5 DEF Grows, Idles
  <2>. QED
    BY <1>2, <1>5, <2>3, <2>6 DEF UpdatesAgree
<1>. QED
  BY <1>6, <1>10, <1>11

\* A cell displayed after the end of the feed posts an update for no photos.
LEMMA UpdatesEnd ==
    ASSUME TypeOK, UpdatesAgree, ~overtaken, Quiet, ~canFetchMore, photos # <<>>,
           UNCHANGED <<ops, photos, shown, canFetchMore>>,
           NEW needInsert \in BOOLEAN, mainQueue' = Append(mainQueue, UpdateBlock(<<>>, needInsert))
    PROVE  UpdatesAgree'
<1>0. PICK last \in Nat, b \in Block : last = Len(mainQueue) + 1 /\ b = UpdateBlock(<<>>, needInsert)
  <2>1. <<>> \in Seq(Nat) /\ Len(mainQueue) + 1 \in Nat
    BY Lengths
  <2>. QED
    BY <2>1, Blocks
<1>1. b.count = 0
  BY <1>0 DEF UpdateBlock
<1>2. /\ DOMAIN mainQueue' = DOMAIN mainQueue \cup {last} /\ mainQueue'[last] = b
      /\ \A i \in DOMAIN mainQueue : mainQueue'[i] = mainQueue[i] /\ i <= last
  <2>1. \A i \in DOMAIN mainQueue : i < last => i <= last
    BY <1>0, Lengths
  <2>. QED
    BY <1>0, <2>1, Posted
<1>3. Quiet' /\ IdlesAtEnd' /\ \A o \in Ops : ~Appended(o) /\ ~Appended(o)'
  BY DEF Quiet, Undelivered, IdlesAtEnd, Appended
<1>4. \A i \in DOMAIN mainQueue : (Grows(i)' <=> Grows(i)) /\ (Updates(i)' <=> Updates(i))
  BY <1>2 DEF Grows, Updates
<1>5. ~Grows(last)'
  BY <1>1, <1>2 DEF Grows
<1>6. ASSUME NEW i \in DOMAIN mainQueue', Grows(i)'
      PROVE  GrowsOnce(i)'
  <2>1. i \in DOMAIN mainQueue /\ Grows(i)
    BY <1>2, <1>4, <1>5, <1>6
  <2>2. GrowsOnce(i)
    BY <2>1 DEF UpdatesAgree
  <2>3. ASSUME NEW j \in DOMAIN mainQueue', Updates(j)'
        PROVE  i <= j /\ (Grows(j)' => j = i)
    <3>1. CASE j = last
      BY <1>2, <1>5, <2>1, <3>1
    <3>2. CASE j # last
      BY <1>2, <1>4, <2>2, <2>3, <3>2 DEF GrowsOnce
    <3>. QED
      BY <3>1, <3>2
  <2>4. mainQueue'[i] = mainQueue[i]
    BY <1>2, <2>1
  <2>. QED
    BY <1>3, <2>2, <2>3, <2>4 DEF GrowsOnce
<1>7. (\E i \in DOMAIN mainQueue' : Grows(i)') \/ shown' = Len(photos')
  BY <1>2, <1>3, <1>4 DEF UpdatesAgree
<1>. QED
  BY <1>3, <1>6, <1>7 DEF UpdatesAgree

LEMMA UpdatesDisplay ==
    ASSUME TypeOK, UpdatesAgree, willDisplay
    PROVE  UpdatesAgree'
<1>. USE DEF source
<1>. SUFFICES ASSUME ~overtaken'
              PROVE  UpdatesAgree'
  BY DEF UpdatesAgree
<1>0. Overtakes <=> overtaken \/ ~Quiet
  BY DEF Overtakes, Quiet
<1>1. CASE errorWhileFetching("serverError") /\ UNCHANGED <<source, ops, overtaken>>
  BY <1>1, UpdatesKept DEF errorWhileFetching, Quiet, Undelivered, Appended
<1>2. Prefetch \in Nat \ {0} /\ Prefetch <= PerPage /\ PerPage \in Nat
  BY FeedConstants
<1>3. Len(photos) >= Prefetch /\ Len(photos) - Prefetch < shown
  BY DEF willDisplay
<1>4. photos # <<>>
  BY <1>2, <1>3
<1>5. CASE /\ ~canFetchMore /\ mainQueue' = Append(mainQueue, UpdateBlock(<<>>, photos # <<>>))
           /\ overtaken' = Overtakes /\ UNCHANGED <<source, ops, photos, shown, spinner, emptyView>>
  <2>1. (photos # <<>>) \in BOOLEAN
    OBVIOUS
  <2>. QED
    BY <1>0, <1>4, <1>5, <2>1, UpdatesEnd
<1>6. CASE /\ canFetchMore /\ beginFetch(ops, items, cursor)
           /\ UNCHANGED <<items, cursor, canFetchMore, photos, shown, spinner, emptyView>>
  <2>1. ~overtaken /\ \A k \in Ops : ~Undelivered(k) /\ ~Appended(k)
    BY <1>6, FetchAlone DEF TypeOK, Undelivered, Appended
  \* Not while the view lacks a page: the cell was not displayed then.
  <2>2. ASSUME NEW i \in DOMAIN mainQueue, Grows(i)
        PROVE  FALSE
    <3>1. shown + mainQueue[i].count = Len(photos) /\ mainQueue[i].count = PerPage
      BY <1>6, <2>1, <2>2 DEF UpdatesAgree, GrowsOnce
    <3>. DEFINE length == Len(photos)
    <3>2. length \in Nat /\ shown \in Nat
      BY Lengths
    <3>3. length >= Prefetch /\ length - Prefetch < shown /\ shown + PerPage = length
      BY <1>3, <3>1
    <3>. HIDE DEF length
    <3>. QED
      BY <1>2, <3>2, <3>3
  <2>3. ASSUME NEW i \in DOMAIN mainQueue, Updates(i)
        PROVE  FALSE
    <3>1. Idles(i)
      BY <2>2, <2>3, Lengths DEF Grows, Idles
    <3>. QED
      BY <1>4, <1>6, <2>1, <3>1 DEF UpdatesAgree, IdlesAtEnd, EmptyFeed
  <2>4. shown' = Len(photos)
    BY <1>6, <2>1, <2>2 DEF UpdatesAgree
  <2>5. cursor \in Nat
    BY DEF TypeOK
  <2>. QED
    BY <1>6, <2>3, <2>4, <2>5, UpdatesFetch
<1>. QED
  BY <1>1, <1>5, <1>6 DEF willDisplay

LEMMA UpdatesAppear ==
    ASSUME TypeOK, UpdatesAgree, refresh
    PROVE  UpdatesAgree'
<1>. SUFFICES ASSUME ~overtaken'
              PROVE  UpdatesAgree'
  BY DEF UpdatesAgree
<1>1. photos = <<>> /\ UNCHANGED photos /\ shown' = 0
  BY DEF refresh
<1>2. beginFetch([o \in Ops |-> Cancelled(ops[o])], <<>>, 1)
  BY DEF refresh
<1>3. ~overtaken
  BY <1>2, FetchAlone
<1>4. \A i \in DOMAIN mainQueue : ~Grows(i)
  BY <1>1, <1>3, NothingLacking
<1>5. \A i \in DOMAIN mainQueue : Updates(i) => EmptyFeed
  BY <1>1, <1>3, <1>4, Lengths DEF UpdatesAgree, Grows, Idles, IdlesAtEnd, EmptyFeed
<1>6. shown' = Len(photos)
  BY <1>1
<1>. QED
  BY <1>1, <1>2, <1>4, <1>5, <1>6, UpdatesFetch

LEMMA UpdatesNext ==
    ASSUME TypeOK, Results, OneAtATime, PagesInOrder, UpdatesAgree, [Next]_vars
    PROVE  UpdatesAgree'
<1>. USE DEF vars, source, view
<1>1. CASE UNCHANGED <<canFetchMore, ops, photos, shown, mainQueue, overtaken>>
  BY <1>1, UpdatesKept DEF Quiet, Undelivered, Appended
<1>2. viewWillAppear => UpdatesAgree'
  BY <1>1, UpdatesAppear DEF viewWillAppear
<1>3. ASSUME NEW o \in Ops, Work(o)
      PROVE  UpdatesAgree'
  <2>0. SUFFICES ASSUME ~overtaken'
                 PROVE  UpdatesAgree'
    BY DEF UpdatesAgree
  <2>1. overtaken' = overtaken /\ \A k \in Ops \ {o} : ops'[k] = ops[k]
    BY <1>3, WorkSteps
  <2>2. ~overtaken /\ ~Quiet
    BY <1>3, <2>0, <2>1, WorkStates DEF Work, Quiet, Undelivered
  <2>3. CASE ~Appended(o) /\ ~Appended(o)' /\ UNCHANGED <<photos, shown>> /\ (canFetchMore' => canFetchMore)
             /\ (UNCHANGED mainQueue \/ mainQueue' = Append(mainQueue, StopBlock))
    <3>1. \A k \in Ops : Appended(k)' = Appended(k) /\ (Appended(k) => ops'[k].items = ops[k].items)
      BY <2>1, <2>3 DEF Appended
    <3>. QED
      BY <2>2, <2>3, <3>1, UpdatesKept
  <2>4. CASE start(o) \/ main(o) \/ processResponse(o) \/ advance(o) \/ store(o)
    <3>1. ~Appended(o) /\ ~Appended(o)'
      BY <2>4, WorkStates DEF Appended
    <3>. QED
      BY <2>3, <2>4, <3>1 DEF start, main, processResponse, advance, store
  <2>5. CASE deliver(o) /\ ops[o].error # "none"
    <3>1. ~Appended(o) /\ ~Appended(o)'
      BY <2>5 DEF deliver, Appended, TypeOK, Op
    <3>. QED
      BY <2>3, <2>5, <3>1 DEF deliver, errorWhileFetching
  <2>. QED
    BY <1>3, <2>2, <2>4, <2>5, UpdatesDeliver, UpdatesPost DEF Work
<1>. QED
  BY <1>1, <1>2, <1>3, UpdatesDisplay, UpdatesRun DEF Next, leave

\* InsertIsConsistent: unless a fetch has overtaken another, the items that an
\* insertion brings and those the collection view knows are all the photos.
THEOREM InsertionsAreConsistent == Spec => []InsertIsConsistent
<1>1. Init => OneAtATime /\ PagesInOrder /\ UpdatesAgree
  <2>1. Init => UpdatesAgree
    BY DEF Init, UpdatesAgree, Appended, Unused
  <2>. QED
    BY <2>1, OrderInit
<1>2. TypeOK /\ Results /\ OneAtATime /\ PagesInOrder /\ UpdatesAgree /\ [Next]_vars
         => OneAtATime' /\ PagesInOrder' /\ UpdatesAgree'
  BY OneAtATimeNext, InOrderNext, UpdatesNext
<1>3. TypeOK /\ UpdatesAgree => InsertIsConsistent
  <2>1. SUFFICES ASSUME TypeOK, UpdatesAgree, ~overtaken, mainQueue # <<>>,
                        Head(mainQueue).kind = "insert"
                 PROVE  shown + Head(mainQueue).count = Len(photos)
    BY DEF InsertIsConsistent
  <2>2. mainQueue[1] = Head(mainQueue) /\ 1 \in DOMAIN mainQueue /\ mainQueue[1].count \in Nat
    BY <2>1, Lengths DEF TypeOK
  <2>3. CASE Grows(1)
    BY <2>1, <2>2, <2>3 DEF UpdatesAgree, GrowsOnce
  <2>4. CASE Idles(1)
    <3>1. mainQueue[1].count = 0
      BY <2>4 DEF Idles
    <3>2. shown = Len(photos)
      <4>1. CASE EmptyFeed
        BY <2>1, <4>1, NothingLacking, Lengths DEF EmptyFeed
      <4>2. CASE Quiet
        <5>1. \A i \in DOMAIN mainQueue : ~Grows(i)
          <6>1. ASSUME NEW i \in DOMAIN mainQueue, Grows(i)
                PROVE  FALSE
            <7>1. i <= 1 /\ i \in 1 .. Len(mainQueue)
              BY <2>1, <2>2, <2>4, <6>1, Lengths DEF UpdatesAgree, GrowsOnce, Idles
            <7>2. i = 1
              BY <7>1, Lengths
            <7>. QED
              BY <3>1, <6>1, <7>2 DEF Grows
          <6>. QED
            BY <6>1
        <5>2. \A o \in Ops : ~Appended(o)
          BY <4>2 DEF Quiet, Undelivered, Appended
        <5>. QED
          BY <2>1, <5>1, <5>2 DEF UpdatesAgree
      <4>. QED
        BY <2>1, <2>2, <2>4, <4>1, <4>2 DEF UpdatesAgree, IdlesAtEnd
    <3>3. Len(photos) \in Nat
      BY Lengths
    <3>. QED
      BY <2>2, <3>1, <3>2, <3>3
  <2>5. Grows(1) \/ Idles(1)
    BY <2>1, <2>2 DEF Grows, Idles, Updates
  <2>. QED
    BY <2>3, <2>4, <2>5
<1>. QED
  BY <1>1, <1>2, <1>3, FeedTypes, RequestsBringTheirPage, PTL DEF Spec
============================================================================
