------------------------------ MODULE Notifiers ------------------------------
(***************************************************************************)
(* How a change of a Realm reaches the callbacks of an observed list:      *)
(* CollectionNotifier and NotifierPackage (impl/collection_notifier.cpp),  *)
(* RealmCoordinator (impl/realm_coordinator.cpp), the writes and refreshes *)
(* of Realm (shared_realm.cpp) and List::add_notification_callback.        *)
(*                                                                         *)
(* There is one Realm instance, whose thread runs the application, one     *)
(* list observed through it, the worker thread that runs the notifiers     *)
(* under m_notifier_mutex, and other processes and threads, which commit   *)
(* versions of their own, wake the worker and remove callbacks.            *)
(*                                                                         *)
(* Versions are numbers; a change set is the set of the versions whose     *)
(* changes it holds (module LogChanges says what is in one), so that       *)
(* merging change sets is their union.  The callback before the Realm      *)
(* advances is empty in the binding the application uses; asynchronous     *)
(* errors and closing the Realm are left out.                              *)
(***************************************************************************)
EXTENDS Integers, Sequences, SequencesExt, FiniteSets

CONSTANTS MaxVersion,      \* bound on the versions of the Realm
          MaxTokens        \* bound on the callbacks added

ASSUME NotifierConstants == MaxVersion \in Nat \ {0} /\ MaxTokens \in Nat

VARIABLES
    latest,       \* the latest version of the Realm file
    relevant,     \* the versions that changed the list
    realm,        \* the Realm: its version, whether it is in a write transaction
    notifier,     \* m_notifier: its state, m_has_run, m_sg_version, m_callback_index
                  \* and m_callback_count
    callbacks,    \* m_callbacks, in order
    skipVersion,  \* m_notifier_skip_version
    worker,       \* the run of the notifiers that is under way
    wake,         \* the worker has been woken
    signal,       \* Realm::notify is to run on the Realm's run loop
    main,         \* what the Realm's thread is doing, and the version it delivers
    tokens,       \* m_next_token: the callbacks added so far
    excused       \* history: something happened the code gives no guarantee for

fileVars == <<latest, relevant>>
workerVars == <<skipVersion, worker>>
vars == <<fileVars, realm, notifier, callbacks, workerVars, wake, signal, main, tokens, excused>>

npos == -1

\* asked: the versions the user asked not to be told of; seen: those the
\* callback has been told of, has skipped, or found in the list it was first
\* called with; expected: the worker was woken when it was added.
Callback == [token: Nat, accumulated_changes: SUBSET Nat, changes_to_deliver: SUBSET Nat,
             initial_delivered: BOOLEAN, skip_next: BOOLEAN,
             asked: SUBSET Nat, seen: SUBSET Nat, expected: BOOLEAN]

NewCallback(token, expected) ==
    [token |-> token, accumulated_changes |-> {}, changes_to_deliver |-> {},
     initial_delivered |-> FALSE, skip_next |-> FALSE,
     asked |-> {}, seen |-> {}, expected |-> expected]

\* new: in m_new_notifiers; running: in m_notifiers.
NewNotifier(version) ==
    [state |-> "new", hasRun |-> FALSE, version |-> version, index |-> npos, count |-> npos]

NoNotifier == [NewNotifier(0) EXCEPT !.state = "none"]

\* The worker's notifier is no longer the list's when another has taken its place.
Idle == [at |-> "idle", target |-> 0, skip |-> 0, mine |-> FALSE]

Resting == [at |-> "idle", for |-> "nothing", version |-> 0]

Init ==
    /\ latest = 1 /\ relevant = {}
    /\ realm = [version |-> 1, writing |-> FALSE]
    /\ notifier = NoNotifier /\ callbacks = <<>>
    /\ skipVersion = 0 /\ worker = Idle /\ wake = FALSE /\ signal = FALSE
    /\ main = Resting /\ tokens = 0 /\ excused = FALSE

\* The changes of the list from one version to another.
Changes(from, to) == {v \in relevant : from < v /\ v <= to}

\* m_is_sending_notifications
Sending == main.at # "idle"

\* Code of the application runs: outside of the notifications, in a callback,
\* or before the first of them (did_change, will_send_notifications).
InUserCode == main.at \in {"idle", "calling", "leaving"}

-----------------------------------------------------------------------------
(* Callbacks *)

\* Mutant: the worker is not woken for another callback of a notifier that has run.
WakesWorker_new(n) == n.index = npos /\ ~n.hasRun

\* Not while the notifier's callbacks are being called.
WakesWorker(n) == n.index = npos

\* List::add_notification_callback: a notifier without callbacks is replaced,
\* and a callback that is being called finds no other of the old notifier
\* after it.  The worker is woken unless callbacks are being called.
add_callback ==
    /\ InUserCode /\ ~realm.writing
    /\ tokens < MaxTokens
    /\ tokens' = tokens + 1
    /\ IF callbacks = <<>>
       THEN /\ notifier' = NewNotifier(realm.version)
            /\ worker' = [worker EXCEPT !.mine = FALSE]
            /\ main' = [main EXCEPT !.at = IF @ = "calling" THEN "leaving" ELSE @]
       ELSE UNCHANGED <<notifier, worker, main>>
    /\ callbacks' = Append(callbacks, NewCallback(tokens, notifier'.index = npos))
    /\ wake' = (wake \/ WakesWorker(notifier'))
    /\ UNCHANGED <<fileVars, realm, skipVersion, signal, excused>>

\* m_callback_count is unsigned.
IsCounted(i) == notifier.count < 0 \/ i < notifier.count

IndexAfterRemoval(i) ==
    IF notifier.index # npos /\ notifier.index >= i THEN notifier.index - 1 ELSE notifier.index

\* On any thread.  The count of the callbacks to call goes down whether it
\* counts the callback or not: one added since the delivery began is not
\* counted, and its removal leaves another callback out.
remove_callback(i) ==
    /\ i \in 0 .. Len(callbacks) - 1
    /\ callbacks' = RemoveAt(callbacks, i + 1)
    /\ notifier' = [notifier EXCEPT !.index = IndexAfterRemoval(i), !.count = @ - 1]
    /\ excused' = (excused \/ (main.at = "calling" /\ ~IsCounted(i)))
    /\ UNCHANGED <<fileVars, realm, workerVars, wake, signal, main, tokens>>

\* Only in a write transaction.
suppress_next_notification(i) ==
    /\ InUserCode /\ realm.writing
    /\ i \in DOMAIN callbacks /\ ~callbacks[i].skip_next
    /\ callbacks' = [callbacks EXCEPT ![i].skip_next = TRUE]
    /\ UNCHANGED <<fileVars, realm, notifier, workerVars, wake, signal, main, tokens, excused>>

-----------------------------------------------------------------------------
(* Writes *)

\* Another thread or process; it waits for a write transaction of the Realm.
commitElsewhere ==
    /\ ~realm.writing /\ ~(main.at = "waiting" /\ main.for = "begin")
    /\ latest < MaxVersion
    /\ latest' = latest + 1
    /\ relevant' \in {relevant, relevant \cup {latest'}}
    /\ wake' = TRUE
    /\ UNCHANGED <<realm, notifier, callbacks, workerVars, signal, main, tokens, excused>>

\* The changes before version that have not been delivered yet must be by then
\* (package_and_wait).
IsReady(version) ==
    callbacks = <<>> \/ (notifier.hasRun /\ notifier.version >= version)

\* Realm::begin_transaction outside of a callback: promote_to_write takes the
\* write lock and waits for the notifiers to reach the latest version.
begin_transaction ==
    /\ main.at = "idle" /\ ~realm.writing /\ latest < MaxVersion
    /\ main' = [at |-> "waiting", for |-> "begin", version |-> latest]
    /\ wake' = (wake \/ ~IsReady(latest))
    /\ UNCHANGED <<fileVars, realm, notifier, callbacks, workerVars, signal, tokens, excused>>

\* In a callback it just begins, which may advance the Realm: "this could leave
\* the user in an inconsistent state, but that's unavoidable".
beginInCallback ==
    /\ main.at \in {"calling", "leaving"} /\ ~realm.writing /\ latest < MaxVersion
    /\ realm' = [version |-> latest, writing |-> TRUE]
    /\ excused' = TRUE
    /\ UNCHANGED <<fileVars, notifier, callbacks, workerVars, wake, signal, main, tokens>>

\* Mutant: the worker takes the write with all that follows.
SkipVersionAfter_kept(version) == skipVersion

\* The notifiers that have run stop at the write.
SkipVersionAfter(version) == IF notifier.state = "running" THEN version ELSE skipVersion

\* RealmCoordinator::commit_write.  The notifier runs up to this version before
\* it runs any further.  In a callback, the other callbacks find a newer list
\* than the one they are told of.
commit_write ==
    /\ InUserCode /\ realm.writing
    /\ latest' = latest + 1
    /\ relevant' \in {relevant, relevant \cup {latest'}}
    /\ realm' = [version |-> latest', writing |-> FALSE]
    /\ skipVersion' = SkipVersionAfter(latest')
    /\ callbacks' = [i \in DOMAIN callbacks |->
                        [callbacks[i] EXCEPT !.asked = IF callbacks[i].skip_next
                                                       THEN @ \cup {latest'} ELSE @]]
    /\ wake' = TRUE
    /\ excused' = (excused \/ main.at # "idle")
    /\ UNCHANGED <<notifier, worker, signal, main, tokens>>

\* A notification that was to be suppressed for the write stays suppressed.
cancel_transaction ==
    /\ InUserCode /\ realm.writing
    /\ realm' = [realm EXCEPT !.writing = FALSE]
    /\ excused' = (excused \/ \E i \in DOMAIN callbacks : callbacks[i].skip_next)
    /\ UNCHANGED <<fileVars, notifier, callbacks, workerVars, wake, signal, main, tokens>>

-----------------------------------------------------------------------------
(* The worker: run_async_notifiers and on_change *)

\* Under the lock: dead notifiers go, new ones are advanced to the latest
\* version, which the others are to reach.
startRun ==
    LET skip == IF notifier.state = "running" THEN skipVersion ELSE 0
    IN  /\ worker.at = "idle" /\ wake
        /\ wake' = FALSE
        /\ IF notifier.state = "none"
           THEN signal' = TRUE /\ UNCHANGED <<notifier, workerVars>>
           ELSE /\ worker' = [at |-> IF skip # 0 THEN "skipping" ELSE "advancing",
                              target |-> latest, skip |-> skip, mine |-> TRUE]
                /\ notifier' = [notifier EXCEPT !.state = "running"]
                /\ skipVersion' = 0
                /\ UNCHANGED signal
        /\ UNCHANGED <<fileVars, realm, callbacks, main, tokens, excused>>

\* A suppressed notification is skipped, whatever the changes; those the user
\* did not ask to suppress are lost.
add_changes(change) ==
    [i \in DOMAIN callbacks |->
        IF callbacks[i].skip_next
        THEN [callbacks[i] EXCEPT !.skip_next = FALSE, !.seen = @ \cup (change \cap callbacks[i].asked)]
        ELSE [callbacks[i] EXCEPT !.accumulated_changes = @ \cup change]]

\* prepare_handover, under the lock, with what the run has found up to version.
prepare_handover(version) ==
    IF worker.mine
    THEN /\ notifier' = [notifier EXCEPT !.version = version, !.hasRun = TRUE]
         /\ callbacks' = add_changes(Changes(notifier.version, version))
    ELSE UNCHANGED <<notifier, callbacks>>

\* A run up to the Realm's own write.
runToSkipVersion ==
    /\ worker.at = "skipping"
    /\ prepare_handover(worker.skip)
    /\ worker' = [worker EXCEPT !.at = "advancing"]
    /\ UNCHANGED <<fileVars, realm, skipVersion, wake, signal, main, tokens, excused>>

\* The rest of the way, and Realm::notify for the Realm's run loop.
finishRun ==
    /\ worker.at = "advancing"
    /\ prepare_handover(worker.target)
    /\ worker' = Idle
    /\ signal' = TRUE
    /\ UNCHANGED <<fileVars, realm, skipVersion, wake, main, tokens, excused>>

-----------------------------------------------------------------------------
(* Delivery *)

\* package_for_delivery: what has been accumulated is to be delivered.
Packaged(cs) ==
    [i \in DOMAIN cs |-> [cs[i] EXCEPT !.changes_to_deliver = cs[i].accumulated_changes,
                                       !.accumulated_changes = {}]]

\* The callbacks are called with the Realm at version.
deliverAt(version) ==
    /\ callbacks' = Packaged(callbacks)
    /\ notifier' = [notifier EXCEPT !.count = Len(callbacks)]
    /\ main' = [at |-> "calling", for |-> "callbacks", version |-> version]

\* Mutant: delivers whatever version the notifier is at.
IsAtRealmsVersion_any == notifier.hasRun

\* process_available_async: the notifier can only deliver into the Realm's version.
IsAtRealmsVersion == notifier.hasRun /\ notifier.version = realm.version

\* Realm::notify on the run loop.  Without a new version the notifier may have
\* something to deliver (process_available_async); else advance_to_ready
\* advances the Realm to the notifier's version, discards what is out of date,
\* or, while the notifier has not run, advances without it.
notify ==
    /\ main.at = "idle" /\ signal
    /\ signal' = FALSE
    /\ \/ realm.writing /\ UNCHANGED <<realm, notifier, callbacks, main>>
       \/ /\ ~realm.writing /\ latest = realm.version
          /\ IF IsAtRealmsVersion THEN deliverAt(realm.version)
             ELSE UNCHANGED <<notifier, callbacks, main>>
          /\ UNCHANGED realm
       \/ /\ ~realm.writing /\ latest # realm.version
          /\ \/ /\ ~notifier.hasRun
                /\ realm' = [realm EXCEPT !.version = latest]
                /\ UNCHANGED <<notifier, callbacks, main>>
             \/ /\ notifier.hasRun /\ notifier.version < realm.version
                /\ callbacks' = Packaged(callbacks)
                /\ notifier' = [notifier EXCEPT !.count = Len(callbacks)]
                /\ UNCHANGED <<realm, main>>
             \/ /\ notifier.hasRun /\ notifier.version >= realm.version
                /\ realm' = [realm EXCEPT !.version = notifier.version]
                /\ deliverAt(notifier.version)
    /\ UNCHANGED <<fileVars, workerVars, wake, tokens, excused>>

\* Realm::refresh, which does nothing in a callback or a write transaction:
\* advance_to_latest waits for the notifiers to reach the latest version.
refresh ==
    /\ main.at = "idle" /\ ~realm.writing
    /\ main' = [at |-> "waiting", for |-> "refresh", version |-> latest]
    /\ wake' = (wake \/ ~IsReady(latest))
    /\ UNCHANGED <<fileVars, realm, notifier, callbacks, workerVars, signal, tokens, excused>>

\* The wait is over.  A notifier that has callbacks is at the version waited
\* for, or at a later one; if it has none, what it has is of no use, and the
\* Realm advances without it.
advance ==
    LET deliver == notifier.hasRun /\ notifier.version >= main.version
        version == IF deliver /\ main.for = "refresh" THEN notifier.version ELSE latest
    IN  /\ main.at = "waiting"
        /\ IsReady(main.version)
        /\ realm' = [version |-> version, writing |-> main.for = "begin"]
        /\ IF deliver THEN deliverAt(version)
           ELSE main' = Resting /\ UNCHANGED <<callbacks, notifier>>
        /\ UNCHANGED <<fileVars, workerVars, wake, signal, tokens, excused>>

\* A call of callback c: with the changes, or for the first time with the list.
Called(c) ==
    [c EXCEPT !.initial_delivered = TRUE, !.changes_to_deliver = {},
              !.seen = IF c.initial_delivered THEN @ \cup c.changes_to_deliver
                       ELSE Changes(0, realm.version)]

\* for_each_callback of after_advance: the next callback is called, unless it
\* has been called before and there is nothing new.  What a count past the end
\* of the callbacks would read is not followed any further.
callNext ==
    LET i == notifier.index + 1
        c == callbacks[i + 1]
    IN  /\ main.at = "calling"
        /\ IsCounted(i) /\ i < Len(callbacks)
        /\ notifier' = [notifier EXCEPT !.index = i]
        /\ callbacks' = IF c.initial_delivered /\ c.changes_to_deliver = {} THEN callbacks
                        ELSE [callbacks EXCEPT ![i + 1] = Called(c)]
        /\ UNCHANGED <<fileVars, realm, workerVars, wake, signal, main, tokens, excused>>

\* The last callback has returned.
endDelivery ==
    /\ \/ main.at = "leaving" /\ UNCHANGED notifier
       \/ /\ main.at = "calling"
          /\ ~(IsCounted(notifier.index + 1) /\ notifier.index + 1 < Len(callbacks))
          /\ notifier' = [notifier EXCEPT !.index = npos]
    /\ main' = Resting
    /\ UNCHANGED <<fileVars, realm, callbacks, workerVars, wake, signal, tokens, excused>>

-----------------------------------------------------------------------------
\* Behaviours are followed up to where the code gives no guarantee any more.
Followed == ~excused

User == /\ Followed
        /\ \/ add_callback \/ begin_transaction \/ beginInCallback \/ refresh
           \/ \E i \in 1 .. MaxTokens : suppress_next_notification(i)

EndWrite == Followed /\ (commit_write \/ cancel_transaction)

Worker == Followed /\ (startRun \/ runToSkipVersion \/ finishRun)

Delivery == Followed /\ (notify \/ advance \/ callNext \/ endDelivery)

Others == Followed /\ (commitElsewhere \/ \E i \in 0 .. MaxTokens - 1 : remove_callback(i))

Next == User \/ EndWrite \/ Worker \/ Delivery \/ Others

Spec == Init /\ [][Next]_vars

\* The worker and the run loop serve what wakes them, callbacks return, and a
\* write transaction ends.
FairSpec == Spec /\ WF_vars(Worker) /\ WF_vars(Delivery) /\ WF_vars(EndWrite)

-----------------------------------------------------------------------------
(* Properties *)

TypeOK ==
    /\ latest \in 1 .. MaxVersion /\ relevant \subseteq 1 .. latest
    /\ realm \in [version: 1 .. latest, writing: BOOLEAN]
    /\ notifier \in [state: {"none", "new", "running"}, hasRun: BOOLEAN, version: 0 .. latest,
                     index: Nat \cup {npos}, count: Int]
    /\ callbacks \in Seq(Callback)
    /\ skipVersion \in 0 .. latest
    /\ worker \in [at: {"idle", "skipping", "advancing"}, target: 0 .. latest, skip: 0 .. latest,
                   mine: BOOLEAN]
    /\ wake \in BOOLEAN /\ signal \in BOOLEAN
    /\ main \in [at: {"idle", "waiting", "calling", "leaving"},
                 for: {"nothing", "begin", "refresh", "callbacks"}, version: 0 .. latest]
    /\ tokens \in 0 .. MaxTokens /\ excused \in BOOLEAN

\* A callback is told the changes from the list it knew to the list it sees: once
\* it has been called, or passed over as there is nothing new, it knows the
\* changes up to the version the Realm is at, in that order of versions and no
\* other.  A table view that is updated with other changes raises an exception.
KnowsTheListItSees ==
    main.at = "calling" /\ realm.version = main.version /\ ~excused =>
        \A i \in 1 .. notifier.index + 1 : callbacks[i].seen = Changes(0, realm.version)

\* No change is lost or told twice, whichever way it takes: what a callback has
\* been told, is being told and will be told next is what has changed up to the
\* notifier's version.  A write the user asked to suppress is the only one that is
\* not told, which is why nothing else is waiting when it is skipped
\* (collection_notifier.cpp:411).
NothingIsLostOrRepeated ==
    /\ TypeOK
    /\ ~excused => \A i \in DOMAIN callbacks :
        LET c == callbacks[i]
        IN  c.initial_delivered =>
              /\ Changes(0, notifier.version) \subseteq c.seen \cup c.changes_to_deliver
                                                             \cup c.accumulated_changes
              /\ c.accumulated_changes \cap (c.seen \cup c.changes_to_deliver) = {}
              /\ c.changes_to_deliver \cap c.seen = {}
              /\ worker.at = "skipping" /\ worker.mine /\ c.skip_next => c.accumulated_changes = {}

\* A callback that has been added gets its initial call, and every later change
\* of the list reaches it: unless it is removed, it does not stay behind for ever.
IsBehind(token) ==
    \E i \in DOMAIN callbacks :
        LET c == callbacks[i]
        IN  /\ c.token = token
            /\ \/ ~c.initial_delivered /\ c.expected
               \/ c.initial_delivered /\ ~(relevant \subseteq c.seen)

ChangesArrive ==
    \A token \in 0 .. MaxTokens - 1 : IsBehind(token) ~> (~IsBehind(token) \/ excused)
==============================================================================
