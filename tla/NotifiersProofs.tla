--------------------------- MODULE NotifiersProofs ---------------------------
(***************************************************************************)
(* Proofs, for any number of versions and of callbacks, of the invariants  *)
(* Notifiers.cfg model-checks.                                             *)
(***************************************************************************)
EXTENDS Notifiers, TLAPS

----------------------------------------------------------------------------
(* Change sets and sequences of callbacks *)

\* Changes, of versions that need not be the Realm's.
Between(R, a, b) == {v \in R : a < v /\ v <= b}

LEMMA ChangesAreBetween == \A a, b : Changes(a, b) = Between(relevant, a, b)
  BY DEF Changes, Between

LEMMA BetweenHolds ==
    ASSUME NEW R \in SUBSET Nat
    PROVE  \A a, b, v : v \in Between(R, a, b) <=> v \in R /\ v \in Nat /\ a < v /\ v <= b
<1>1. \A v \in R : v \in Nat
  OBVIOUS
<1>. QED
  BY <1>1, Zenon DEF Between

LEMMA BetweenJoins ==
    ASSUME NEW R \in SUBSET Nat, NEW a \in Nat, NEW b \in Nat, NEW c \in Nat, a <= b, b <= c
    PROVE  Between(R, a, b) \cup Between(R, b, c) = Between(R, a, c)
<1>1. \A v \in Nat : a < v /\ v <= c <=> (a < v /\ v <= b) \/ (b < v /\ v <= c)
  OBVIOUS
<1>. QED
  BY <1>1, BetweenHolds, Zenon

LEMMA BetweenApart ==
    ASSUME NEW R \in SUBSET Nat, NEW a \in Nat, NEW b \in Nat, NEW c \in Nat, NEW d \in Nat, b <= c
    PROVE  Between(R, a, b) \cap Between(R, c, d) = {}
<1>1. \A v \in Nat : ~(v <= b /\ c < v)
  OBVIOUS
<1>. QED
  BY <1>1, BetweenHolds, Zenon

LEMMA BetweenNothing ==
    ASSUME NEW R \in SUBSET Nat, NEW a \in Nat, NEW b \in Nat, b <= a
    PROVE  Between(R, a, b) = {}
<1>1. \A v \in Nat : ~(a < v /\ v <= b)
  OBVIOUS
<1>. QED
  BY <1>1, BetweenHolds, Zenon

LEMMA BetweenNext ==
    ASSUME NEW R \in SUBSET Nat, NEW a \in Nat
    PROVE  Between(R, a, a + 1) \subseteq {a + 1}
<1>1. \A v \in Nat : a < v /\ v <= a + 1 => v = a + 1
  OBVIOUS
<1>. QED
  BY <1>1, BetweenHolds, Zenon

LEMMA BetweenOlder ==
    ASSUME NEW R \in SUBSET Nat, NEW m \in Nat, NEW a \in Nat, NEW b \in Nat, b <= m
    PROVE  Between(R \cup {m + 1}, a, b) = Between(R, a, b)
<1>1. m + 1 \in Nat /\ ~(m + 1 <= b)
  OBVIOUS
<1>. QED
  BY <1>1, Zenon DEF Between

LEMMA MappedSeq ==
    ASSUME NEW s, NEW S, NEW T, s \in Seq(S), NEW f \in [DOMAIN s -> T]
    PROVE  f \in Seq(T) /\ Len(f) = Len(s) /\ DOMAIN f = DOMAIN s
<1>1. DOMAIN s = 1 .. Len(s) /\ Len(s) \in Nat
  OBVIOUS
<1>2. f \in [1 .. Len(s) -> T]
  BY <1>1
<1>3. f \in Seq(T)
  BY <1>1, <1>2
<1>. QED
  BY <1>1, <1>2, <1>3

LEMMA ShorterSeq ==
    ASSUME NEW S, NEW s \in Seq(S), NEW n \in 1 .. Len(s)
    PROVE  /\ RemoveAt(s, n) \in Seq(S) /\ Len(RemoveAt(s, n)) = Len(s) - 1
           /\ \A j \in 1 .. Len(s) - 1 :
                 RemoveAt(s, n)[j] = IF j < n THEN s[j] ELSE s[j + 1]
<1> DEFINE before == SubSeq(s, 1, n - 1)
           after == SubSeq(s, n + 1, Len(s))
<1>1. /\ before \in Seq(S) /\ Len(before) = n - 1
      /\ \A j \in 1 .. n - 1 : before[j] = s[j]
  OBVIOUS
<1>2. /\ after \in Seq(S) /\ Len(after) = Len(s) - n
      /\ \A j \in 1 .. Len(s) - n : after[j] = s[n + j]
  OBVIOUS
<1>3. RemoveAt(s, n) = before \o after
  BY DEF RemoveAt
<1> HIDE DEF before, after
<1>4. RemoveAt(s, n) \in Seq(S) /\ Len(RemoveAt(s, n)) = Len(s) - 1
  BY <1>1, <1>2, <1>3
<1>5. ASSUME NEW j \in 1 .. Len(s) - 1
      PROVE  RemoveAt(s, n)[j] = IF j < n THEN s[j] ELSE s[j + 1]
  <2>1. CASE j < n
    BY <1>1, <1>2, <1>3, <2>1
  <2>2. CASE j >= n
    <3>1. RemoveAt(s, n)[j] = after[j - (n - 1)] /\ j - (n - 1) \in 1 .. Len(s) - n
      BY <1>1, <1>2, <1>3, <2>2
    <3>2. n + (j - (n - 1)) = j + 1
      OBVIOUS
    <3>. QED
      BY <1>2, <2>2, <3>1, <3>2
  <2>. QED
    BY <2>1, <2>2
<1>. QED
  BY <1>4, <1>5

----------------------------------------------------------------------------
(* The invariant *)

\* A write transaction of the Realm writes after the latest version, as the
\* wait for it does.
Waits ==
    /\ main.at = "waiting" =>
          /\ ~realm.writing /\ main.version >= realm.version
          /\ main.for \in {"begin", "refresh"}
          /\ main.for = "begin" => main.version = latest /\ latest < MaxVersion
    /\ realm.writing => realm.version = latest /\ latest < MaxVersion

\* A run moves the notifier forwards, and stops at the Realm's own write.
Runs ==
    /\ notifier.hasRun => notifier.state = "running"
    /\ worker.at # "idle" /\ worker.mine =>
          /\ notifier.state = "running" /\ notifier.version <= worker.target
          /\ worker.at = "skipping" => notifier.version <= worker.skip /\ worker.skip <= worker.target
    /\ skipVersion # 0 /\ notifier.state = "running" =>
          /\ notifier.version < skipVersion
          /\ worker.at # "idle" /\ worker.mine => worker.target < skipVersion

\* While callbacks are called, those before notifier.count are concerned and
\* those up to notifier.index have been called.
Calls ==
    IF main.at = "calling"
    THEN /\ notifier.hasRun
         /\ main.version = realm.version /\ main.version <= notifier.version
         /\ notifier.count \in 0 .. Len(callbacks) /\ notifier.index \in -1 .. notifier.count - 1
         /\ \A i \in 1 .. notifier.index + 1 :
               callbacks[i].initial_delivered /\ callbacks[i].changes_to_deliver = {}
         /\ \A i \in 1 .. notifier.count :
               callbacks[i].accumulated_changes = Between(relevant, main.version, notifier.version)
         /\ \A i \in DOMAIN callbacks : callbacks[i].initial_delivered => i <= notifier.count
    ELSE notifier.index = npos

\* Callback c has been told of the changes up to version k, is being told of
\* those from k to d, and will be told of those from d to n.
Told(c, R, k, d, n) ==
    /\ c.seen = Between(R, 0, k)
    /\ c.changes_to_deliver = Between(R, k, d)
    /\ c.accumulated_changes = Between(R, d, n)

\* The Realm is ahead of a notifier with callbacks that have been called by a
\* write of its own at most; and then it has told them of everything else.
Informed ==
    \A i \in DOMAIN callbacks : callbacks[i].initial_delivered =>
        /\ notifier.hasRun /\ realm.version <= notifier.version + 1
        /\ main.at # "calling" =>
              \E k \in 0 .. notifier.version : Told(callbacks[i], relevant, k, k, notifier.version)
        /\ main.at = "calling" =>
              \E k \in 0 .. main.version :
                  Told(callbacks[i], relevant, k, main.version, notifier.version)
        /\ realm.writing \/ notifier.version < realm.version => callbacks[i].accumulated_changes = {}

\* The notifier waits for a write of the Realm, and a write that is to be
\* skipped is the next that the notifier comes to.
Skips ==
    /\ realm.writing /\ callbacks # <<>> => notifier.hasRun /\ notifier.version = latest
    /\ \A i \in DOMAIN callbacks : callbacks[i].skip_next =>
          /\ notifier.hasRun
          /\ \/ realm.writing
             \/ /\ realm.version = notifier.version + 1 /\ realm.version \in callbacks[i].asked
                /\ \/ skipVersion = realm.version
                   \/ worker.at = "skipping" /\ worker.mine /\ worker.skip = realm.version

Sound == TypeOK /\ Waits /\ Runs
Guaranteed == Calls /\ Informed /\ Skips

LEMMA SoundInit == Init => Sound /\ Guaranteed
<1> SUFFICES ASSUME Init PROVE Sound /\ Guaranteed
  OBVIOUS
<1>1. /\ latest = 1 /\ relevant = {} /\ realm = [version |-> 1, writing |-> FALSE]
      /\ notifier = [state |-> "none", hasRun |-> FALSE, version |-> 0, index |-> -1, count |-> -1]
      /\ callbacks = <<>> /\ skipVersion = 0
      /\ worker = [at |-> "idle", target |-> 0, skip |-> 0, mine |-> FALSE]
      /\ main = [at |-> "idle", for |-> "nothing", version |-> 0]
  BY DEF Init, NoNotifier, NewNotifier, Idle, Resting, npos
<1>2. /\ 1 \in 1 .. MaxVersion
      /\ callbacks \in Seq(Callback) /\ tokens \in 0 .. MaxTokens
      /\ wake \in BOOLEAN /\ signal \in BOOLEAN /\ excused \in BOOLEAN
  <2>1. 1 \in 1 .. MaxVersion /\ 0 \in 0 .. MaxTokens /\ <<>> \in Seq(Callback)
    BY NotifierConstants
  <2>. QED
    BY <1>1, <2>1 DEF Init
<1>3. TypeOK
  BY <1>1, <1>2 DEF TypeOK, npos
<1>4. Waits /\ Runs
  BY <1>1 DEF Waits, Runs
<1>5. Guaranteed
  BY <1>1 DEF Guaranteed, Calls, Informed, Skips, npos
<1>. QED
  BY <1>3, <1>4, <1>5 DEF Sound

----------------------------------------------------------------------------
(* Types and versions *)

\* What the updates of all callbacks do to each.
LEMMA PackagedSeq ==
    ASSUME callbacks \in Seq(Callback)
    PROVE  /\ Packaged(callbacks) \in Seq(Callback)
           /\ Len(Packaged(callbacks)) = Len(callbacks) /\ DOMAIN Packaged(callbacks) = DOMAIN callbacks
           /\ \A i \in DOMAIN callbacks :
                 Packaged(callbacks)[i] =
                     [callbacks[i] EXCEPT !.changes_to_deliver = callbacks[i].accumulated_changes,
                                          !.accumulated_changes = {}]
<1>1. \A i \in DOMAIN callbacks : callbacks[i] \in Callback
  OBVIOUS
<1>2. \A i \in DOMAIN callbacks :
         [callbacks[i] EXCEPT !.changes_to_deliver = callbacks[i].accumulated_changes,
                              !.accumulated_changes = {}] \in Callback
  BY <1>1 DEF Callback
<1>3. Packaged(callbacks) \in [DOMAIN callbacks -> Callback]
  BY <1>2 DEF Packaged
<1>. QED
  BY <1>3, MappedSeq DEF Packaged

LEMMA ChangesSeq ==
    ASSUME callbacks \in Seq(Callback), NEW change \in SUBSET Nat
    PROVE  /\ add_changes(change) \in Seq(Callback)
           /\ Len(add_changes(change)) = Len(callbacks) /\ DOMAIN add_changes(change) = DOMAIN callbacks
           /\ \A i \in DOMAIN callbacks :
                 add_changes(change)[i] =
                    IF callbacks[i].skip_next
                    THEN [callbacks[i] EXCEPT !.skip_next = FALSE,
                                              !.seen = @ \cup (change \cap callbacks[i].asked)]
                    ELSE [callbacks[i] EXCEPT !.accumulated_changes = @ \cup change]
<1>1. \A i \in DOMAIN callbacks : callbacks[i] \in Callback
  OBVIOUS
<1>2. \A i \in DOMAIN callbacks :
         (IF callbacks[i].skip_next
          THEN [callbacks[i] EXCEPT !.skip_next = FALSE,
                                    !.seen = @ \cup (change \cap callbacks[i].asked)]
          ELSE [callbacks[i] EXCEPT !.accumulated_changes = @ \cup change]) \in Callback
  BY <1>1 DEF Callback
<1>3. add_changes(change) \in [DOMAIN callbacks -> Callback]
  BY <1>2 DEF add_changes
<1>. QED
  BY <1>3, MappedSeq DEF add_changes

LEMMA CalledCallback ==
    ASSUME NEW c \in Callback, relevant \in SUBSET Nat
    PROVE  Called(c) \in Callback
<1>1. Changes(0, realm.version) \in SUBSET Nat
  BY DEF Changes
<1>. QED
  BY <1>1 DEF Called, Callback

\* The fields of the state's records.
LEMMA Fields ==
    ASSUME TypeOK
    PROVE  /\ latest \in Nat \ {0} /\ latest <= MaxVersion /\ MaxVersion \in Nat
           /\ relevant \in SUBSET Nat /\ relevant \subseteq 1 .. latest
           /\ realm.version \in 1 .. latest /\ realm.writing \in BOOLEAN
           /\ notifier.state \in {"none", "new", "running"} /\ notifier.hasRun \in BOOLEAN
           /\ notifier.version \in 0 .. latest /\ notifier.index \in Nat \cup {-1} /\ notifier.count \in Int
           /\ worker.at \in {"idle", "skipping", "advancing"} /\ worker.mine \in BOOLEAN
           /\ worker.target \in 0 .. latest /\ worker.skip \in 0 .. latest
           /\ main.at \in {"idle", "waiting", "calling", "leaving"} /\ main.version \in 0 .. latest
           /\ skipVersion \in 0 .. latest /\ callbacks \in Seq(Callback)
           /\ \A i \in DOMAIN callbacks : callbacks[i] \in Callback
           /\ Len(callbacks) \in Nat /\ DOMAIN callbacks = 1 .. Len(callbacks)
<1>1. latest \in Nat \ {0} /\ latest <= MaxVersion /\ MaxVersion \in Nat
  BY NotifierConstants DEF TypeOK
<1>2. relevant \in SUBSET Nat /\ relevant \subseteq 1 .. latest
  BY <1>1 DEF TypeOK
<1>3. /\ callbacks \in Seq(Callback) /\ \A i \in DOMAIN callbacks : callbacks[i] \in Callback
      /\ Len(callbacks) \in Nat /\ DOMAIN callbacks = 1 .. Len(callbacks)
  BY DEF TypeOK
<1>4. realm.version \in 1 .. latest /\ realm.writing \in BOOLEAN
  BY DEF TypeOK
<1>5. /\ notifier.state \in {"none", "new", "running"} /\ notifier.hasRun \in BOOLEAN
      /\ notifier.version \in 0 .. latest /\ notifier.index \in Nat \cup {-1} /\ notifier.count \in Int
  BY DEF TypeOK, npos
<1>6. /\ worker.at \in {"idle", "skipping", "advancing"} /\ worker.mine \in BOOLEAN
      /\ worker.target \in 0 .. latest /\ worker.skip \in 0 .. latest
  BY DEF TypeOK
<1>7. /\ main.at \in {"idle", "waiting", "calling", "leaving"} /\ main.version \in 0 .. latest
      /\ skipVersion \in 0 .. latest
  BY DEF TypeOK
<1>. QED
  BY <1>1, <1>2, <1>3, <1>4, <1>5, <1>6, <1>7

LEMMA SoundUser ==
    ASSUME Sound, User
    PROVE  Sound'
<1>. TypeOK /\ Waits /\ Runs
  BY DEF Sound
<1>. USE Fields
<1>1. CASE add_callback
  <2>1. /\ InUserCode /\ ~realm.writing /\ tokens < MaxTokens /\ tokens' = tokens + 1
        /\ callbacks' = Append(callbacks, NewCallback(tokens, notifier'.index = npos))
        /\ UNCHANGED <<latest, relevant, realm, skipVersion, signal, excused>>
    BY <1>1 DEF add_callback, fileVars
  <2>2. tokens' \in 0 .. MaxTokens /\ tokens \in Nat
    BY <2>1, NotifierConstants DEF TypeOK
  <2>3. NewCallback(tokens, notifier'.index = npos) \in Callback
    BY <2>2 DEF NewCallback, Callback
  <2>4. callbacks' \in Seq(Callback)
    BY <2>1, <2>3
  <2>5. CASE callbacks = <<>>
    <3>1. /\ notifier' = NewNotifier(realm.version)
          /\ worker' = [worker EXCEPT !.mine = FALSE]
          /\ main' = [main EXCEPT !.at = IF @ = "calling" THEN "leaving" ELSE @]
      BY <1>1, <2>5 DEF add_callback
    <3>2. /\ notifier' = [state |-> "new", hasRun |-> FALSE, version |-> realm.version, index |-> -1, count |-> -1]
      BY <3>1 DEF NewNotifier, npos
    <3>3. main.at # "waiting"
      BY <2>1 DEF InUserCode
    <3>4. /\ main' \in [at: {"idle", "waiting", "calling", "leaving"},
                        for: {"nothing", "begin", "refresh", "callbacks"}, version: 0 .. latest]
          /\ main'.at # "waiting"
      BY <3>1, <3>3 DEF TypeOK
    <3>5. /\ worker' \in [at: {"idle", "skipping", "advancing"}, target: 0 .. latest, skip: 0 .. latest,
                          mine: BOOLEAN]
          /\ ~worker'.mine
      BY <3>1 DEF TypeOK
    <3>6. notifier' \in [state: {"none", "new", "running"}, hasRun: BOOLEAN, version: 0 .. latest,
                         index: Nat \cup {npos}, count: Int]
      BY <3>2 DEF npos
    <3>7. wake' \in BOOLEAN
      BY <1>1 DEF add_callback, TypeOK
    <3>8. TypeOK'
      BY <2>1, <2>2, <2>4, <3>4, <3>5, <3>6, <3>7 DEF TypeOK
    <3>9. Waits'
      BY <2>1, <3>4 DEF Waits
    <3>10. Runs'
      BY <2>1, <3>2, <3>5 DEF Runs
    <3>. QED
      BY <3>8, <3>9, <3>10 DEF Sound
  <2>6. CASE callbacks # <<>>
    <3>1. UNCHANGED <<notifier, worker, main>> /\ wake' \in BOOLEAN
      BY <1>1, <2>6 DEF add_callback, TypeOK
    <3>2. TypeOK'
      BY <2>1, <2>2, <2>4, <3>1 DEF TypeOK
    <3>3. Waits' /\ Runs'
      BY <2>1, <3>1 DEF Waits, Runs
    <3>. QED
      BY <3>2, <3>3 DEF Sound
  <2>. QED
    BY <2>5, <2>6
<1>2. CASE begin_transaction \/ refresh
  <2>1. /\ ~realm.writing /\ wake' \in BOOLEAN
        /\ \/ main' = [at |-> "waiting", for |-> "begin", version |-> latest] /\ latest < MaxVersion
           \/ main' = [at |-> "waiting", for |-> "refresh", version |-> latest]
        /\ UNCHANGED <<latest, relevant, realm, notifier, callbacks, skipVersion, worker, signal, tokens, excused>>
    BY <1>2 DEF begin_transaction, refresh, fileVars, workerVars, TypeOK
  <2>2. TypeOK'
    BY <2>1 DEF TypeOK
  <2>3. Waits' /\ Runs'
    BY <2>1 DEF Waits, Runs
  <2>. QED
    BY <2>2, <2>3 DEF Sound
<1>3. CASE beginInCallback
  <2>1. /\ main.at \in {"calling", "leaving"} /\ latest < MaxVersion
        /\ realm' = [version |-> latest, writing |-> TRUE] /\ excused' = TRUE
        /\ UNCHANGED <<latest, relevant, notifier, callbacks, skipVersion, worker, wake, signal, main, tokens>>
    BY <1>3 DEF beginInCallback, fileVars, workerVars
  <2>2. TypeOK'
    BY <2>1 DEF TypeOK
  <2>3. Waits' /\ Runs'
    BY <2>1 DEF Waits, Runs
  <2>. QED
    BY <2>2, <2>3 DEF Sound
<1>4. ASSUME NEW i, suppress_next_notification(i)
      PROVE  Sound'
  <2>1. /\ i \in DOMAIN callbacks /\ callbacks' = [callbacks EXCEPT ![i].skip_next = TRUE]
        /\ UNCHANGED <<latest, relevant, realm, notifier, skipVersion, worker, wake, signal, main, tokens, excused>>
    BY <1>4 DEF suppress_next_notification, fileVars, workerVars
  <2>2. [callbacks[i] EXCEPT !.skip_next = TRUE] \in Callback
    BY <2>1 DEF Callback
  <2>3. callbacks' \in Seq(Callback)
    BY <2>1, <2>2
  <2>4. TypeOK'
    BY <2>1, <2>3 DEF TypeOK
  <2>5. Waits' /\ Runs'
    BY <2>1 DEF Waits, Runs
  <2>. QED
    BY <2>4, <2>5 DEF Sound
<1>. QED
  BY <1>1, <1>2, <1>3, <1>4 DEF User

LEMMA SoundWrites ==
    ASSUME Sound, EndWrite
    PROVE  Sound'
<1>. TypeOK /\ Waits /\ Runs
  BY DEF Sound
<1>. USE Fields
<1>1. CASE commit_write
  <2>1. /\ InUserCode /\ realm.writing /\ latest' = latest + 1
        /\ relevant' \in {relevant, relevant \cup {latest'}}
        /\ realm' = [version |-> latest', writing |-> FALSE]
        /\ skipVersion' = SkipVersionAfter(latest')
        /\ wake' = TRUE /\ excused' = (excused \/ main.at # "idle")
        /\ UNCHANGED <<notifier, worker, signal, main, tokens>>
    BY <1>1 DEF commit_write
  <2>2. latest' \in 1 .. MaxVersion /\ latest' \in Nat /\ latest < MaxVersion
    BY <2>1 DEF Waits
  <2>3. 0 .. latest \subseteq 0 .. latest' /\ 1 .. latest \subseteq 1 .. latest' /\ latest' \in 1 .. latest'
    BY <2>1, <2>2
  <2>4. skipVersion' \in 0 .. latest'
    BY <2>1, <2>2, <2>3 DEF SkipVersionAfter
  <2>5. callbacks' \in Seq(Callback)
    <3>1. \A i \in DOMAIN callbacks :
             [callbacks[i] EXCEPT !.asked = IF callbacks[i].skip_next THEN @ \cup {latest'} ELSE @]
                 \in Callback
      BY <2>2 DEF Callback
    <3>2. callbacks' \in [DOMAIN callbacks -> Callback]
      BY <1>1, <3>1 DEF commit_write
    <3>. QED
      BY <3>2, MappedSeq
  <2>6. relevant' \subseteq 1 .. latest'
    BY <2>1, <2>3
  <2>7. realm' \in [version: 1 .. latest', writing: BOOLEAN]
    BY <2>1, <2>3
  <2>8. notifier \in [state: {"none", "new", "running"}, hasRun: BOOLEAN, version: 0 .. latest',
                      index: Nat \cup {npos}, count: Int]
    BY <2>3 DEF TypeOK
  <2>9. worker \in [at: {"idle", "skipping", "advancing"}, target: 0 .. latest', skip: 0 .. latest',
                    mine: BOOLEAN]
    BY <2>3 DEF TypeOK
  <2>10. main \in [at: {"idle", "waiting", "calling", "leaving"},
                   for: {"nothing", "begin", "refresh", "callbacks"}, version: 0 .. latest']
    BY <2>3 DEF TypeOK
  <2>11. TypeOK'
    BY <2>1, <2>2, <2>4, <2>5, <2>6, <2>7, <2>8, <2>9, <2>10 DEF TypeOK
  <2>12. Waits'
    BY <2>1 DEF Waits, InUserCode
  <2>13. Runs'
    <3>1. notifier.version < latest' /\ worker.target < latest'
      BY <2>1
    <3>. QED
      BY <2>1, <3>1 DEF Runs, SkipVersionAfter
  <2>. QED
    BY <2>11, <2>12, <2>13 DEF Sound
<1>2. CASE cancel_transaction
  <2>1. /\ InUserCode /\ realm' = [realm EXCEPT !.writing = FALSE] /\ excused' \in BOOLEAN
        /\ UNCHANGED <<latest, relevant, notifier, callbacks, skipVersion, worker, wake, signal, main, tokens>>
    BY <1>2 DEF cancel_transaction, fileVars, workerVars, TypeOK
  <2>2. realm' \in [version: 1 .. latest, writing: BOOLEAN] /\ ~realm'.writing
    BY <2>1 DEF TypeOK
  <2>3. TypeOK'
    BY <2>1, <2>2 DEF TypeOK
  <2>4. Waits' /\ Runs'
    BY <2>1, <2>2 DEF Waits, Runs, InUserCode
  <2>. QED
    BY <2>3, <2>4 DEF Sound
<1>. QED
  BY <1>1, <1>2 DEF EndWrite

\* A callback of which a run has found the changes up to version t.
Prepared(c, t) ==
    IF c.skip_next
    THEN [c EXCEPT !.skip_next = FALSE,
                   !.seen = @ \cup (Between(relevant, notifier.version, t) \cap c.asked)]
    ELSE [c EXCEPT !.accumulated_changes = @ \cup Between(relevant, notifier.version, t)]

LEMMA Handover ==
    ASSUME TypeOK, NEW t \in 0 .. latest, prepare_handover(t)
    PROVE  /\ callbacks' \in Seq(Callback)
           /\ Len(callbacks') = Len(callbacks) /\ DOMAIN callbacks' = DOMAIN callbacks
           /\ notifier' \in [state: {"none", "new", "running"}, hasRun: BOOLEAN, version: 0 .. latest,
                             index: Nat \cup {npos}, count: Int]
           /\ notifier'.state = notifier.state
           /\ notifier'.index = notifier.index /\ notifier'.count = notifier.count
           /\ IF worker.mine
              THEN /\ notifier'.version = t /\ notifier'.hasRun = TRUE
                   /\ \A i \in DOMAIN callbacks : callbacks'[i] = Prepared(callbacks[i], t)
              ELSE UNCHANGED <<notifier, callbacks>>
<1>. USE Fields
<1>1. CASE worker.mine
  <2>1. /\ notifier' = [notifier EXCEPT !.version = t, !.hasRun = TRUE]
        /\ callbacks' = add_changes(Between(relevant, notifier.version, t))
    BY <1>1, ChangesAreBetween DEF prepare_handover
  <2>2. Between(relevant, notifier.version, t) \in SUBSET Nat
    BY BetweenHolds
  <2>3. /\ callbacks' \in Seq(Callback)
        /\ Len(callbacks') = Len(callbacks) /\ DOMAIN callbacks' = DOMAIN callbacks
        /\ \A i \in DOMAIN callbacks : callbacks'[i] = Prepared(callbacks[i], t)
    BY <2>1, <2>2, ChangesSeq DEF Prepared
  <2>4. /\ notifier' \in [state: {"none", "new", "running"}, hasRun: BOOLEAN, version: 0 .. latest,
                          index: Nat \cup {npos}, count: Int]
        /\ notifier'.state = notifier.state /\ notifier'.version = t /\ notifier'.hasRun = TRUE
        /\ notifier'.index = notifier.index /\ notifier'.count = notifier.count
    BY <2>1 DEF TypeOK
  <2>. QED
    BY <1>1, <2>3, <2>4
<1>2. CASE ~worker.mine
  BY <1>2 DEF prepare_handover, TypeOK
<1>. QED
  BY <1>1, <1>2

LEMMA SoundWorker ==
    ASSUME Sound, Worker
    PROVE  Sound'
<1>. TypeOK /\ Waits /\ Runs
  BY DEF Sound
<1>. USE Fields
<1>1. CASE startRun
  <2> DEFINE skip == IF notifier.state = "running" THEN skipVersion ELSE 0
  <2>1. /\ worker.at = "idle" /\ wake' = FALSE
        /\ UNCHANGED <<latest, relevant, realm, callbacks, main, tokens, excused>>
    BY <1>1 DEF startRun, fileVars
  <2>2. CASE notifier.state = "none"
    <3>1. signal' = TRUE /\ UNCHANGED <<notifier, skipVersion, worker>>
      BY <1>1, <2>2 DEF startRun, workerVars
    <3>2. TypeOK'
      BY ZenonT(30), <2>1, <3>1 DEF TypeOK
    <3>3. Waits' /\ Runs'
      BY <2>1, <3>1 DEF Waits, Runs
    <3>. QED
      BY <3>2, <3>3 DEF Sound
  <2>3. CASE notifier.state # "none"
    <3>1. /\ worker' = [at |-> IF skip # 0 THEN "skipping" ELSE "advancing",
                        target |-> latest, skip |-> skip, mine |-> TRUE]
          /\ notifier' = [notifier EXCEPT !.state = "running"]
          /\ skipVersion' = 0 /\ UNCHANGED signal
      BY <1>1, <2>3 DEF startRun
    <3>2. skip \in 0 .. latest /\ (skip # 0 => notifier.version < skip)
      BY DEF Runs
    <3> HIDE DEF skip
    <3>3. /\ notifier' \in [state: {"none", "new", "running"}, hasRun: BOOLEAN, version: 0 .. latest,
                            index: Nat \cup {npos}, count: Int]
          /\ notifier'.state = "running" /\ notifier'.version = notifier.version
      BY <3>1 DEF TypeOK
    <3>4. worker' \in [at: {"idle", "skipping", "advancing"}, target: 0 .. latest, skip: 0 .. latest,
                          mine: BOOLEAN]
      BY <3>1, <3>2
    <3>5. 0 \in 0 .. latest
      OBVIOUS
    <3>6. TypeOK'
      BY <2>1, <3>1, <3>3, <3>4, <3>5 DEF TypeOK
    <3>7. Waits'
      BY <2>1 DEF Waits
    <3>8. Runs'
      BY <3>1, <3>2, <3>3 DEF Runs
    <3>. QED
      BY <3>6, <3>7, <3>8 DEF Sound
  <2>. QED
    BY <2>2, <2>3
<1>2. CASE runToSkipVersion
  <2>1. /\ worker.at = "skipping" /\ prepare_handover(worker.skip)
        /\ worker' = [worker EXCEPT !.at = "advancing"]
        /\ UNCHANGED <<latest, relevant, realm, skipVersion, wake, signal, main, tokens, excused>>
    BY <1>2 DEF runToSkipVersion, fileVars
  <2>2. /\ worker' \in [at: {"idle", "skipping", "advancing"}, target: 0 .. latest, skip: 0 .. latest,
                        mine: BOOLEAN]
        /\ worker'.at = "advancing" /\ worker'.target = worker.target /\ worker'.mine = worker.mine
    BY <2>1 DEF TypeOK
  <2>3. TypeOK'
    BY ZenonT(30), <2>1, <2>2, Handover DEF TypeOK
  <2>4. Waits'
    BY <2>1 DEF Waits
  <2>5. Runs'
    <3>1. CASE worker.mine
      <4>1. notifier'.version = worker.skip /\ notifier'.state = notifier.state
        BY <2>1, <3>1, Handover
      <4>2. /\ notifier.state = "running" /\ worker.skip <= worker.target
            /\ skipVersion # 0 => worker.target < skipVersion
        BY <2>1, <3>1 DEF Runs
      <4>. QED
        BY <2>1, <2>2, <4>1, <4>2 DEF Runs
    <3>2. CASE ~worker.mine
      <4>1. UNCHANGED notifier
        BY <2>1, <3>2, Handover
      <4>. QED
        BY <2>1, <2>2, <3>2, <4>1 DEF Runs
    <3>. QED
      BY <3>1, <3>2
  <2>. QED
    BY <2>3, <2>4, <2>5 DEF Sound
<1>3. CASE finishRun
  <2>1. /\ worker.at = "advancing" /\ prepare_handover(worker.target)
        /\ worker' = [at |-> "idle", target |-> 0, skip |-> 0, mine |-> FALSE] /\ signal' = TRUE
        /\ UNCHANGED <<latest, relevant, realm, skipVersion, wake, main, tokens, excused>>
    BY <1>3 DEF finishRun, fileVars, Idle
  <2>2. worker' \in [at: {"idle", "skipping", "advancing"}, target: 0 .. latest, skip: 0 .. latest,
                        mine: BOOLEAN]
    BY <2>1
  <2>3. TypeOK'
    BY <2>1, <2>2, Handover DEF TypeOK
  <2>4. Waits'
    BY <2>1 DEF Waits
  <2>5. Runs'
    <3>1. CASE worker.mine
      <4>1. notifier'.version = worker.target /\ notifier'.state = notifier.state
        BY <2>1, <3>1, Handover
      <4>2. /\ notifier.state = "running"
            /\ skipVersion # 0 => worker.target < skipVersion
        BY <2>1, <3>1 DEF Runs
      <4>. QED
        BY <2>1, <4>1, <4>2 DEF Runs
    <3>2. CASE ~worker.mine
      <4>1. UNCHANGED notifier
        BY <2>1, <3>2, Handover
      <4>. QED
        BY <2>1, <4>1 DEF Runs
    <3>. QED
      BY <3>1, <3>2
  <2>. QED
    BY <2>3, <2>4, <2>5 DEF Sound
<1>. QED
  BY <1>1, <1>2, <1>3 DEF Worker

\* The callbacks are about to be called.
LEMMA Delivers ==
    ASSUME TypeOK, NEW v, deliverAt(v)
    PROVE  /\ callbacks' \in Seq(Callback)
           /\ Len(callbacks') = Len(callbacks) /\ DOMAIN callbacks' = DOMAIN callbacks
           /\ \A i \in DOMAIN callbacks :
                 callbacks'[i] = [callbacks[i] EXCEPT !.changes_to_deliver = callbacks[i].accumulated_changes,
                                                      !.accumulated_changes = {}]
           /\ notifier' \in [state: {"none", "new", "running"}, hasRun: BOOLEAN, version: 0 .. latest,
                             index: Nat \cup {npos}, count: Int]
           /\ notifier'.state = notifier.state /\ notifier'.hasRun = notifier.hasRun
           /\ notifier'.version = notifier.version
           /\ notifier'.index = notifier.index /\ notifier'.count = Len(callbacks)
           /\ main' = [at |-> "calling", for |-> "callbacks", version |-> v]
<1>1. /\ callbacks' = Packaged(callbacks) /\ notifier' = [notifier EXCEPT !.count = Len(callbacks)]
      /\ main' = [at |-> "calling", for |-> "callbacks", version |-> v]
  BY DEF deliverAt
<1>2. /\ notifier' \in [state: {"none", "new", "running"}, hasRun: BOOLEAN, version: 0 .. latest,
                        index: Nat \cup {npos}, count: Int]
      /\ notifier'.state = notifier.state /\ notifier'.hasRun = notifier.hasRun
      /\ notifier'.version = notifier.version
      /\ notifier'.index = notifier.index /\ notifier'.count = Len(callbacks)
  <2>1. notifier \in [state: {"none", "new", "running"}, hasRun: BOOLEAN, version: 0 .. latest,
                      index: Nat \cup {npos}, count: Int]
    BY DEF TypeOK
  <2>2. Len(callbacks) \in Int
    BY Fields
  <2>. QED
    BY <1>1, <2>1, <2>2
<1>3. callbacks \in Seq(Callback)
  BY Fields
<1>. QED
  BY <1>1, <1>2, <1>3, PackagedSeq, Fields

LEMMA SoundDelivery ==
    ASSUME Sound, Delivery
    PROVE  Sound'
<1>. TypeOK /\ Waits /\ Runs
  BY DEF Sound
<1>. USE Fields
<1> DEFINE NotifierType == [state: {"none", "new", "running"}, hasRun: BOOLEAN, version: 0 .. latest,
                            index: Nat \cup {npos}, count: Int]
           RealmType == [version: 1 .. latest, writing: BOOLEAN]
           MainType == [at: {"idle", "waiting", "calling", "leaving"},
                        for: {"nothing", "begin", "refresh", "callbacks"}, version: 0 .. latest]
<1>1. /\ notifier \in NotifierType /\ realm \in RealmType /\ main \in MainType
      /\ wake \in BOOLEAN /\ signal \in BOOLEAN /\ tokens \in 0 .. MaxTokens /\ excused \in BOOLEAN
  BY DEF TypeOK
\* Whatever is delivered, the worker goes on as it was.
<1>2. ASSUME UNCHANGED <<latest, relevant, skipVersion, worker, wake, tokens, excused>>,
             signal' \in BOOLEAN, callbacks' \in Seq(Callback),
             notifier' \in NotifierType, notifier'.state = notifier.state,
             notifier'.hasRun = notifier.hasRun, notifier'.version = notifier.version,
             realm' \in RealmType, main' \in MainType, main'.at # "waiting",
             realm'.writing => realm'.version = latest /\ latest < MaxVersion
      PROVE  Sound'
  <2>1. TypeOK'
    BY <1>1, <1>2 DEF TypeOK
  <2>2. Waits' /\ Runs'
    BY <1>2 DEF Waits, Runs
  <2>. QED
    BY <2>1, <2>2 DEF Sound
<1>3. ASSUME NEW v \in 0 .. latest, deliverAt(v)
      PROVE  /\ callbacks' \in Seq(Callback) /\ notifier' \in NotifierType
             /\ notifier'.state = notifier.state /\ notifier'.hasRun = notifier.hasRun
             /\ notifier'.version = notifier.version
             /\ main' \in MainType /\ main'.at # "waiting"
  <2>1. main' = [at |-> "calling", for |-> "callbacks", version |-> v]
    BY <1>3, Delivers
  <2>2. main' \in MainType /\ main'.at # "waiting"
    BY <2>1
  <2>. QED
    BY <1>3, <2>2, Delivers
<1>4. CASE notify
  <2>1. /\ main.at = "idle" /\ signal' = FALSE
        /\ UNCHANGED <<latest, relevant, skipVersion, worker, wake, tokens, excused>>
    BY <1>4 DEF notify, fileVars, workerVars
  <2>2. CASE UNCHANGED <<realm, notifier, callbacks, main>>
    BY <1>1, <1>2, <2>1, <2>2 DEF Waits
  <2>3. CASE ~realm.writing /\ deliverAt(realm.version) /\ UNCHANGED realm
    <3>1. realm.version \in 0 .. latest
      OBVIOUS
    <3>2. /\ callbacks' \in Seq(Callback) /\ notifier' \in NotifierType
          /\ notifier'.state = notifier.state /\ notifier'.hasRun = notifier.hasRun
          /\ notifier'.version = notifier.version
          /\ main' \in MainType /\ main'.at # "waiting"
      BY <1>3, <2>3, <3>1
    <3>. QED
      BY <1>1, <1>2, <2>1, <2>3, <3>2
  <2>4. CASE ~realm.writing /\ realm' = [realm EXCEPT !.version = latest] /\ UNCHANGED <<notifier, callbacks, main>>
    <3>1. realm' \in RealmType /\ ~realm'.writing
      <4>1. latest \in 1 .. latest
        OBVIOUS
      <4>. QED
        BY <1>1, <2>4, <4>1
    <3>. QED
      BY <1>1, <1>2, <2>1, <2>4, <3>1
  <2>5. CASE /\ ~realm.writing /\ callbacks' = Packaged(callbacks)
             /\ notifier' = [notifier EXCEPT !.count = Len(callbacks)] /\ UNCHANGED <<realm, main>>
    <3>1. callbacks' \in Seq(Callback)
      BY <2>5, PackagedSeq
    <3>2. /\ notifier' \in NotifierType /\ notifier'.state = notifier.state
          /\ notifier'.hasRun = notifier.hasRun /\ notifier'.version = notifier.version
      <4>1. Len(callbacks) \in Int
        OBVIOUS
      <4>. QED
        BY <1>1, <2>5, <4>1
    <3>. QED
      BY <1>1, <1>2, <2>1, <2>5, <3>1, <3>2
  <2>6. CASE /\ ~realm.writing /\ notifier.version >= realm.version
             /\ realm' = [realm EXCEPT !.version = notifier.version] /\ deliverAt(notifier.version)
    <3>1. realm' \in RealmType /\ ~realm'.writing
      <4>1. notifier.version \in 1 .. latest
        BY <2>6
      <4>. QED
        BY <1>1, <2>6, <4>1
    <3>. QED
      BY <1>1, <1>2, <1>3, <2>1, <2>6, <3>1
  <2>. QED
    BY <1>4, <2>2, <2>3, <2>4, <2>5, <2>6 DEF notify
<1>5. CASE advance
  <2> DEFINE deliver == notifier.hasRun /\ notifier.version >= main.version
             version == IF deliver /\ main.for = "refresh" THEN notifier.version ELSE latest
  <2>1. /\ main.at = "waiting"
        /\ realm' = [version |-> version, writing |-> main.for = "begin"]
        /\ IF deliver THEN deliverAt(version)
           ELSE main' = Resting /\ UNCHANGED <<callbacks, notifier>>
        /\ UNCHANGED <<latest, relevant, skipVersion, worker, wake, signal, tokens, excused>>
    BY <1>5 DEF advance, fileVars, workerVars
  <2>2. /\ main.version >= realm.version
        /\ main.for = "begin" => latest < MaxVersion
    BY <2>1 DEF Waits
  <2>3. version \in 1 .. latest /\ (main.for = "begin" => version = latest)
    BY <2>2
  <2> HIDE DEF version
  <2>4. realm' \in RealmType /\ (realm'.writing => realm'.version = latest /\ latest < MaxVersion)
    BY <2>1, <2>2, <2>3
  <2>5. CASE deliver
    <3>1. deliverAt(version) /\ version \in 0 .. latest
      BY <2>1, <2>3, <2>5
    <3>2. /\ callbacks' \in Seq(Callback) /\ notifier' \in NotifierType
          /\ notifier'.state = notifier.state /\ notifier'.hasRun = notifier.hasRun
          /\ notifier'.version = notifier.version
          /\ main' \in MainType /\ main'.at # "waiting"
      BY <1>3, <3>1
    <3>. QED
      BY <1>1, <1>2, <2>1, <2>4, <3>2
  <2>6. CASE ~deliver
    <3>1. main' \in MainType /\ main'.at # "waiting"
      BY <2>1, <2>6 DEF Resting
    <3>. QED
      BY <1>1, <1>2, <2>1, <2>4, <2>6, <3>1
  <2>. QED
    BY <2>5, <2>6
<1>6. CASE callNext
  <2> DEFINE i == notifier.index + 1
             c == callbacks[i + 1]
  <2>1. /\ main.at = "calling" /\ i < Len(callbacks)
        /\ notifier' = [notifier EXCEPT !.index = i]
        /\ callbacks' = IF c.initial_delivered /\ c.changes_to_deliver = {} THEN callbacks
                        ELSE [callbacks EXCEPT ![i + 1] = Called(c)]
        /\ UNCHANGED <<latest, relevant, realm, skipVersion, worker, wake, signal, main, tokens, excused>>
    BY <1>6 DEF callNext, fileVars, workerVars
  <2>2. callbacks' \in Seq(Callback)
    <3>1. CASE callbacks' = callbacks
      BY <3>1
    <3>2. CASE callbacks' = [callbacks EXCEPT ![i + 1] = Called(c)]
      <4>1. i + 1 \in DOMAIN callbacks
        BY SMTT(30), <2>1
      <4>2. Called(c) \in Callback
        BY <4>1, CalledCallback
      <4> HIDE DEF i, c
      <4>. QED
        BY <3>2, <4>1, <4>2
    <3>. QED
      BY <2>1, <3>1, <3>2
  <2>3. i \in Nat
    OBVIOUS
  <2> HIDE DEF i
  <2>4. /\ notifier' \in NotifierType /\ notifier'.state = notifier.state
        /\ notifier'.hasRun = notifier.hasRun /\ notifier'.version = notifier.version
    BY <1>1, <2>1, <2>3
  <2>. QED
    BY <1>1, <1>2, <2>1, <2>2, <2>4 DEF Waits
<1>7. CASE endDelivery
  <2>1. /\ notifier' = notifier \/ notifier' = [notifier EXCEPT !.index = npos]
        /\ main' = [at |-> "idle", for |-> "nothing", version |-> 0]
        /\ UNCHANGED <<latest, relevant, realm, callbacks, skipVersion, worker, wake, signal, tokens, excused>>
    BY <1>7 DEF endDelivery, fileVars, workerVars, Resting
  <2>2. /\ notifier' \in NotifierType /\ notifier'.state = notifier.state
        /\ notifier'.hasRun = notifier.hasRun /\ notifier'.version = notifier.version
    BY SMTT(30), <1>1, <2>1 DEF npos
  <2>3. main' \in MainType /\ main'.at # "waiting"
    BY <2>1
  <2>. QED
    BY <1>1, <1>2, <2>1, <2>2, <2>3 DEF Waits
<1>. QED
  BY <1>4, <1>5, <1>6, <1>7 DEF Delivery

LEMMA SoundOthers ==
    ASSUME Sound, Others
    PROVE  Sound'
<1>. TypeOK /\ Waits /\ Runs
  BY DEF Sound
<1>. USE Fields
<1>1. CASE commitElsewhere
  <2>1. /\ ~realm.writing /\ ~(main.at = "waiting" /\ main.for = "begin")
        /\ latest < MaxVersion /\ latest' = latest + 1
        /\ relevant' \in {relevant, relevant \cup {latest'}} /\ wake' = TRUE
        /\ UNCHANGED <<realm, notifier, callbacks, skipVersion, worker, signal, main, tokens, excused>>
    BY <1>1 DEF commitElsewhere, workerVars
  <2>2. latest' \in 1 .. MaxVersion /\ latest' \in Nat
    BY <2>1
  <2>3. 0 .. latest \subseteq 0 .. latest' /\ 1 .. latest \subseteq 1 .. latest' /\ latest' \in 1 .. latest'
    BY <2>1, <2>2
  <2>4. relevant' \subseteq 1 .. latest'
    BY <2>1, <2>3
  <2>5. realm \in [version: 1 .. latest', writing: BOOLEAN]
    BY <2>3 DEF TypeOK
  <2>6. notifier \in [state: {"none", "new", "running"}, hasRun: BOOLEAN, version: 0 .. latest',
                      index: Nat \cup {npos}, count: Int]
    BY <2>3 DEF TypeOK
  <2>7. worker \in [at: {"idle", "skipping", "advancing"}, target: 0 .. latest', skip: 0 .. latest',
                    mine: BOOLEAN]
    BY <2>3 DEF TypeOK
  <2>8. main \in [at: {"idle", "waiting", "calling", "leaving"},
                  for: {"nothing", "begin", "refresh", "callbacks"}, version: 0 .. latest']
    BY <2>3 DEF TypeOK
  <2>9. TypeOK'
    BY <2>1, <2>2, <2>3, <2>4, <2>5, <2>6, <2>7, <2>8 DEF TypeOK
  <2>10. Waits' /\ Runs'
    BY <2>1 DEF Waits, Runs
  <2>. QED
    BY <2>9, <2>10 DEF Sound
<1>2. ASSUME NEW i, remove_callback(i)
      PROVE  Sound'
  <2>1. /\ i \in 0 .. Len(callbacks) - 1 /\ callbacks' = RemoveAt(callbacks, i + 1)
        /\ notifier' = [notifier EXCEPT !.index = IndexAfterRemoval(i), !.count = @ - 1]
        /\ excused' \in BOOLEAN
        /\ UNCHANGED <<latest, relevant, realm, skipVersion, worker, wake, signal, main, tokens>>
    BY <1>2 DEF remove_callback, fileVars, workerVars, TypeOK
  <2>2. callbacks' \in Seq(Callback)
    <3>1. i + 1 \in 1 .. Len(callbacks)
      BY <2>1
    <3>. QED
      BY <2>1, <3>1, ShorterSeq
  <2>3. IndexAfterRemoval(i) \in Nat \cup {npos} /\ notifier.count - 1 \in Int
    <3>1. i \in Nat
      BY <2>1
    <3>2. CASE notifier.index # -1 /\ notifier.index >= i
      <4>1. notifier.index - 1 \in Nat \cup {-1}
        BY SMTT(30), <3>1, <3>2
      <4>. QED
        BY <3>2, <4>1 DEF IndexAfterRemoval, npos
    <3>3. CASE ~(notifier.index # -1 /\ notifier.index >= i)
      BY <3>3 DEF IndexAfterRemoval, npos
    <3>. QED
      BY <3>2, <3>3
  <2>4. /\ notifier' \in [state: {"none", "new", "running"}, hasRun: BOOLEAN, version: 0 .. latest,
                          index: Nat \cup {npos}, count: Int]
        /\ notifier'.state = notifier.state /\ notifier'.hasRun = notifier.hasRun
        /\ notifier'.version = notifier.version
    BY <2>1, <2>3 DEF TypeOK
  <2>5. TypeOK'
    BY <2>1, <2>2, <2>4 DEF TypeOK
  <2>6. Waits' /\ Runs'
    BY <2>1, <2>4 DEF Waits, Runs
  <2>. QED
    BY <2>5, <2>6 DEF Sound
<1>. QED
  BY <1>1, <1>2 DEF Others

LEMMA SoundNext == Sound /\ [Next]_vars => Sound'
<1>1. Sound /\ UNCHANGED vars => Sound'
  BY DEF vars, fileVars, workerVars, Sound, TypeOK, Waits, Runs
<1>. QED
  BY <1>1, SoundUser, SoundWrites, SoundWorker, SoundDelivery, SoundOthers DEF Next

----------------------------------------------------------------------------
(* What is told *)

\* What callback i has been told and will be told is as it was.
Alike(i) ==
    /\ callbacks'[i].initial_delivered = callbacks[i].initial_delivered
    /\ callbacks'[i].seen = callbacks[i].seen
    /\ callbacks'[i].changes_to_deliver = callbacks[i].changes_to_deliver
    /\ callbacks'[i].accumulated_changes = callbacks[i].accumulated_changes

\* A commit adds a version that no callback could know yet.
LEMMA OlderChanges ==
    ASSUME TypeOK, \/ relevant' = relevant
                   \/ relevant' = relevant \cup {latest + 1}
    PROVE  \A a \in Nat, b \in 0 .. latest : Between(relevant', a, b) = Between(relevant, a, b)
<1>1. latest \in Nat /\ relevant \in SUBSET Nat
  BY Fields
<1>2. ASSUME NEW a \in Nat, NEW b \in 0 .. latest
      PROVE  Between(relevant \cup {latest + 1}, a, b) = Between(relevant, a, b)
  BY <1>1, BetweenOlder
<1>3. CASE relevant' = relevant
  BY <1>3
<1>4. CASE relevant' = relevant \cup {latest + 1}
  BY <1>2, <1>4
<1>. QED
  BY <1>3, <1>4

\* Steps that are none of the callbacks' business.
LEMMA NewsStay ==
    ASSUME TypeOK, Calls, Informed,
           DOMAIN callbacks' = DOMAIN callbacks, Len(callbacks') = Len(callbacks),
           \A i \in DOMAIN callbacks : Alike(i),
           relevant' = relevant \/ relevant' = relevant \cup {latest + 1},
           notifier'.version = notifier.version, notifier'.hasRun = notifier.hasRun,
           notifier'.index = notifier.index, notifier'.count = notifier.count,
           \/ main'.at # "calling" /\ main.at # "calling"
           \/ main'.at = main.at /\ main'.version = main.version /\ realm'.version = realm.version,
           \A i \in DOMAIN callbacks : callbacks[i].initial_delivered =>
               realm'.version <= notifier.version + 1,
           realm'.writing \/ notifier.version < realm'.version =>
               realm.writing \/ notifier.version < realm.version
    PROVE  Calls' /\ Informed'
<1>. USE Fields
<1> DEFINE n == notifier.version
           v == main.version
<1>1. n \in 0 .. latest /\ v \in 0 .. latest /\ n \in Nat /\ v \in Nat
  OBVIOUS
<1>2. \A a \in Nat, b \in 0 .. latest : Between(relevant', a, b) = Between(relevant, a, b)
  BY OlderChanges
<1>3. Calls'
  <2>1. CASE main.at # "calling"
    BY <2>1 DEF Calls, npos
  <2>2. CASE main.at = "calling"
    <3>1. /\ main'.at = "calling" /\ main'.version = v /\ realm'.version = realm.version
          /\ Between(relevant', v, n) = Between(relevant, v, n)
      BY <1>1, <1>2, <2>2
    <3>2. /\ notifier.hasRun /\ v = realm.version /\ v <= n
          /\ notifier.count \in 0 .. Len(callbacks) /\ notifier.index \in -1 .. notifier.count - 1
          /\ \A i \in 1 .. notifier.index + 1 :
                callbacks[i].initial_delivered /\ callbacks[i].changes_to_deliver = {}
          /\ \A i \in 1 .. notifier.count :
                callbacks[i].accumulated_changes = Between(relevant, v, n)
          /\ \A i \in DOMAIN callbacks : callbacks[i].initial_delivered => i <= notifier.count
      BY <2>2 DEF Calls
    <3>3. \A i \in 1 .. notifier.count : i \in DOMAIN callbacks
      BY <3>2
    <3>4. \A i \in 1 .. notifier.index + 1 : i \in DOMAIN callbacks
      BY <3>2
    <3>5. \A i \in 1 .. notifier.index + 1 :
             callbacks'[i].initial_delivered /\ callbacks'[i].changes_to_deliver = {}
      BY <3>2, <3>4 DEF Alike
    <3>6. \A i \in 1 .. notifier.count :
             callbacks'[i].accumulated_changes = Between(relevant', v, n)
      BY <3>1, <3>2, <3>3 DEF Alike
    <3>7. \A i \in DOMAIN callbacks' : callbacks'[i].initial_delivered => i <= notifier.count
      BY <3>2 DEF Alike
    <3>. QED
      BY <3>1, <3>2, <3>5, <3>6, <3>7 DEF Calls
  <2>. QED
    BY <2>1, <2>2
<1>4. ASSUME NEW i \in DOMAIN callbacks', callbacks'[i].initial_delivered
      PROVE  /\ notifier'.hasRun /\ realm'.version <= notifier'.version + 1
             /\ main'.at # "calling" => \E k \in 0 .. n : Told(callbacks'[i], relevant', k, k, n)
             /\ main'.at = "calling" =>
                   \E k \in 0 .. v : Told(callbacks'[i], relevant', k, v, n)
             /\ realm'.writing \/ n < realm'.version => callbacks'[i].accumulated_changes = {}
  <2>1. i \in DOMAIN callbacks /\ Alike(i) /\ callbacks[i].initial_delivered
    BY <1>4 DEF Alike
  <2>2. /\ notifier.hasRun
        /\ main.at # "calling" => \E k \in 0 .. n : Told(callbacks[i], relevant, k, k, n)
        /\ main.at = "calling" => \E k \in 0 .. v : Told(callbacks[i], relevant, k, v, n)
        /\ realm.writing \/ n < realm.version => callbacks[i].accumulated_changes = {}
    BY <2>1 DEF Informed
  <2>3. ASSUME NEW k \in Nat, NEW d \in Nat, k <= latest, d <= latest, Told(callbacks[i], relevant, k, d, n)
        PROVE  Told(callbacks'[i], relevant', k, d, n)
    <3>1. k \in 0 .. latest /\ d \in 0 .. latest /\ 0 \in Nat
      BY <2>3
    <3>. QED
      BY <1>1, <1>2, <2>1, <2>3, <3>1 DEF Told, Alike
  <2>4. main.at # "calling" => \E k \in 0 .. n : Told(callbacks'[i], relevant', k, k, n)
    <3>1. \A k \in 0 .. n : k \in Nat /\ k <= latest
      BY <1>1
    <3>. QED
      BY <2>2, <2>3, <3>1
  <2>5. main.at = "calling" => \E k \in 0 .. v : Told(callbacks'[i], relevant', k, v, n)
    BY <1>1, <2>2, <2>3
  <2>. QED
    BY <2>1, <2>2, <2>4, <2>5 DEF Alike
<1>5. Informed'
  BY <1>4 DEF Informed
<1>. QED
  BY <1>3, <1>5

LEMMA GuaranteedUser ==
    ASSUME Sound, Guaranteed, User, ~excused'
    PROVE  Guaranteed'
<1>. TypeOK /\ Calls /\ Informed /\ Skips
  BY DEF Sound, Guaranteed
<1>. USE Fields
<1>1. CASE add_callback
  <2> DEFINE new == NewCallback(tokens, notifier'.index = npos)
  <2>1. /\ ~realm.writing /\ InUserCode /\ callbacks' = Append(callbacks, new)
        /\ UNCHANGED <<latest, relevant, realm, skipVersion>>
    BY <1>1 DEF add_callback, fileVars
  <2>2. new \in Callback /\ ~new.initial_delivered /\ ~new.skip_next
    <3>1. tokens \in Nat
      BY NotifierConstants DEF TypeOK
    <3>. QED
      BY <3>1 DEF NewCallback, Callback
  <2> HIDE DEF new
  <2>3. /\ Len(callbacks') = Len(callbacks) + 1 /\ DOMAIN callbacks' = 1 .. Len(callbacks) + 1
        /\ \A i \in DOMAIN callbacks : callbacks'[i] = callbacks[i]
        /\ callbacks'[Len(callbacks) + 1] = new
        /\ \A i \in DOMAIN callbacks' : i \in DOMAIN callbacks \/ i = Len(callbacks) + 1
    BY <2>1, <2>2
  <2>4. CASE callbacks = <<>>
    <3>1. /\ notifier' = NewNotifier(realm.version)
          /\ main' = [main EXCEPT !.at = IF @ = "calling" THEN "leaving" ELSE @]
      BY <1>1, <2>4 DEF add_callback
    <3>2. notifier'.index = npos
      BY <3>1 DEF NewNotifier
    <3>3. main'.at # "calling"
      BY <3>1 DEF TypeOK
    <3>4. \A i \in DOMAIN callbacks' : ~callbacks'[i].initial_delivered /\ ~callbacks'[i].skip_next
      BY <2>2, <2>3, <2>4
    <3>. QED
      BY <2>1, <3>2, <3>3, <3>4 DEF Guaranteed, Calls, Informed, Skips
  <2>5. CASE callbacks # <<>>
    <3>1. UNCHANGED <<notifier, worker, main>>
      BY <1>1, <2>5 DEF add_callback
    <3>2. Calls'
      <4>1. CASE main.at = "calling"
        <5>1. /\ notifier.count \in 0 .. Len(callbacks')
              /\ \A i \in 1 .. notifier.count : i \in DOMAIN callbacks
              /\ \A i \in 1 .. notifier.index + 1 : i \in DOMAIN callbacks
          <6>1. notifier.count \in 0 .. Len(callbacks) /\ notifier.index \in -1 .. notifier.count - 1
            BY <4>1 DEF Calls
          <6>2. Len(callbacks) \in Nat /\ Len(callbacks') = Len(callbacks) + 1
            BY <2>3
          <6>3. notifier.count \in 0 .. Len(callbacks')
            BY <6>1, <6>2
          <6>4. \A i \in 1 .. notifier.count : i \in 1 .. Len(callbacks)
            BY <6>1, <6>2
          <6>5. \A i \in 1 .. notifier.index + 1 : i \in 1 .. Len(callbacks)
            BY <6>1, <6>2
          <6>. QED
            BY <6>3, <6>4, <6>5
        <5>. QED
          BY SMTT(30), <2>1, <2>2, <2>3, <3>1, <4>1, <5>1 DEF Calls
      <4>2. CASE main.at # "calling"
        BY <3>1, <4>2 DEF Calls
      <4>. QED
        BY <4>1, <4>2
    <3>3. Informed'
      BY <2>1, <2>2, <2>3, <3>1 DEF Informed
    <3>4. Skips'
      BY <2>1, <2>2, <2>3, <3>1 DEF Skips
    <3>. QED
      BY <3>2, <3>3, <3>4 DEF Guaranteed
  <2>. QED
    BY <2>4, <2>5
<1>2. CASE begin_transaction \/ refresh
  <2>1. /\ main.at # "calling" /\ main'.at # "calling"
        /\ UNCHANGED <<latest, relevant, realm, notifier, callbacks, skipVersion, worker>>
    BY <1>2 DEF begin_transaction, refresh, fileVars, workerVars
  <2>2. Calls' /\ Informed'
    <3>1. \A i \in DOMAIN callbacks : Alike(i)
      BY <2>1 DEF Alike
    <3>2. \A i \in DOMAIN callbacks : callbacks[i].initial_delivered =>
             realm'.version <= notifier.version + 1
      BY <2>1 DEF Informed
    <3>. QED
      BY <2>1, <3>1, <3>2, NewsStay
  <2>3. Skips'
    BY <2>1 DEF Skips
  <2>. QED
    BY <2>2, <2>3 DEF Guaranteed
<1>3. ASSUME beginInCallback
      PROVE  FALSE
  BY <1>3 DEF beginInCallback
<1>4. ASSUME NEW i, suppress_next_notification(i)
      PROVE  Guaranteed'
  <2>1. /\ i \in DOMAIN callbacks /\ callbacks' = [callbacks EXCEPT ![i].skip_next = TRUE]
        /\ realm.writing
        /\ UNCHANGED <<latest, relevant, realm, notifier, skipVersion, worker, main>>
    BY <1>4 DEF suppress_next_notification, fileVars, workerVars
  <2>2. /\ DOMAIN callbacks' = DOMAIN callbacks /\ Len(callbacks') = Len(callbacks)
        /\ \A j \in DOMAIN callbacks : Alike(j)
    <3>1. [callbacks[i] EXCEPT !.skip_next = TRUE] \in Callback
      BY <2>1 DEF Callback
    <3>2. callbacks' \in Seq(Callback) /\ DOMAIN callbacks' = DOMAIN callbacks
      BY <2>1, <3>1
    <3>3. \A j \in DOMAIN callbacks : Alike(j)
      BY <2>1 DEF Alike, Callback
    <3>. QED
      BY <3>2, <3>3
  <2>3. Calls' /\ Informed'
    <3>1. \A j \in DOMAIN callbacks : callbacks[j].initial_delivered =>
             realm'.version <= notifier.version + 1
      BY <2>1 DEF Informed
    <3>. QED
      BY <2>1, <2>2, <3>1, NewsStay
  <2>4. Skips'
    <3>1. callbacks # <<>> /\ callbacks' # <<>>
      BY <2>1, <2>2
    <3>. QED
      BY <2>1, <3>1 DEF Skips
  <2>. QED
    BY <2>3, <2>4 DEF Guaranteed
<1>. QED
  BY <1>1, <1>2, <1>3, <1>4 DEF User

LEMMA GuaranteedWrites ==
    ASSUME Sound, Guaranteed, EndWrite, ~excused'
    PROVE  Guaranteed'
<1>. TypeOK /\ Waits /\ Runs /\ Calls /\ Informed /\ Skips
  BY DEF Sound, Guaranteed
<1>. USE Fields
<1>1. CASE commit_write
  <2>1. /\ realm.writing /\ main.at = "idle" /\ latest' = latest + 1
        /\ relevant' \in {relevant, relevant \cup {latest'}}
        /\ realm' = [version |-> latest', writing |-> FALSE]
        /\ skipVersion' = SkipVersionAfter(latest')
        /\ UNCHANGED <<notifier, worker, main>>
    BY <1>1 DEF commit_write
  <2>2. /\ callbacks' \in [DOMAIN callbacks -> Callback]
        /\ \A i \in DOMAIN callbacks :
              callbacks'[i] = [callbacks[i] EXCEPT !.asked = IF callbacks[i].skip_next
                                                             THEN @ \cup {latest'} ELSE @]
    <3>1. latest' \in Nat
      BY <2>1
    <3>2. \A i \in DOMAIN callbacks :
             [callbacks[i] EXCEPT !.asked = IF callbacks[i].skip_next THEN @ \cup {latest'} ELSE @]
                 \in Callback
      BY <3>1 DEF Callback
    <3>. QED
      BY <1>1, <3>2 DEF commit_write
  <2>3. /\ DOMAIN callbacks' = DOMAIN callbacks /\ Len(callbacks') = Len(callbacks)
        /\ \A i \in DOMAIN callbacks :
              /\ Alike(i) /\ callbacks'[i].skip_next = callbacks[i].skip_next
              /\ callbacks[i].skip_next => latest' \in callbacks'[i].asked
    <3>1. DOMAIN callbacks' = DOMAIN callbacks /\ Len(callbacks') = Len(callbacks)
      BY <2>2, MappedSeq
    <3>2. ASSUME NEW i \in DOMAIN callbacks
          PROVE  /\ Alike(i) /\ callbacks'[i].skip_next = callbacks[i].skip_next
                 /\ callbacks[i].skip_next => latest' \in callbacks'[i].asked
      <4>1. /\ callbacks[i] \in Callback
            /\ callbacks'[i] = [callbacks[i] EXCEPT !.asked = IF callbacks[i].skip_next
                                                             THEN @ \cup {latest'} ELSE @]
        BY <2>2
      <4>2. Alike(i) /\ callbacks'[i].skip_next = callbacks[i].skip_next
        BY <4>1 DEF Alike, Callback
      <4>3. CASE callbacks[i].skip_next
        <5>1. callbacks'[i].asked = callbacks[i].asked \cup {latest'}
          BY <4>1, <4>3 DEF Callback
        <5>. QED
          BY <4>2, <5>1
      <4>. QED
        BY <4>2, <4>3
    <3>. QED
      BY <3>1, <3>2
  <2>4. \A i \in DOMAIN callbacks : notifier.hasRun /\ notifier.version = latest
    <3>1. \A i \in DOMAIN callbacks : callbacks # <<>>
      OBVIOUS
    <3>. QED
      BY <2>1, <3>1 DEF Skips
  <2>5. Calls' /\ Informed'
    <3>1. \A i \in DOMAIN callbacks : callbacks[i].initial_delivered =>
             realm'.version <= notifier.version + 1
      BY <2>1, <2>4
    <3>2. relevant' = relevant \/ relevant' = relevant \cup {latest + 1}
      BY <2>1
    <3>. QED
      BY <2>1, <2>3, <3>1, <3>2, NewsStay
  <2>6. Skips'
    <3>1. notifier.hasRun => skipVersion' = latest'
      BY <2>1 DEF Runs, SkipVersionAfter
    <3>. QED
      BY <2>1, <2>3, <2>4, <3>1 DEF Skips
  <2>. QED
    BY <2>5, <2>6 DEF Guaranteed
<1>2. CASE cancel_transaction
  <2>1. /\ realm.writing /\ realm' = [realm EXCEPT !.writing = FALSE]
        /\ \A i \in DOMAIN callbacks : ~callbacks[i].skip_next
        /\ UNCHANGED <<latest, relevant, notifier, callbacks, skipVersion, worker, main>>
    BY <1>2 DEF cancel_transaction, fileVars, workerVars
  <2>2. realm'.version = realm.version /\ ~realm'.writing
    BY <2>1 DEF TypeOK
  <2>3. Calls' /\ Informed'
    <3>1. \A i \in DOMAIN callbacks : Alike(i)
      BY <2>1 DEF Alike
    <3>2. \A i \in DOMAIN callbacks : callbacks[i].initial_delivered =>
             realm'.version <= notifier.version + 1
      BY <2>2 DEF Informed
    <3>. QED
      BY <2>1, <2>2, <3>1, <3>2, NewsStay
  <2>4. Skips'
    BY <2>1, <2>2 DEF Skips
  <2>. QED
    BY <2>3, <2>4 DEF Guaranteed
<1>. QED
  BY <1>1, <1>2 DEF EndWrite

LEMMA ChangesJoin ==
    ASSUME TypeOK
    PROVE  \A a, b, c \in Nat :
              a <= b /\ b <= c => Between(relevant, a, b) \cup Between(relevant, b, c) = Between(relevant, a, c)
<1>1. relevant \in SUBSET Nat
  BY Fields
<1>2. ASSUME NEW a \in Nat, NEW b \in Nat, NEW c \in Nat, a <= b, b <= c
      PROVE  Between(relevant, a, b) \cup Between(relevant, b, c) = Between(relevant, a, c)
  BY <1>1, <1>2, BetweenJoins
<1>. QED
  BY <1>2

\* A run of the notifier hands over what it has found up to version t.
LEMMA GuaranteedHandover ==
    ASSUME Sound, Guaranteed, worker.mine,
           NEW t \in 0 .. latest, prepare_handover(t),
           \/ worker.at = "skipping" /\ t = worker.skip
           \/ worker.at = "advancing" /\ t = worker.target,
           UNCHANGED <<latest, relevant, realm, main>>
    PROVE  Guaranteed'
<1>. TypeOK /\ Waits /\ Runs /\ Calls /\ Informed /\ Skips
  BY DEF Sound, Guaranteed
<1>. USE Fields
<1> DEFINE n == notifier.version
           v == main.version
           r == realm.version
<1>1. n \in Nat /\ t \in Nat /\ v \in Nat /\ r \in Nat /\ latest \in Nat /\ 0 \in Nat
  OBVIOUS
<1>2. /\ n <= t /\ t <= latest /\ t <= worker.target
      /\ skipVersion # 0 /\ notifier.state = "running" => t < skipVersion
  BY DEF Runs
<1>3. /\ DOMAIN callbacks' = DOMAIN callbacks /\ Len(callbacks') = Len(callbacks)
      /\ notifier'.index = notifier.index /\ notifier'.count = notifier.count
      /\ notifier'.version = t /\ notifier'.hasRun = TRUE
      /\ \A i \in DOMAIN callbacks : callbacks'[i] = Prepared(callbacks[i], t)
  BY Handover
<1>4. ASSUME NEW i \in DOMAIN callbacks, realm.writing
      PROVE  n = t
  <2>1. callbacks # <<>>
    OBVIOUS
  <2>. QED
    BY <1>2, <1>4, <2>1 DEF Skips
<1>5. ASSUME NEW i \in DOMAIN callbacks, callbacks[i].skip_next, n # t
      PROVE  t = n + 1 /\ r = n + 1 /\ r \in callbacks[i].asked
  <2>1. ~realm.writing
    BY <1>4, <1>5
  <2>2. /\ notifier.hasRun
        /\ r = n + 1 /\ r \in callbacks[i].asked
        /\ skipVersion = r \/ (worker.at = "skipping" /\ worker.skip = r)
    BY <1>5, <2>1 DEF Skips
  <2>3. skipVersion # r
    BY <1>1, <1>2, <1>5, <2>2 DEF Runs
  <2>. QED
    BY <2>2, <2>3
<1>6. ASSUME NEW i \in DOMAIN callbacks
      PROVE  /\ callbacks'[i].initial_delivered = callbacks[i].initial_delivered
             /\ callbacks'[i].changes_to_deliver = callbacks[i].changes_to_deliver
             /\ ~callbacks'[i].skip_next
             /\ callbacks'[i].seen = IF callbacks[i].skip_next
                                     THEN callbacks[i].seen \cup (Between(relevant, n, t) \cap callbacks[i].asked)
                                     ELSE callbacks[i].seen
             /\ callbacks'[i].accumulated_changes =
                    IF callbacks[i].skip_next THEN callbacks[i].accumulated_changes
                    ELSE callbacks[i].accumulated_changes \cup Between(relevant, n, t)
  <2>1. callbacks[i] \in Callback /\ callbacks'[i] = Prepared(callbacks[i], t)
    BY <1>3
  <2>. QED
    BY <2>1 DEF Prepared, Callback
<1>7. n = t => Between(relevant, n, t) = {}
  BY <1>1, BetweenNothing
<1>8. \A a, b, c \in Nat :
         a <= b /\ b <= c => Between(relevant, a, b) \cup Between(relevant, b, c) = Between(relevant, a, c)
  BY ChangesJoin
\* What a callback will be told reaches up to t.
<1>9. ASSUME NEW i \in DOMAIN callbacks, NEW d \in Nat, d <= n,
             callbacks[i].accumulated_changes = Between(relevant, d, n),
             n = t \/ ~callbacks[i].skip_next
      PROVE  callbacks'[i].accumulated_changes = Between(relevant, d, t)
  <2>1. CASE n = t
    BY <1>6, <1>7, <1>9, <2>1
  <2>2. CASE ~callbacks[i].skip_next
    <3>1. callbacks'[i].accumulated_changes = Between(relevant, d, n) \cup Between(relevant, n, t)
      BY <1>6, <1>9, <2>2
    <3>. QED
      BY <1>1, <1>2, <1>9, <1>8, <3>1
  <2>. QED
    BY <1>9, <2>1, <2>2
<1>10. main.at = "calling" => r = v /\ v <= n
  BY DEF Calls
<1>11. Calls'
  <2>1. CASE main.at # "calling"
    BY <1>3, <2>1 DEF Calls
  <2>2. CASE main.at = "calling"
    <3>1. /\ notifier.count \in 0 .. Len(callbacks) /\ notifier.index \in -1 .. notifier.count - 1
          /\ \A i \in 1 .. notifier.index + 1 :
                callbacks[i].initial_delivered /\ callbacks[i].changes_to_deliver = {}
          /\ \A i \in 1 .. notifier.count : callbacks[i].accumulated_changes = Between(relevant, v, n)
          /\ \A i \in DOMAIN callbacks : callbacks[i].initial_delivered => i <= notifier.count
      BY <2>2 DEF Calls
    <3>2. \A i \in 1 .. notifier.count : i \in DOMAIN callbacks
      BY <3>1
    <3>3. \A i \in 1 .. notifier.index + 1 : i \in DOMAIN callbacks
      BY <3>1
    <3>4. ASSUME NEW i \in 1 .. notifier.count
          PROVE  callbacks'[i].accumulated_changes = Between(relevant, v, t)
      <4>1. i \in DOMAIN callbacks
        BY <3>2
      <4>2. n = t \/ ~callbacks[i].skip_next
        BY SMTT(30), <1>1, <1>5, <1>10, <2>2, <4>1
      <4>. QED
        BY <1>1, <1>9, <1>10, <2>2, <3>1, <4>1, <4>2
    <3>5. \A i \in 1 .. notifier.index + 1 :
             callbacks'[i].initial_delivered /\ callbacks'[i].changes_to_deliver = {}
      BY <1>6, <3>1, <3>3
    <3>6. \A i \in DOMAIN callbacks' : callbacks'[i].initial_delivered => i <= notifier.count
      BY <1>3, <1>6, <3>1
    <3>7. v <= t
      BY <1>1, <1>2, <1>10, <2>2
    <3>. QED
      BY <1>3, <1>10, <2>2, <3>1, <3>4, <3>5, <3>6, <3>7 DEF Calls
  <2>. QED
    BY <2>1, <2>2
<1>12. ASSUME NEW i \in DOMAIN callbacks, callbacks[i].initial_delivered
       PROVE  /\ r <= t + 1
              /\ main.at # "calling" => \E k \in 0 .. t : Told(callbacks'[i], relevant, k, k, t)
              /\ main.at = "calling" => \E k \in 0 .. v : Told(callbacks'[i], relevant, k, v, t)
              /\ realm.writing \/ t < r => callbacks'[i].accumulated_changes = {}
  <2>1. /\ r <= n + 1
        /\ main.at # "calling" => \E k \in 0 .. n : Told(callbacks[i], relevant, k, k, n)
        /\ main.at = "calling" => \E k \in 0 .. v : Told(callbacks[i], relevant, k, v, n)
        /\ realm.writing \/ n < r => callbacks[i].accumulated_changes = {}
    BY <1>12 DEF Informed
  <2>2. r <= t + 1
    BY <1>1, <1>2, <2>1
  <2>3. CASE n = t
    <3>1. /\ callbacks'[i].seen = callbacks[i].seen
          /\ callbacks'[i].accumulated_changes = callbacks[i].accumulated_changes
          /\ callbacks'[i].changes_to_deliver = callbacks[i].changes_to_deliver
      BY <1>6, <1>7, <2>3
    <3>. QED
      BY <2>1, <2>3, <3>1 DEF Told
  <2>4. CASE n # t /\ ~callbacks[i].skip_next
    <3>1. /\ callbacks'[i].seen = callbacks[i].seen
          /\ callbacks'[i].changes_to_deliver = callbacks[i].changes_to_deliver
      BY <1>6, <2>4
    <3>2. ~realm.writing /\ ~(t < r)
      BY SMTT(30), <1>1, <1>2, <1>4, <2>1, <2>4
    <3>3. ASSUME NEW k \in Nat, NEW d \in Nat, d <= n, Told(callbacks[i], relevant, k, d, n)
          PROVE  Told(callbacks'[i], relevant, k, d, t)
      <4>1. callbacks'[i].accumulated_changes = Between(relevant, d, t)
        BY <1>9, <2>4, <3>3 DEF Told
      <4>. QED
        BY <3>1, <3>3, <4>1 DEF Told
    <3>4. ASSUME main.at # "calling"
          PROVE  \E k \in 0 .. t : Told(callbacks'[i], relevant, k, k, t)
      <4>1. PICK k \in 0 .. n : Told(callbacks[i], relevant, k, k, n)
        BY <2>1, <3>4
      <4>2. k \in 0 .. t /\ k \in Nat /\ k <= n
        BY <1>1, <1>2
      <4>. QED
        BY <3>3, <4>1, <4>2
    <3>5. ASSUME main.at = "calling"
          PROVE  \E k \in 0 .. v : Told(callbacks'[i], relevant, k, v, t)
      <4>1. PICK k \in 0 .. v : Told(callbacks[i], relevant, k, v, n)
        BY <2>1, <3>5
      <4>2. k \in Nat /\ v <= n
        BY <1>1, <1>10, <3>5
      <4>. QED
        BY <1>1, <3>3, <4>1, <4>2
    <3>. QED
      BY <2>2, <3>2, <3>4, <3>5
  <2>5. CASE n # t /\ callbacks[i].skip_next
    <3>1. t = n + 1 /\ r = n + 1 /\ r \in callbacks[i].asked
      BY <1>5, <2>5
    <3>2. main.at # "calling" /\ ~(t < r)
      BY <1>1, <1>10, <3>1
    <3>3. callbacks[i].accumulated_changes = {}
      BY <1>1, <2>1, <3>1
    <3>4. PICK k \in 0 .. n : Told(callbacks[i], relevant, k, k, n)
      BY <2>1, <3>2
    <3>5. k \in Nat /\ k <= n
      BY <1>1
    <3>6. callbacks[i].seen = Between(relevant, 0, n)
      <4>1. Between(relevant, 0, k) \cup Between(relevant, k, n) = Between(relevant, 0, n)
        BY <1>1, <1>8, <3>5
      <4>. QED
        BY ZenonT(30), <3>3, <3>4, <4>1 DEF Told
    <3>7. Between(relevant, n, t) \cap callbacks[i].asked = Between(relevant, n, t)
      BY SMTT(30), <1>1, <3>1, BetweenNext
    <3>8. callbacks'[i].seen = Between(relevant, 0, t)
      <4>1. Between(relevant, 0, n) \cup Between(relevant, n, t) = Between(relevant, 0, t)
        BY <1>1, <1>2, <1>8
      <4>. QED
        BY <1>6, <2>5, <3>6, <3>7, <4>1
    <3>9. /\ Between(relevant, k, k) = {} /\ Between(relevant, t, t) = {}
      BY SMTT(30), <1>1, <3>5, BetweenNothing
    <3>10. /\ callbacks'[i].accumulated_changes = {} /\ callbacks'[i].changes_to_deliver = {}
      BY <1>6, <2>5, <3>3, <3>4, <3>9 DEF Told
    <3>11. Told(callbacks'[i], relevant, t, t, t) /\ t \in 0 .. t
      BY <1>1, <3>8, <3>9, <3>10 DEF Told
    <3>. QED
      BY <2>2, <3>2, <3>10, <3>11
  <2>. QED
    BY <2>3, <2>4, <2>5
<1>13. Informed'
  BY <1>3, <1>6, <1>12 DEF Informed
<1>14. Skips'
  <2>1. \A i \in DOMAIN callbacks' : ~callbacks'[i].skip_next
    BY <1>3, <1>6
  <2>2. ASSUME realm.writing, callbacks' # <<>>
        PROVE  t = latest
    <3>1. callbacks # <<>>
      BY <1>3, <2>2
    <3>2. n = latest
      BY <2>2, <3>1 DEF Skips
    <3>. QED
      BY <1>1, <1>2, <3>2
  <2>. QED
    BY <1>3, <2>1, <2>2 DEF Skips
<1>. QED
  BY <1>11, <1>13, <1>14 DEF Guaranteed

LEMMA GuaranteedWorker ==
    ASSUME Sound, Guaranteed, Worker
    PROVE  Guaranteed'
<1>. TypeOK /\ Waits /\ Runs /\ Calls /\ Informed /\ Skips
  BY DEF Sound, Guaranteed
<1>. USE Fields
<1>1. CASE startRun
  <2> DEFINE skip == IF notifier.state = "running" THEN skipVersion ELSE 0
  <2>1. /\ worker.at = "idle"
        /\ UNCHANGED <<latest, relevant, realm, callbacks, main>>
    BY <1>1 DEF startRun, fileVars
  <2>2. CASE notifier.state = "none"
    <3>1. UNCHANGED <<notifier, skipVersion, worker>>
      BY <1>1, <2>2 DEF startRun, workerVars
    <3>. QED
      BY <2>1, <3>1 DEF Guaranteed, Calls, Informed, Skips
  <2>3. CASE notifier.state # "none"
    <3>1. /\ worker' = [at |-> IF skip # 0 THEN "skipping" ELSE "advancing",
                        target |-> latest, skip |-> skip, mine |-> TRUE]
          /\ notifier' = [notifier EXCEPT !.state = "running"]
      BY <1>1, <2>3 DEF startRun
    <3>2. /\ notifier'.version = notifier.version /\ notifier'.hasRun = notifier.hasRun
          /\ notifier'.index = notifier.index /\ notifier'.count = notifier.count
      BY <3>1 DEF TypeOK
    <3>3. Calls' /\ Informed'
      <4>1. \A i \in DOMAIN callbacks : Alike(i)
        BY <2>1 DEF Alike
      <4>2. \A i \in DOMAIN callbacks : callbacks[i].initial_delivered =>
               realm'.version <= notifier.version + 1
        BY <2>1 DEF Informed
      <4>. QED
        BY <2>1, <3>2, <4>1, <4>2, NewsStay
    <3>4. Skips'
      <4>1. notifier.hasRun /\ skipVersion = realm.version =>
               worker'.at = "skipping" /\ worker'.mine /\ worker'.skip = realm.version
        BY <3>1 DEF Runs
      <4>. QED
        BY <2>1, <3>2, <4>1 DEF Skips
    <3>. QED
      BY <3>3, <3>4 DEF Guaranteed
  <2>. QED
    BY <2>2, <2>3
<1>2. CASE runToSkipVersion \/ finishRun
  <2> DEFINE t == IF worker.at = "skipping" THEN worker.skip ELSE worker.target
  <2>1. /\ t \in 0 .. latest /\ prepare_handover(t)
        /\ \/ worker.at = "skipping" /\ t = worker.skip
           \/ worker.at = "advancing" /\ t = worker.target
        /\ UNCHANGED <<latest, relevant, realm, main, skipVersion>>
        /\ worker'.at # "skipping"
    BY <1>2 DEF runToSkipVersion, finishRun, fileVars, Idle, TypeOK
  <2> HIDE DEF t
  <2>2. CASE worker.mine
    BY <2>1, <2>2, GuaranteedHandover
  <2>3. CASE ~worker.mine
    <3>1. UNCHANGED <<notifier, callbacks>>
      BY <2>1, <2>3, Handover
    <3>. QED
      BY <2>1, <2>3, <3>1 DEF Guaranteed, Calls, Informed, Skips
  <2>. QED
    BY <2>2, <2>3
<1>. QED
  BY <1>1, <1>2 DEF Worker

\* The callbacks are about to be called with the Realm at the notifier's version.
LEMMA GuaranteedDeliver ==
    ASSUME Sound, Guaranteed, main.at # "calling", ~realm.writing, notifier.hasRun,
           realm.version <= notifier.version, deliverAt(notifier.version),
           realm'.version = notifier.version,
           realm'.writing => notifier.version = latest,
           UNCHANGED <<latest, relevant, skipVersion, worker>>
    PROVE  Guaranteed'
<1>. TypeOK /\ Calls /\ Informed /\ Skips
  BY DEF Sound, Guaranteed
<1>. USE Fields
<1> DEFINE n == notifier.version
<1>1. n \in Nat /\ n \in 0 .. latest
  OBVIOUS
<1>2. /\ Len(callbacks') = Len(callbacks) /\ DOMAIN callbacks' = DOMAIN callbacks
      /\ \A i \in DOMAIN callbacks :
            callbacks'[i] = [callbacks[i] EXCEPT !.changes_to_deliver = callbacks[i].accumulated_changes,
                                                 !.accumulated_changes = {}]
      /\ notifier'.hasRun = notifier.hasRun /\ notifier'.version = n
      /\ notifier'.index = notifier.index /\ notifier'.count = Len(callbacks)
      /\ main' = [at |-> "calling", for |-> "callbacks", version |-> n]
  BY Delivers
<1>3. ASSUME NEW i \in DOMAIN callbacks
      PROVE  /\ callbacks'[i].initial_delivered = callbacks[i].initial_delivered
             /\ callbacks'[i].seen = callbacks[i].seen
             /\ callbacks'[i].changes_to_deliver = callbacks[i].accumulated_changes
             /\ callbacks'[i].accumulated_changes = {}
             /\ callbacks'[i].skip_next = callbacks[i].skip_next
  BY <1>2 DEF Callback
<1>4. Between(relevant, n, n) = {}
  BY <1>1, BetweenNothing
<1>5. /\ main'.at = "calling" /\ main'.version = n /\ notifier'.hasRun
      /\ notifier'.version = n /\ notifier'.index = -1 /\ notifier'.count = Len(callbacks)
      /\ Len(callbacks') = Len(callbacks) /\ DOMAIN callbacks' = 1 .. Len(callbacks)
  <2>1. notifier.index = -1
    BY DEF Calls, npos
  <2>. QED
    BY <1>2, <2>1
<1>6. Calls'
  <2>1. Len(callbacks) \in Nat
    OBVIOUS
  <2>2. Len(callbacks) \in 0 .. Len(callbacks) /\ -1 \in -1 .. Len(callbacks) - 1
    OBVIOUS
  <2>3. \A i \in 1 .. -1 + 1 : FALSE
    OBVIOUS
  <2>4. /\ notifier'.count \in 0 .. Len(callbacks')
        /\ notifier'.index = -1 /\ notifier'.index \in -1 .. notifier'.count - 1
    BY <1>5, <2>1, <2>2
  <2>5. \A i \in 1 .. notifier'.index + 1 :
           callbacks'[i].initial_delivered /\ callbacks'[i].changes_to_deliver = {}
    BY <2>3, <2>4
  <2>6. \A i \in 1 .. notifier'.count :
           callbacks'[i].accumulated_changes = Between(relevant', main'.version, notifier'.version)
    BY <1>2, <1>3, <1>4, <1>5
  <2>7. \A i \in DOMAIN callbacks' : callbacks'[i].initial_delivered => i <= notifier'.count
    BY <1>5, <2>1
  <2>8. /\ notifier'.hasRun /\ main'.version = realm'.version
        /\ main'.version <= notifier'.version
    BY <1>1, <1>5
  <2>. QED
    BY <1>5, <2>4, <2>5, <2>6, <2>7, <2>8 DEF Calls
<1>7. Informed'
  <2>1. ASSUME NEW i \in DOMAIN callbacks, callbacks[i].initial_delivered
        PROVE  \E k \in 0 .. n : Told(callbacks'[i], relevant, k, n, n)
    <3>1. PICK k \in 0 .. n : Told(callbacks[i], relevant, k, k, n)
      BY <2>1 DEF Informed
    <3>2. Told(callbacks'[i], relevant, k, n, n)
      BY <1>3, <1>4, <3>1 DEF Told
    <3>. QED
      BY <3>2
  <2>2. ASSUME NEW i \in DOMAIN callbacks', callbacks'[i].initial_delivered
        PROVE  /\ notifier'.hasRun /\ realm'.version <= notifier'.version + 1
               /\ \E k \in 0 .. main'.version :
                     Told(callbacks'[i], relevant', k, main'.version, notifier'.version)
               /\ callbacks'[i].accumulated_changes = {}
    <3>1. i \in DOMAIN callbacks /\ callbacks[i].initial_delivered
      BY <1>2, <1>3, <2>2
    <3>2. \E k \in 0 .. n : Told(callbacks'[i], relevant, k, n, n)
      BY <2>1, <3>1
    <3>3. n <= n + 1
      BY <1>1
    <3>. QED
      BY <1>2, <1>3, <1>5, <3>1, <3>2, <3>3
  <2>. QED
    BY <1>5, <2>2 DEF Informed
<1>8. Skips'
  <2>1. \A i \in DOMAIN callbacks : ~callbacks[i].skip_next
    BY <1>1 DEF Skips
  <2>. QED
    BY <1>2, <1>3, <2>1 DEF Skips
<1>. QED
  BY <1>6, <1>7, <1>8 DEF Guaranteed

LEMMA GuaranteedNotify ==
    ASSUME Sound, Guaranteed, notify
    PROVE  Guaranteed'
<1>. TypeOK /\ Waits /\ Calls /\ Informed /\ Skips
  BY DEF Sound, Guaranteed
<1>. USE Fields
<1>1. /\ main.at = "idle"
      /\ UNCHANGED <<latest, relevant, skipVersion, worker>>
  BY DEF notify, fileVars, workerVars
<1>2. CASE UNCHANGED <<realm, notifier, callbacks, main>>
  BY <1>1, <1>2 DEF Guaranteed, Calls, Informed, Skips
<1>3. CASE ~realm.writing /\ IsAtRealmsVersion /\ deliverAt(realm.version) /\ UNCHANGED realm
  BY <1>1, <1>3, GuaranteedDeliver DEF IsAtRealmsVersion
<1>4. CASE /\ ~realm.writing /\ ~notifier.hasRun /\ realm' = [realm EXCEPT !.version = latest]
           /\ UNCHANGED <<notifier, callbacks, main>>
  <2>1. ~realm'.writing
    BY <1>4 DEF TypeOK
  <2>2. \A i \in DOMAIN callbacks : ~callbacks[i].initial_delivered /\ ~callbacks[i].skip_next
    BY <1>4 DEF Informed, Skips
  <2>. QED
    BY <1>1, <1>4, <2>1, <2>2 DEF Guaranteed, Calls, Informed, Skips
<1>5. CASE /\ ~realm.writing /\ notifier.hasRun /\ notifier.version < realm.version
           /\ callbacks' = Packaged(callbacks)
           /\ notifier' = [notifier EXCEPT !.count = Len(callbacks)] /\ UNCHANGED <<realm, main>>
  <2>1. /\ notifier'.hasRun = notifier.hasRun /\ notifier'.version = notifier.version
        /\ notifier'.index = notifier.index
    BY <1>5 DEF TypeOK
  <2>2. ASSUME NEW i \in DOMAIN callbacks
        PROVE  /\ callbacks'[i].initial_delivered = callbacks[i].initial_delivered
               /\ callbacks'[i].seen = callbacks[i].seen
               /\ callbacks'[i].changes_to_deliver = callbacks[i].accumulated_changes
               /\ callbacks'[i].accumulated_changes = {}
               /\ callbacks'[i].skip_next = callbacks[i].skip_next
               /\ callbacks'[i].asked = callbacks[i].asked
    <3>1. /\ callbacks[i] \in Callback
          /\ callbacks'[i] = [callbacks[i] EXCEPT !.changes_to_deliver = callbacks[i].accumulated_changes,
                                                  !.accumulated_changes = {}]
      BY <1>5, PackagedSeq
    <3>. QED
      BY <3>1 DEF Callback
  <2>3. DOMAIN callbacks' = DOMAIN callbacks
    BY <1>5, PackagedSeq
  <2>4. ASSUME NEW i \in DOMAIN callbacks, callbacks[i].initial_delivered
        PROVE  \E k \in 0 .. notifier.version : Told(callbacks'[i], relevant, k, k, notifier.version)
    <3>1. callbacks[i].accumulated_changes = {}
      BY <1>5, <2>4 DEF Informed
    <3>2. PICK k \in 0 .. notifier.version : Told(callbacks[i], relevant, k, k, notifier.version)
      BY <1>1, <2>4 DEF Informed
    <3>3. k \in Nat /\ relevant \in SUBSET Nat
      OBVIOUS
    <3>4. Between(relevant, k, k) = {}
      BY <3>3, BetweenNothing
    <3>5. Told(callbacks'[i], relevant, k, k, notifier.version)
      BY <2>2, <3>1, <3>2, <3>4 DEF Told
    <3>. QED
      BY <3>5
  <2>5. Calls'
    BY <1>1, <1>5, <2>1 DEF Calls
  <2>6. Informed'
    BY <1>1, <1>5, <2>1, <2>2, <2>3, <2>4 DEF Informed
  <2>7. Skips'
    BY <1>1, <1>5, <2>1, <2>2, <2>3 DEF Skips
  <2>. QED
    BY <2>5, <2>6, <2>7 DEF Guaranteed
<1>6. CASE /\ ~realm.writing /\ notifier.hasRun /\ notifier.version >= realm.version
           /\ realm' = [realm EXCEPT !.version = notifier.version] /\ deliverAt(notifier.version)
  <2>1. realm'.version = notifier.version /\ ~realm'.writing
    BY <1>6 DEF TypeOK
  <2>2. realm.version <= notifier.version
    BY <1>6
  <2>. QED
    BY <1>1, <1>6, <2>1, <2>2, GuaranteedDeliver
<1>. QED
  BY <1>2, <1>3, <1>4, <1>5, <1>6 DEF notify

LEMMA GuaranteedAdvance ==
    ASSUME Sound, Guaranteed, advance
    PROVE  Guaranteed'
<1>. TypeOK /\ Waits /\ Calls /\ Informed /\ Skips
  BY DEF Sound, Guaranteed
<1>. USE Fields
<1> DEFINE deliver == notifier.hasRun /\ notifier.version >= main.version
           version == IF deliver /\ main.for = "refresh" THEN notifier.version ELSE latest
<1>1. /\ main.at = "waiting" /\ IsReady(main.version)
      /\ realm' = [version |-> version, writing |-> main.for = "begin"]
      /\ IF deliver THEN deliverAt(version)
         ELSE main' = Resting /\ UNCHANGED <<callbacks, notifier>>
      /\ UNCHANGED <<latest, relevant, skipVersion, worker>>
  BY DEF advance, fileVars, workerVars
<1>2. /\ ~realm.writing /\ realm.version <= main.version
      /\ main.for = "begin" => main.version = latest
      /\ main.for \in {"begin", "refresh"}
  BY <1>1 DEF Waits
<1>3. CASE deliver
  <2>1. version = notifier.version
    BY <1>2, <1>3
  <2>2. main.for = "begin" => notifier.version = latest
    BY <1>2, <1>3
  <2>3. realm.version <= notifier.version
    BY <1>2, <1>3
  <2> HIDE DEF version
  <2>. QED
    BY <1>1, <1>2, <1>3, <2>1, <2>2, <2>3, GuaranteedDeliver
<1>4. CASE ~deliver
  <2>1. callbacks = <<>>
    BY <1>1, <1>4 DEF IsReady
  <2>2. main'.at # "calling" /\ notifier'.index = npos /\ callbacks' = <<>>
    BY <1>1, <1>4, <2>1 DEF Resting, Calls
  <2>. QED
    BY <2>2 DEF Guaranteed, Calls, Informed, Skips
<1>. QED
  BY <1>3, <1>4

\* While callbacks are called nothing is written that the notifier has not reached.
LEMMA CallsAreUpToDate ==
    ASSUME Sound, Guaranteed, main.at = "calling", NEW i \in DOMAIN callbacks,
           realm.writing \/ notifier.version < realm.version
    PROVE  Between(relevant, main.version, notifier.version) = {}
<1>. TypeOK /\ Waits /\ Calls /\ Skips
  BY DEF Sound, Guaranteed
<1>. USE Fields
<1>1. main.version = realm.version /\ main.version <= notifier.version
  BY DEF Calls
<1>2. realm.writing
  BY <1>1
<1>3. callbacks # <<>>
  OBVIOUS
<1>4. notifier.version = latest /\ realm.version = latest
  BY <1>2, <1>3 DEF Waits, Skips
<1>. QED
  BY <1>1, <1>4, BetweenNothing

LEMMA IndexRange ==
    ASSUME NEW index \in Int, NEW count \in Int, NEW length \in Nat,
           -1 <= index, index + 1 < count, count <= length
    PROVE  /\ index + 2 \in 1 .. count /\ index + 2 \in 1 .. length
           /\ count \in 0 .. length /\ index + 1 \in -1 .. count - 1
  OBVIOUS

LEMMA GuaranteedCall ==
    ASSUME Sound, Guaranteed, callNext
    PROVE  Guaranteed'
<1>. TypeOK /\ Waits /\ Calls /\ Informed /\ Skips
  BY DEF Sound, Guaranteed
<1>. USE Fields
<1> DEFINE n == notifier.version
           v == main.version
           j == notifier.index + 2
           c == callbacks[j]
<1>1. /\ main.at = "calling" /\ IsCounted(notifier.index + 1)
      /\ notifier' = [notifier EXCEPT !.index = notifier.index + 1]
      /\ callbacks' = IF c.initial_delivered /\ c.changes_to_deliver = {} THEN callbacks
                      ELSE [callbacks EXCEPT ![j] = Called(c)]
      /\ UNCHANGED <<latest, relevant, realm, skipVersion, worker, main>>
  <2>1. (notifier.index + 1) + 1 = j
    OBVIOUS
  <2>. QED
    BY <2>1 DEF callNext, fileVars, workerVars
<1>2. /\ notifier.hasRun /\ v = realm.version /\ v <= n
      /\ notifier.count \in 0 .. Len(callbacks) /\ notifier.index \in -1 .. notifier.count - 1
      /\ \A i \in 1 .. notifier.index + 1 :
            callbacks[i].initial_delivered /\ callbacks[i].changes_to_deliver = {}
      /\ \A i \in 1 .. notifier.count : callbacks[i].accumulated_changes = Between(relevant, v, n)
      /\ \A i \in DOMAIN callbacks : callbacks[i].initial_delivered => i <= notifier.count
  BY <1>1 DEF Calls
<1>3. /\ notifier.index \in Int /\ notifier.count \in Int
      /\ -1 <= notifier.index /\ notifier.index + 1 < notifier.count /\ notifier.count <= Len(callbacks)
      /\ j \in 1 .. notifier.count /\ j \in DOMAIN callbacks
      /\ notifier.count \in 0 .. Len(callbacks)
      /\ notifier.index + 1 \in -1 .. notifier.count - 1
  <2>1. notifier.index \in Int /\ notifier.count \in Int
    OBVIOUS
  <2>2. /\ -1 <= notifier.index /\ 0 <= notifier.count /\ notifier.count <= Len(callbacks)
    BY <1>2, <2>1
  <2>3. notifier.index + 1 < notifier.count
    BY <1>1, <2>1, <2>2 DEF IsCounted
  <2>. QED
    BY <2>1, <2>2, <2>3, IndexRange
<1>4. /\ notifier'.index = notifier.index + 1 /\ notifier'.count = notifier.count
      /\ notifier'.version = n /\ notifier'.hasRun
  BY <1>1, <1>2 DEF TypeOK
<1>5. c \in Callback
  BY <1>3
<1>6. n \in Nat /\ v \in Nat /\ 0 \in Nat
  OBVIOUS
<1>7. \A i \in 1 .. notifier'.index + 1 : i \in 1 .. notifier.index + 1 \/ i = j
  BY <1>3, <1>4
\* The callback after the index is passed over or called.
<1>8. /\ DOMAIN callbacks' = DOMAIN callbacks /\ Len(callbacks') = Len(callbacks)
      /\ \A i \in DOMAIN callbacks : i # j => callbacks'[i] = callbacks[i]
      /\ callbacks'[j] = IF c.initial_delivered /\ c.changes_to_deliver = {} THEN c ELSE Called(c)
  <2> HIDE DEF j
  <2>1. CASE c.initial_delivered /\ c.changes_to_deliver = {}
    BY <1>1, <2>1
  <2>2. CASE ~(c.initial_delivered /\ c.changes_to_deliver = {})
    <3>1. Called(c) \in Callback
      BY <1>5, CalledCallback
    <3>. QED
      BY <1>1, <1>3, <2>2, <3>1
  <2>. QED
    BY <2>1, <2>2
<1> HIDE DEF j
<1>9. /\ Called(c).initial_delivered = TRUE /\ Called(c).changes_to_deliver = {}
      /\ Called(c).accumulated_changes = c.accumulated_changes
      /\ Called(c).skip_next = c.skip_next /\ Called(c).asked = c.asked
      /\ Called(c).seen = IF c.initial_delivered THEN c.seen \cup c.changes_to_deliver
                          ELSE Changes(0, realm.version)
  BY <1>5 DEF Called, Callback
<1>10. /\ callbacks'[j].initial_delivered = TRUE /\ callbacks'[j].changes_to_deliver = {}
       /\ callbacks'[j].accumulated_changes = c.accumulated_changes
       /\ callbacks'[j].skip_next = c.skip_next /\ callbacks'[j].asked = c.asked
  <2>1. c.initial_delivered \in BOOLEAN
    BY <1>5 DEF Callback
  <2>. QED
    BY <1>8, <1>9, <2>1
<1>11. ASSUME ~(c.initial_delivered /\ c.changes_to_deliver = {})
       PROVE  Told(callbacks'[j], relevant, v, v, n)
  <2>1. Called(c).seen = Between(relevant, 0, v)
    <3>1. CASE c.initial_delivered
      <4>1. PICK k \in 0 .. v : Told(c, relevant, k, v, n)
        BY <1>1, <1>3, <3>1 DEF Informed
      <4>2. k \in Nat /\ 0 <= k /\ k <= v
        BY <1>6
      <4>3. Between(relevant, 0, k) \cup Between(relevant, k, v) = Between(relevant, 0, v)
        BY <1>6, <4>2, ChangesJoin
      <4>. QED
        BY <1>9, <3>1, <4>1, <4>3 DEF Told
    <3>2. CASE ~c.initial_delivered
      BY <1>2, <1>9, <3>2, ChangesAreBetween
    <3>. QED
      BY <3>1, <3>2
  <2>2. Between(relevant, v, v) = {}
    BY <1>6, BetweenNothing
  <2>3. c.accumulated_changes = Between(relevant, v, n)
    BY <1>2, <1>3
  <2>4. callbacks'[j] = Called(c)
    BY <1>8, <1>11
  <2>. QED
    BY <1>10, <2>1, <2>2, <2>3, <2>4 DEF Told
<1>12. Calls'
  <2>1. notifier'.count \in 0 .. Len(callbacks') /\ notifier'.index \in -1 .. notifier'.count - 1
    BY <1>3, <1>4, <1>8
  <2>2. ASSUME NEW i \in 1 .. notifier'.index + 1
        PROVE  callbacks'[i].initial_delivered /\ callbacks'[i].changes_to_deliver = {}
    <3>1. i = j \/ (i \in 1 .. notifier.index + 1 /\ i \in DOMAIN callbacks /\ i # j)
      <4>1. i \in 1 .. notifier.index + 1 => i \in DOMAIN callbacks
        BY <1>3
      <4>. QED
        BY <1>7, <4>1
    <3>. QED
      BY <1>2, <1>8, <1>10, <3>1
  <2>3. ASSUME NEW i \in 1 .. notifier.count
        PROVE  callbacks'[i].accumulated_changes = Between(relevant, v, n)
    <3>1. i \in DOMAIN callbacks
      BY <1>2
    <3>. QED
      BY <1>2, <1>8, <1>10, <3>1
  <2>4. ASSUME NEW i \in DOMAIN callbacks', callbacks'[i].initial_delivered
        PROVE  i <= notifier.count
    <3>1. CASE i = j
      BY <1>2, <1>3, <3>1
    <3>2. CASE i # j
      BY <1>2, <1>8, <2>4, <3>2
    <3>. QED
      BY <3>1, <3>2
  <2>5. /\ main'.at = "calling" /\ notifier'.hasRun /\ main'.version = realm'.version
        /\ main'.version <= notifier'.version
    BY <1>1, <1>2, <1>4
  <2>6. \A i \in 1 .. notifier'.count :
           callbacks'[i].accumulated_changes = Between(relevant', main'.version, notifier'.version)
    BY <1>1, <1>4, <2>3
  <2>7. \A i \in DOMAIN callbacks' : callbacks'[i].initial_delivered => i <= notifier'.count
    BY <1>4, <2>4
  <2>. QED
    BY <2>1, <2>2, <2>5, <2>6, <2>7 DEF Calls
<1>13. ASSUME NEW i \in DOMAIN callbacks', callbacks'[i].initial_delivered
       PROVE  /\ realm.version <= n + 1
              /\ \E k \in 0 .. v : Told(callbacks'[i], relevant, k, v, n)
              /\ realm.writing \/ n < realm.version => callbacks'[i].accumulated_changes = {}
  <2>1. realm.version <= n + 1
    BY <1>2, <1>6
  <2>2. CASE i # j \/ (c.initial_delivered /\ c.changes_to_deliver = {})
    <3>1. i \in DOMAIN callbacks /\ callbacks'[i] = callbacks[i]
      BY <1>8, <2>2
    <3>. QED
      BY <1>1, <1>13, <2>1, <3>1 DEF Informed
  <2>3. CASE i = j /\ ~(c.initial_delivered /\ c.changes_to_deliver = {})
    <3>1. v \in 0 .. v
      BY <1>6
    <3>2. \E k \in 0 .. v : Told(callbacks'[i], relevant, k, v, n)
      BY <1>11, <2>3, <3>1
    <3>3. callbacks'[i].accumulated_changes = Between(relevant, v, n)
      BY <1>2, <1>3, <1>10, <2>3
    <3>4. realm.writing \/ n < realm.version => callbacks'[i].accumulated_changes = {}
      BY <1>1, <1>3, <3>3, CallsAreUpToDate
    <3>. QED
      BY <2>1, <3>2, <3>4
  <2>. QED
    BY <2>2, <2>3
<1>14. Informed'
  BY <1>1, <1>4, <1>13 DEF Informed
<1>15. Skips'
  <2>1. ASSUME NEW i \in DOMAIN callbacks', callbacks'[i].skip_next
        PROVE  /\ i \in DOMAIN callbacks /\ callbacks[i].skip_next
               /\ callbacks'[i].asked = callbacks[i].asked
    <3>1. CASE i = j
      BY <1>3, <1>10, <2>1, <3>1
    <3>2. CASE i # j
      BY <1>8, <2>1, <3>2
    <3>. QED
      BY <3>1, <3>2
  <2>2. callbacks # <<>>
    BY <1>3
  <2>. QED
    BY <1>1, <1>2, <1>4, <2>1, <2>2 DEF Skips
<1>. QED
  BY <1>12, <1>14, <1>15 DEF Guaranteed

LEMMA GuaranteedEnd ==
    ASSUME Sound, Guaranteed, endDelivery
    PROVE  Guaranteed'
<1>. TypeOK /\ Calls /\ Informed /\ Skips
  BY DEF Sound, Guaranteed
<1>. USE Fields
<1> DEFINE n == notifier.version
           v == main.version
<1>1. /\ main'.at = "idle"
      /\ UNCHANGED <<latest, relevant, realm, callbacks, skipVersion, worker>>
  BY DEF endDelivery, fileVars, workerVars, Resting
<1>2. CASE main.at = "leaving" /\ UNCHANGED notifier
  BY <1>1, <1>2 DEF Guaranteed, Calls, Informed, Skips
<1>3. CASE /\ main.at = "calling"
           /\ ~(IsCounted(notifier.index + 1) /\ notifier.index + 1 < Len(callbacks))
           /\ notifier' = [notifier EXCEPT !.index = npos]
  <2>1. /\ notifier'.index = npos /\ notifier'.hasRun = notifier.hasRun /\ notifier'.version = n
    BY <1>3 DEF TypeOK, npos
  <2>2. /\ v <= n /\ notifier.count \in 0 .. Len(callbacks)
        /\ notifier.index \in -1 .. notifier.count - 1
        /\ \A i \in 1 .. notifier.index + 1 : callbacks[i].changes_to_deliver = {}
        /\ \A i \in DOMAIN callbacks : callbacks[i].initial_delivered => i <= notifier.count
    BY <1>3 DEF Calls
  <2>3. notifier.count = notifier.index + 1
    BY SMTT(30), <1>3, <2>2 DEF IsCounted
  <2>4. ASSUME NEW i \in DOMAIN callbacks, callbacks[i].initial_delivered
        PROVE  \E k \in 0 .. n : Told(callbacks[i], relevant, k, k, n)
    <3>1. i \in 1 .. notifier.index + 1
      BY <2>2, <2>3, <2>4
    <3>2. callbacks[i].changes_to_deliver = {}
      BY <2>2, <3>1
    <3>3. PICK k \in 0 .. v : Told(callbacks[i], relevant, k, v, n)
      BY <1>3, <2>4 DEF Informed
    <3>4. k \in Nat /\ 0 <= k /\ k <= v /\ v \in Nat /\ 0 \in Nat /\ v \in 0 .. n
      BY <2>2
    <3>5. Between(relevant, 0, k) \cup Between(relevant, k, v) = Between(relevant, 0, v)
      BY <3>4, ChangesJoin
    <3>6. Between(relevant, v, v) = {}
      BY <3>4, BetweenNothing
    <3>7. Told(callbacks[i], relevant, v, v, n)
      BY <3>2, <3>3, <3>5, <3>6 DEF Told
    <3>. QED
      BY <3>4, <3>7
  <2>5. Calls'
    BY <1>1, <2>1 DEF Calls
  <2>6. Informed'
    BY <1>1, <2>1, <2>4 DEF Informed
  <2>7. Skips'
    BY <1>1, <2>1 DEF Skips
  <2>. QED
    BY <2>5, <2>6, <2>7 DEF Guaranteed
<1>. QED
  BY <1>2, <1>3 DEF endDelivery

\* Callback j after the removal of callback i was callback Old(i, j).
Old(i, j) == IF j < i + 1 THEN j ELSE j + 1

LEMMA GuaranteedRemoval ==
    ASSUME Sound, Guaranteed, NEW i, remove_callback(i), ~excused'
    PROVE  Guaranteed'
<1>. TypeOK /\ Calls /\ Informed /\ Skips
  BY DEF Sound, Guaranteed
<1>. USE Fields
<1> DEFINE n == notifier.version
           v == main.version
<1>1. /\ i \in 0 .. Len(callbacks) - 1 /\ callbacks' = RemoveAt(callbacks, i + 1)
      /\ notifier' = [notifier EXCEPT !.index = IndexAfterRemoval(i), !.count = @ - 1]
      /\ ~(main.at = "calling" /\ ~IsCounted(i))
      /\ UNCHANGED <<latest, relevant, realm, skipVersion, worker, main>>
  BY DEF remove_callback, fileVars, workerVars
<1>2. /\ notifier'.index = IndexAfterRemoval(i) /\ notifier'.count = notifier.count - 1
      /\ notifier'.version = n /\ notifier'.hasRun = notifier.hasRun
  BY <1>1 DEF TypeOK
<1>3. /\ DOMAIN callbacks' = 1 .. Len(callbacks) - 1 /\ Len(callbacks') = Len(callbacks) - 1
      /\ \A j \in 1 .. Len(callbacks) - 1 :
            Old(i, j) \in DOMAIN callbacks /\ callbacks'[j] = callbacks[Old(i, j)]
  <2>1. i + 1 \in 1 .. Len(callbacks)
    BY SMTT(30), <1>1
  <2>2. /\ callbacks' \in Seq(Callback) /\ Len(callbacks') = Len(callbacks) - 1
        /\ \A j \in 1 .. Len(callbacks) - 1 :
              callbacks'[j] = IF j < i + 1 THEN callbacks[j] ELSE callbacks[j + 1]
    BY ZenonT(30), <1>1, <2>1, ShorterSeq
  <2>3. \A j \in 1 .. Len(callbacks) - 1 : Old(i, j) \in DOMAIN callbacks
    BY SMTT(30), <1>1 DEF Old
  <2>. QED
    BY SMTT(30), <2>2, <2>3 DEF Old
<1>4. callbacks # <<>>
  BY <1>1
<1>5. Calls'
  <2>1. CASE main.at # "calling"
    BY <1>1, <1>2, <2>1 DEF Calls, IndexAfterRemoval
  <2>2. CASE main.at = "calling"
    <3>1. /\ notifier.hasRun /\ v = realm.version /\ v <= n
          /\ notifier.count \in 0 .. Len(callbacks) /\ notifier.index \in -1 .. notifier.count - 1
          /\ \A j \in 1 .. notifier.index + 1 :
                callbacks[j].initial_delivered /\ callbacks[j].changes_to_deliver = {}
          /\ \A j \in 1 .. notifier.count : callbacks[j].accumulated_changes = Between(relevant, v, n)
          /\ \A j \in DOMAIN callbacks : callbacks[j].initial_delivered => j <= notifier.count
      BY <2>2 DEF Calls
    <3>2. /\ notifier.index \in Int /\ notifier.count \in Int /\ Len(callbacks) \in Nat
          /\ -1 <= notifier.index /\ notifier.index + 1 <= notifier.count
          /\ notifier.count <= Len(callbacks) /\ 0 <= notifier.count
      <4>1. notifier.index \in Int /\ notifier.count \in Int /\ Len(callbacks) \in Nat
        OBVIOUS
      <4>. QED
        BY <3>1, <4>1
    <3>3. i < notifier.count
      BY <1>1, <2>2, <3>2 DEF IsCounted
    <3>4. /\ notifier'.index =
                IF notifier.index # -1 /\ notifier.index >= i THEN notifier.index - 1 ELSE notifier.index
          /\ notifier'.index \in Int
      BY <1>2, <3>2 DEF IndexAfterRemoval, npos
    <3>5. /\ notifier'.index \in -1 .. (notifier.count - 1) - 1
          /\ notifier.count - 1 \in 0 .. Len(callbacks) - 1
          /\ \A j \in 1 .. notifier'.index + 1 :
                j \in 1 .. Len(callbacks) - 1 /\ Old(i, j) \in 1 .. notifier.index + 1
          /\ \A j \in 1 .. notifier.count - 1 :
                j \in 1 .. Len(callbacks) - 1 /\ Old(i, j) \in 1 .. notifier.count
          /\ \A j \in 1 .. Len(callbacks) - 1 : Old(i, j) <= notifier.count => j <= notifier.count - 1
      <4> DEFINE index == notifier.index
                 count == notifier.count
                 length == Len(callbacks)
                 after == notifier'.index
      <4>1. /\ index \in Int /\ count \in Int /\ length \in Nat /\ i \in 0 .. length - 1
            /\ -1 <= index /\ index + 1 <= count /\ count <= length /\ i < count /\ after \in Int
            /\ after = IF index # -1 /\ index >= i THEN index - 1 ELSE index
        BY <1>1, <3>2, <3>3, <3>4
      <4> HIDE DEF index, count, length, after
      <4>2. /\ after \in -1 .. (count - 1) - 1 /\ count - 1 \in 0 .. length - 1
        BY <4>1
      <4>3. ASSUME NEW j \in 1 .. after + 1
            PROVE  j \in 1 .. length - 1 /\ Old(i, j) \in 1 .. index + 1
        <5>1. CASE index # -1 /\ index >= i
          BY <4>1, <5>1 DEF Old
        <5>2. CASE ~(index # -1 /\ index >= i)
          BY <4>1, <5>2 DEF Old
        <5>. QED
          BY <5>1, <5>2
      <4>4. /\ \A j \in 1 .. count - 1 : j \in 1 .. length - 1 /\ Old(i, j) \in 1 .. count
            /\ \A j \in 1 .. length - 1 : Old(i, j) <= count => j <= count - 1
        BY <4>1 DEF Old
      <4>. QED
        BY <4>2, <4>3, <4>4 DEF index, count, length, after
    <3>6. \A j \in 1 .. notifier'.index + 1 :
             callbacks'[j].initial_delivered /\ callbacks'[j].changes_to_deliver = {}
      BY <1>3, <3>1, <3>5
    <3>7. \A j \in 1 .. notifier'.count :
             callbacks'[j].accumulated_changes = Between(relevant, v, n)
      <4>1. ASSUME NEW j \in 1 .. notifier.count - 1
            PROVE  callbacks'[j].accumulated_changes = Between(relevant, v, n)
        <5>1. /\ j \in 1 .. Len(callbacks) - 1 /\ Old(i, j) \in 1 .. notifier.count
          BY <3>5
        <5>2. callbacks'[j] = callbacks[Old(i, j)]
          BY <1>3, <5>1
        <5>. QED
          BY <3>1, <5>1, <5>2
      <4>. QED
        BY <1>2, <4>1
    <3>8. \A j \in DOMAIN callbacks' : callbacks'[j].initial_delivered => j <= notifier'.count
      BY <1>2, <1>3, <3>1, <3>5
    <3>9. notifier'.count \in 0 .. Len(callbacks') /\ notifier'.index \in -1 .. notifier'.count - 1
      BY <1>2, <1>3, <3>5
    <3>. QED
      BY ZenonT(30), <1>1, <1>2, <2>2, <3>1, <3>6, <3>7, <3>8, <3>9 DEF Calls
  <2>. QED
    BY <2>1, <2>2
<1>6. Informed'
  <2>1. ASSUME NEW j \in DOMAIN callbacks', callbacks'[j].initial_delivered
        PROVE  /\ notifier.hasRun /\ realm.version <= n + 1
               /\ main.at # "calling" => \E k \in 0 .. n : Told(callbacks'[j], relevant, k, k, n)
               /\ main.at = "calling" => \E k \in 0 .. v : Told(callbacks'[j], relevant, k, v, n)
               /\ realm.writing \/ n < realm.version => callbacks'[j].accumulated_changes = {}
    <3>1. Old(i, j) \in DOMAIN callbacks /\ callbacks'[j] = callbacks[Old(i, j)]
      BY <1>3
    <3>. QED
      BY <2>1, <3>1 DEF Informed
  <2>. QED
    BY <1>1, <1>2, <2>1 DEF Informed
<1>7. Skips'
  <2>1. ASSUME NEW j \in DOMAIN callbacks', callbacks'[j].skip_next
        PROVE  \E m \in DOMAIN callbacks : callbacks[m].skip_next /\ callbacks'[j] = callbacks[m]
    BY <1>3, <2>1
  <2>. QED
    BY <1>1, <1>2, <1>4, <2>1 DEF Skips
<1>. QED
  BY <1>5, <1>6, <1>7 DEF Guaranteed

LEMMA GuaranteedOthers ==
    ASSUME Sound, Guaranteed, Others, ~excused'
    PROVE  Guaranteed'
<1>. TypeOK /\ Waits /\ Calls /\ Informed /\ Skips
  BY DEF Sound, Guaranteed
<1>. USE Fields
<1>1. CASE commitElsewhere
  <2>1. /\ ~realm.writing
        /\ relevant' = relevant \/ relevant' = relevant \cup {latest + 1}
        /\ UNCHANGED <<realm, notifier, callbacks, skipVersion, worker, main>>
    BY <1>1 DEF commitElsewhere, workerVars
  <2>2. Calls' /\ Informed'
    <3>1. \A i \in DOMAIN callbacks : Alike(i)
      BY <2>1 DEF Alike
    <3>2. \A i \in DOMAIN callbacks : callbacks[i].initial_delivered =>
             realm'.version <= notifier.version + 1
      BY <2>1 DEF Informed
    <3>. QED
      BY <2>1, <3>1, <3>2, NewsStay
  <2>3. Skips'
    BY <2>1 DEF Skips
  <2>. QED
    BY <2>2, <2>3 DEF Guaranteed
<1>. QED
  BY <1>1, GuaranteedRemoval DEF Others

\* While nothing has happened the code gives no guarantee for.
LEMMA GuaranteedNext ==
    Sound /\ (~excused => Guaranteed) /\ [Next]_vars => (~excused' => Guaranteed')
<1>1. Guaranteed /\ UNCHANGED vars => Guaranteed'
  BY DEF vars, fileVars, workerVars, Guaranteed, Calls, Informed, Skips
<1>2. ASSUME Sound, Guaranteed, Delivery
      PROVE  Guaranteed'
  BY <1>2, GuaranteedNotify, GuaranteedAdvance, GuaranteedCall, GuaranteedEnd DEF Delivery
<1>3. Next => ~excused
  BY DEF Next, User, EndWrite, Worker, Delivery, Others, Followed
<1>4. UNCHANGED vars => UNCHANGED excused
  BY DEF vars
<1>. QED
  BY <1>1, <1>2, <1>3, <1>4, GuaranteedUser, GuaranteedWrites, GuaranteedWorker, GuaranteedOthers DEF Next

----------------------------------------------------------------------------
(* The theorems *)

LEMMA AlwaysSound == Spec => [](Sound /\ (~excused => Guaranteed))
<1>1. Init => Sound /\ (~excused => Guaranteed)
  BY SoundInit
<1>2. Sound /\ (~excused => Guaranteed) /\ [Next]_vars => (Sound /\ (~excused => Guaranteed))'
  BY SoundNext, GuaranteedNext
<1>. QED
  BY <1>1, <1>2, PTL DEF Spec

\* The state of the coordinator, the notifier and its callbacks stays in its
\* type, however the threads interleave and whatever is guaranteed.
THEOREM NotifierTypes == Spec => []TypeOK
<1>1. Sound /\ (~excused => Guaranteed) => TypeOK
  BY DEF Sound
<1>. QED
  BY <1>1, AlwaysSound, PTL

\* A callback that has been called, or passed over as there is nothing new for
\* it, knows exactly the changes up to the version of the Realm it sees
\* (CollectionNotifier::after_advance).
THEOREM CallbacksKnowTheirList == Spec => []KnowsTheListItSees
<1>1. Sound /\ (~excused => Guaranteed) => KnowsTheListItSees
  <2> SUFFICES ASSUME Sound, Guaranteed, main.at = "calling",
                      NEW i \in 1 .. notifier.index + 1
               PROVE  callbacks[i].seen = Changes(0, realm.version)
    BY DEF KnowsTheListItSees
  <2>. TypeOK /\ Calls /\ Informed
    BY DEF Sound, Guaranteed
  <2>. USE Fields
  <2>1. /\ main.version = realm.version /\ main.version \in Nat /\ 0 \in Nat
        /\ notifier.index + 1 <= notifier.count /\ notifier.count <= Len(callbacks)
    BY SMTT(30) DEF Calls
  <2>2. i \in DOMAIN callbacks
    BY SMTT(30), <2>1
  <2>3. callbacks[i].initial_delivered /\ callbacks[i].changes_to_deliver = {}
    BY DEF Calls
  <2>4. PICK k \in 0 .. main.version :
           Told(callbacks[i], relevant, k, main.version, notifier.version)
    BY <2>2, <2>3 DEF Informed
  <2>5. k \in Nat /\ 0 <= k /\ k <= main.version
    BY <2>1
  <2>6. Between(relevant, 0, k) \cup Between(relevant, k, main.version)
            = Between(relevant, 0, main.version)
    BY <2>1, <2>5, ChangesJoin
  <2>7. callbacks[i].seen = Between(relevant, 0, main.version)
    BY ZenonT(30), <2>3, <2>4, <2>6 DEF Told
  <2>. QED
    BY <2>1, <2>7, ChangesAreBetween
<1>. QED
  BY <1>1, AlwaysSound, PTL

\* What a callback has been told, is being told and will be told next are
\* disjoint and together all the changes up to the notifier's version, across
\* the worker's runs, the deliveries, and the writes that are skipped.
THEOREM NothingLostOrRepeated == Spec => []NothingIsLostOrRepeated
<1>1. Sound /\ (~excused => Guaranteed) => NothingIsLostOrRepeated
  <2>1. Sound => TypeOK
    BY DEF Sound
  <2>2. ASSUME Sound, Guaranteed, NEW i \in DOMAIN callbacks, callbacks[i].initial_delivered
        PROVE  /\ Changes(0, notifier.version)
                      \subseteq callbacks[i].seen \cup callbacks[i].changes_to_deliver
                                                  \cup callbacks[i].accumulated_changes
               /\ callbacks[i].accumulated_changes
                      \cap (callbacks[i].seen \cup callbacks[i].changes_to_deliver) = {}
               /\ callbacks[i].changes_to_deliver \cap callbacks[i].seen = {}
               /\ worker.at = "skipping" /\ worker.mine /\ callbacks[i].skip_next
                     => callbacks[i].accumulated_changes = {}
    <3>. TypeOK /\ Runs /\ Calls /\ Informed /\ Skips
      BY <2>2 DEF Sound, Guaranteed
    <3>. USE Fields
    <3> DEFINE n == notifier.version
    <3>1. n \in Nat /\ 0 \in Nat /\ relevant \in SUBSET Nat
      OBVIOUS
    <3>2. \E k \in Nat, d \in Nat : k <= d /\ d <= n /\ Told(callbacks[i], relevant, k, d, n)
      <4>1. CASE main.at = "calling"
        <5>1. main.version \in Nat /\ main.version <= n
          BY <4>1 DEF Calls
        <5>2. PICK k \in 0 .. main.version : Told(callbacks[i], relevant, k, main.version, n)
          BY <2>2, <4>1 DEF Informed
        <5>3. k \in Nat /\ k <= main.version
          BY <5>1
        <5>. QED
          BY <5>1, <5>2, <5>3
      <4>2. CASE main.at # "calling"
        <5>1. PICK k \in 0 .. n : Told(callbacks[i], relevant, k, k, n)
          BY <2>2, <4>2 DEF Informed
        <5>2. k \in Nat /\ k <= k /\ k <= n
          BY <3>1
        <5>. QED
          BY <5>1, <5>2
      <4>. QED
        BY <4>1, <4>2
    <3>3. PICK k \in Nat, d \in Nat : k <= d /\ d <= n /\ Told(callbacks[i], relevant, k, d, n)
      BY <3>2
    <3>4. /\ callbacks[i].seen = Between(relevant, 0, k)
          /\ callbacks[i].changes_to_deliver = Between(relevant, k, d)
          /\ callbacks[i].accumulated_changes = Between(relevant, d, n)
      BY <3>3 DEF Told
    <3>5. Changes(0, n) = (Between(relevant, 0, k) \cup Between(relevant, k, d)) \cup Between(relevant, d, n)
      <4>1. 0 <= k /\ 0 <= d
        BY <3>3
      <4>. QED
        BY <3>1, <3>3, <4>1, ChangesAreBetween, ChangesJoin
    <3>6. /\ Between(relevant, 0, k) \cap Between(relevant, k, d) = {}
          /\ Between(relevant, 0, k) \cap Between(relevant, d, n) = {}
          /\ Between(relevant, k, d) \cap Between(relevant, d, n) = {}
      BY <3>1, <3>3, BetweenApart
    <3>7. ASSUME worker.at = "skipping", worker.mine, callbacks[i].skip_next
          PROVE  callbacks[i].accumulated_changes = {}
      <4>1. realm.writing \/ realm.version = n + 1
        BY <3>7 DEF Skips
      <4>2. realm.writing \/ n < realm.version
        BY <3>1, <4>1
      <4>. QED
        BY <2>2, <4>2 DEF Informed
    <3>. QED
      BY <3>4, <3>5, <3>6, <3>7
  <2>. QED
    BY <2>1, <2>2 DEF NothingIsLostOrRepeated
<1>. QED
  BY <1>1, AlwaysSound, PTL
==============================================================================
