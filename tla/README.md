# qBittorrent 4.6.7 static build: specifications and proofs

TLA+ specifications of the program this repository builds: qBittorrent-nox
4.6.7 with the overlay of patches under `src/packaging/qbt-static`. Paths below
are relative to

    P = src/packaging/qbt-static/patches/qbittorrent/4.6.7/source/src

Most of the program's core runs in one Qt event loop. A signal and all its
handlers, an HTTP request and its answer, or a libtorrent alert and its handler
are therefore one step, and the interleavings that matter are those of such
steps: requests of several browser tabs, signals of the BitTorrent session,
alerts that answer something asked long ago, queued calls, crashes and restarts.
Four things run beside the event loop and are modelled as steps of their own:
libtorrent's thread, the thread that loads resume data, the thread that parses
the IP filter, and the asynchronous worker of the session.

## 1. The system

| Part | Source | State it keeps | Operations |
|---|---|---|---|
| Maindata sync store | `P/webui/api/maindatasyncstore.{h,cpp}` | shared snapshot of torrents (plain or packed), categories, tags, trackers, server state; revisions and their deltas; dirty sets; tracker index; cached initial response | slots for session signals, `prewarm`, `buildResponse`, acquire/release of sync sessions |
| Sync controller | `P/webui/api/synccontroller.{h,cpp}` | per web session: maindata cursor; last peers responses | `maindata`, `torrentPeers` |
| Browser client | `P/webui/www/private/scripts/client.js`, `torrent-list-state.js`, `prop-trackers.js`, `dynamicTable.js` | last response id; tables and lists derived from responses; viewport | poll, apply, retry, reload, filter, scroll |
| Web application | `P/webui/webapplication.{h,cpp}`, `sessiontracing.cpp` | web sessions by cookie, their API controllers, expiry | start, end, dispatch of requests |
| HTTP connection | `P/base/http/*` | received bytes, keep-alive | parse, answer, compress |
| BitTorrent session | `P/base/bittorrent/sessionimpl.cpp` | torrents and those being added, fetched or removed; categories and `categories.json`; tags; move-storage queue; counters of resume data; startup context; settings and what is handed to libtorrent; IP filter; refresh timer; share-limit timer | add, remove, fetch metadata, categories, tags, move, settings, bans, alerts, startup, shutdown |
| Torrent | `P/base/bittorrent/torrentimpl.{h,cpp}`, `torrentinfo.cpp`, `torrentpathstate.cpp` | category, tags, trackers, paths, names and priorities of files, progress, share limits, pending triggers | setters, renames, alert handlers, state updates, resume data |
| libtorrent | submodule, not in the repository | native torrents, disk jobs, order of the torrents, settings, filter | moves, removals, additions, renames, resume data, each answered by an alert |
| Build wrapper | `src/packaging/qbt-static/*.sh`, workflows, githooks, vendored zlib header | none at run time | build and release |

How they interact. The session emits signals (`torrentAdded`,
`torrentAboutToBeRemoved`, `trackersChanged`, `categoryAdded`, ...) to the store's
slots, which only note what changed. A tab polls `/api/v2/sync/maindata?rid=N`;
the web application finds the web session by its cookie and the `SyncController`
in it (made by the first `sync` request, `torrentPeers` included, destroyed with
the web session); the controller asks the store to turn what was noted into a
new revision and to answer from the cursor. All tabs of a browser share the
cookie, so they share a cursor; all controllers share the store. The session
and its torrents ask libtorrent for additions, moves, renames, removals, orders
and resume data and are answered by alerts, in the order libtorrent handles them.

### What is hard, and what makes each part correct

* **Revision protocol.** Two tabs with one cursor, lost responses, late and
  repeated requests, eviction of deltas, response ids that wrap and that start
  over with each controller, a store that is emptied when idle. Correct when an
  incremental response always continues what its tab holds, and no tab goes back.
* **Deltas and rows.** Several deltas are merged into one; rows may be packed with
  defaults and pools, spread over sets packed apart, or partly not kept at all.
  Correct when the merge equals the composition, a packed row is read as it was
  written, and a tab cannot tell one form of the snapshot from another.
* **Dirty tracking.** Any order of signals between two polls, removal and
  re-addition included, trackers shared by torrents. Correct when the next delta
  brings the snapshot up to the session's state and the tracker index is exact.
* **Categories.** Two files (`categories.json`, resume data) written at different
  times, crashes, parents implied by names, settings changed between runs or at
  run time. Correct when torrents are only in existing categories, parents exist
  and no saved category is lost.
* **The life of torrents.** Batches at startup, additions that search for files in
  another thread, metadata fetched for a torrent that is then added, cancelled or
  removed, answers that come late, exit at any time. Correct when every answer
  that is awaited is counted and none that is counted is missing, every change of a
  torrent is on its way to the storage, and libtorrent has the session's torrents.
* **Files.** Renames by the user, by the extension of incomplete files and at the
  end of a check, all asynchronous and counted; values that are kept or worked out
  on demand. Correct when names, completion, progress and the pieces that are wanted
  agree with libtorrent's once nothing is on its way.
* **Storage moves.** One move at a time, jobs replaced while they wait, moves that
  fail, torrents removed or re-added meanwhile, exit. Correct when the queue and
  libtorrent agree, removals wait and end, and content settles where the paths say. One
  failure is lost, and with it the queue (section 5).
* **Settings, filter, queue, limits.** One queued `configure` shared by all setters,
  a parser thread whose signals come late, a worker that reads and writes back the
  filter, two answers that start the next refresh, a timer that only runs while it
  is needed. Correct when libtorrent has the last settings, the filter is complete, the
  order is stored, the refreshing neither stops nor doubles, and limits are watched.

The list of hazards in `PROJECT.json` names the line where each of these bites.

## 2. Modules

| Module | Models | How |
|---|---|---|
| `MaindataCursor` | `MaindataSessionCursor`, `nextRid`, `planMaindataSync` | pure operators |
| `MaindataRevisions` | `MaindataRevisionStore` (revisions, eviction, cached initial response), the life of web sessions, tabs and the network | state machine, EXTENDS `MaindataCursor` |
| `MaindataDelta` | `processMap`, `mergeVariantMap`, `applyDeltaToSnapshot`, `mergeDeltaIntoAggregate`, `storePendingRevision` | pure operators on tables |
| `MaindataStore` | the slots of `MaindataSyncStore`, `initializeSnapshot`, `storePendingRevision`, idle release, and the session operations that emit the signals | state machine, EXTENDS `MaindataDelta` |
| `CompactRows` | packing and unpacking of a row: lists of fields, defaults, string pools | pure operators, EXTENDS `MaindataDelta` |
| `CompactSnapshot` | the snapshot in each form (plain, packed, pooled, sidecar, subgroups, on demand), its deltas and its full responses | state machine, EXTENDS `CompactRows` |
| `TorrentViews` | what the torrents of a response promise to a tab | abstract specification |
| `Categories` | `addCategory`, `editCategory`, `removeCategory`, `setSubcategoriesEnabled`, `storeCategories`, `loadCategories`, recovery in `processNextResumeData`, `setCategory`, the store's category slots | state machine with crash and restart |
| `SessionTorrents` | startup in batches, `addTorrent`, `downloadMetadata`, `deleteTorrent`, file searches, saving of resume data, `readAlerts`, exit and restart | state machine with libtorrent and the storage as environment |
| `TorrentFiles` | names, layout, `.!qB`, priorities, progress, completion and checks of one torrent, in the modes that keep them and in those that work them out; resume data that are taken over | state machine with libtorrent as environment |
| `StorageMoves` | `addMoveTorrentStorageJob`, `handleMoveTorrentStorageJobFinished`, `deleteTorrent`, the torrent's path setters and alert handlers, exit | state machine with libtorrent as environment |
| `IPFilter` | the filter, the parser's thread and the asynchronous `banIP` | part of `SessionSettings` |
| `TorrentQueue` | `enqueueRefresh` and its callers, the storing of the order, its end at exit | part of `SessionSettings` |
| `ShareLimits` | limits of session and torrents, the timer, what is done when one is reached | part of `SessionSettings` |
| `SessionSettings` | the setters, the deferred `configure`, the two modes of the speed limits; composes the three modules above | state machine |
| `*Proofs` | theorems about the module before the suffix | TLAPS |
| `MC*` | the instances of a state machine for TLC | definitions for the `.cfg` files |

Composition. `SessionSettings` EXTENDS `IPFilter`, `TorrentQueue` and `ShareLimits`:
`configure` starts and stops the parser, the setting for queueing decides whether
orders are stored, and the global limits start the timer. `CompactSnapshot` is shown to
implement `TorrentViews` (`ViewsKept`, a PROPERTY of its run and a theorem): its
`Session` is the content there, `Due` (the tab's view with the increments that wait for
it) is the table. `MaindataRevisions` treats as a version what `MaindataStore` and
`CompactSnapshot` treat as data; the lemmas on deltas in `CompactSnapshotProofs` are the
bridge.

State and actions carry the names of the code wherever they can (`map` in
`PROJECT.json` gives the lines of every definition). What is abstracted:

* `MaindataRevisions`: the content of a snapshot is its *version*, the number of
  deltas applied to it. A tab at version *v* that applies the deltas from *b* to *w*
  is at *w* if *b <= v <= w*, and `Garbled` otherwise. That this is what happens
  to the data is proved in `CompactSnapshotProofs` (`AggregateIsComposition`,
  `AggregateAbsorbs`). Eviction by bytes and by number is a nondeterministic
  `earliest` within what the loop in `evictRevisions` can leave, an oversized
  delta that empties the window included. `version`, `sent`, `accepted`, `cacheVer`
  and the indices of responses are history variables.
* `MaindataStore`: a row maps a few fields to a few values. Torrents, trackers and
  tags are modelled; the server state is one more row without dirty tracking.
  Fields that change without a signal (`TorrentImpl::setName`, global share
  limits) are `SilentField`: the store promises nothing about them until the next
  signalled change.
* `CompactSnapshot`: a packed row is a sequence of entries, without names, each
  skipped, inline or an index into a pool; an entry that is read as another type
  than it was written as garbles all that follows it. Masks and varints are left out.
  Which of several most frequent values becomes the default is a choice. One tab
  is followed; another's requests leave increments for it.
* `Categories`: names are model values with their ancestors; the options of a
  category are one value. A crash may happen between any two steps; within a step
  `storeCategories` may fail. A restart reads the file, recovers categories named
  by resume data and saves. The clean stop is one of the states a crash may find.
* `SessionTorrents`: requests to libtorrent and its alerts are two queues. `ReadAlerts`
  takes all alerts that are there; `HandleAdded` goes through them for the additions and
  `HandleAlert` once more for the others, one alert a step, and libtorrent goes on between
  any two of these steps, as its thread does; nothing else of the program does (`Idle`).
  The resume data of a torrent are what the session knows of it, its progress and
  whether its metadata are there. Storing is immediate.
* `TorrentFiles`: a name is the original one, that of a layout or another, with or
  without `.!qB`; the resident progress counts how often a piece was added to its files.
  The disk is libtorrent's state; requests and alerts are queues. `ReadAlerts` notes how
  many alerts are there, `HandleAlert` handles the first of them, and libtorrent carries out
  requests between two of them. `manageIncompleteFiles` and `wantedActualPath` ask
  libtorrent for the present names, so they read its state at that moment. What
  `handleTorrentCheckedAlert` and `handleTorrentFinishedAlert` leave for the next status
  (`m_statusUpdatedTriggers`) runs as steps of its own right after that status
  (`RunChecked`, `RunFinished`). A status or a completed file that libtorrent reported
  before a recheck and the torrent handles after it sets the history variable `late`.
* `StorageMoves`: manual mode, metadata present, no missing files; names of files are in
  `TorrentFiles`. `handleTorrentFinishedAlert` only queues a lambda that the next status
  update runs; both are one step. A failed move is `MoveFinished` when its handler gets as
  far as `handleMoveTorrentStorageJobFinished`, and `MoveFailedOfGone` when
  `torrent_handle::status` throws in it, which it may as soon as the torrent was removed with
  its files (`Valid`). `excused` is a history variable (section 6).
  `sessionimpl.h` is not in the repository; where the code default-constructs a
  `RemovingTorrentData`, the first enumerator of the delete option is assumed.
* `SessionSettings`: settings that are handed over alike are one value; one speed
  limit stands for both directions; an order of torrents is a number that grows with
  each change. `raced` and `overtaken` are history variables (section 6). A limit is
  reached when the environment says so.

Small definitions marked "variant with a mistake" or "a flawed variant" are not
part of any specification. Each is a plausible bug; putting one in place of the
definition it follows makes a property of the runs fail, which shows that the
property depends on that piece of code. `mutants` in `PROJECT.json` lists them.

## 3. Runs

| Run | Instance | Properties | Result |
|---|---|---|---|
| `MaindataRevisions` | two tabs of one browser beside another browser, retention 2, 3 versions, 4 responses with ids modulo 3, an abandoned request, idle release on | `IncrementFitsTab`, `ReplyIsRecordedRevision`, `CursorsWithinStore`, `ProtocolConsistent`, `TabsNeverGoBack` | hold, 579 144 states |
| `MaindataStore` | two torrents with a silent field, two trackers, a tag, idle release on | `PendingDeltaIsComplete`, `KnownTrackersAreTheSessions`, `IdleStoreIsEmpty`, `StoreConsistent` | hold, 287 768 |
| `CategoriesCrash` | names A, A/B, two torrents, failing writes, settings edited between runs | `TorrentCategoriesExist`, `PendingCategoriesAreComplete`, `CategoriesConsistent` | hold, 116 559 |
| `CategoriesToggle` | names A, A/B, A/C, one torrent, subcategories toggled | `RestartKeepsCategories` | hold, 34 296 |
| `StorageMoves` | two torrents, three paths, 2 requests | `FirstJobIsMoving`, `NoMeaninglessJob`, `MovingMeansJob`, `SettledAtTarget` | hold, 909 187 |
| `StorageRemovals` | two stays of one torrent, 3 requests, fairness | `RemovalWaitsForJobs`, `RemovalEnds`, `ExitEnds` | hold, 134 423 |
| `CompactSnapshot` | four torrents, four fields in three families, five settings of the store, 2 changes | `CompactConsistent`, `ViewsKept` | hold, 79 330 |
| `CompactLate` | the same with lifecycle fields on demand | `TabsSynchronized` | violated (finding 1) |
| `SessionTorrents` | two ids, batches of one, 2 events, two runs of the program, fairness | `OutstandingAreCounted`, `NoChangeIsForgotten`, `EndSavesAll`, `StoredAreRestored`, `NativesAreKnown`, `AddingEnds`, `StartupEnds`, `ExitEnds` | hold, 202 508 |
| `TorrentFiles` | one file of two pieces, three modes, an action of the user, two alerts waiting | `RenamesAreCounted`, `PathsAreTheDisks`, `ProgressIsOfPieces`, `CompletedWhenQuiet`, `WantedFilesAreLoadedWhenResident` | hold, 2 688 225 |
| `TorrentFilesDeferred` | the same in deferred mode | `WantedFilesAreLoaded` | violated (finding 2) |
| `SessionSettings` | an address, a good and a broken file of rules, a torrent, 3 calls | `SettingsInForce`, `FilterIsComplete`, `QueueIsStored`, `RefreshGoesOn`, `LimitsAreWatched` | hold, 1 266 170 |

Run one with `tlc -config <run>.cfg <module>.tla`, where the module is the `MC` module
of the specification if there is one. States are counted after symmetry reduction
where the `.cfg` declares it.

### Claims that do not hold

The modules also state what comments, assertions or tests of the repository say and the
code does not keep. They are in no run; each fails in the instance named here.

| Claim | Instance | Why |
|---|---|---|
| `UnexpectedRidFallsBack` (test `unexpectedRidFallsBackToFullUpdate`) | `MaindataRevisions.cfg` with `TabsOutliveSessions = TRUE` | Rids start at 1 with every controller. A tab left with rid 1 of an ended web session sends its first request to the new controller; the answer (rid 1, full) is lost; the retry quotes the old rid 1, which equals `lastSentRid` (`maindatasyncstore.cpp:1840`), and gets an increment on top of content it never received. |
| `RemovedTrackersAreKnown` (`Q_ASSERT(iter != m_knownTrackers.end())`, `maindatasyncstore.cpp:3851`) | `MaindataStore.cfg` | `torrentPeers` creates a controller and switches dirty tracking on before any maindata request has filled the index. In a release build the tracker is passed over, which is harmless: the store is still uninitialised. |
| `EditedCategoryIsNotRemoved` (`Q_ASSERT(!m_removedCategories.contains(categoryName))`, `maindatasyncstore.cpp:3779`) | `CategoriesToggle.cfg` | A parent is removed, brought back by enabling subcategories, and edited within one sync interval. In a release build the category is sent as changed and as removed, and tabs drop it. |
| `TriggersRunAfterMoves` (comment `torrentimpl.h:345`) | `StorageMoves.cfg` | Replacing a waiting job first completes it, with the triggers, and then queues the replacement (`sessionimpl.cpp:5116`): a torrent is reported as finished although a move is to come. |
| `RemovalEnds` and `ExitEnds` of `StorageMoves` without `Stalled` | `StorageRemovals.cfg` | The failure of a move whose torrent libtorrent no longer has is lost in `handleStorageMovedFailedAlert` (`sessionimpl.cpp:6100`); see section 5. |
| `AddedWithOwnParameters` (comment in `addTorrent_impl`) | `SessionTorrents.cfg` with `Overlap = TRUE`, one id, `MaxEvents = 3`, `MaxRuns = 1` | A torrent whose metadata are being fetched is cancelled and added while libtorrent still has it. |
| `FilterIsComplete` without `~raced` (comment `sessionimpl.cpp:558`) | `SessionSettings.cfg` | What the main thread sets between the worker's two calls in `banIP` is overwritten (section 6). |
| `QueueIsStored` without `~overtaken` | `SessionSettings.cfg` | An update that was asked for earlier is taken for the answer of the one the destructor asked for (`sessionimpl.cpp:630`). |
| `LimitsAreWatched` with `AddsInactiveOnly = TRUE` | `SessionSettings.cfg` | `createTorrent` (`sessionimpl.cpp:5706`) starts the timer for limits on ratio and seeding time and not for one on inactivity alone. |

### Bounds, and why they are enough

* `MaxVersion`, `MaxSent`, `MaxOrphans` bound the history. A cursor remembers two
  responses; a tab can fall out of step with at most a third one on its way, and
  three versions are enough to evict an acknowledged revision. `MaindataRevisions`
  uses modulus 3 so that ids repeat; the code's modulus is 1 000 000. `InRidWindow` is an
  assumption about the environment, not a bound of the instance: no tab is a full
  cycle of response ids behind. The theorems hold for every value of these constants.
* Two torrents and two trackers give shared, exclusive and moved trackers. A
  delta never relates more than two torrents; the proof covers any number.
* `CompactSnapshot` has four torrents so that two share a text that is not the default,
  and therefore a pool has an entry; and one field for each family (kept, numeric,
  status, lifecycle), one of them silent. Two changes followed by any number of
  requests reach every combination of added, changed and removed rows with old
  defaults and pools. The proof covers any number of each.
* Two names in a parent relation are the least that make `Ancestors` matter; a
  second child shows that removing one subtree leaves the other alone. Longer
  chains are covered by the proof.
* `SessionTorrents` starts from any stored data of two torrents. Events (what the user,
  the network and timers do) are bounded by two in all; a batch of one torrent
  makes the startup need more than one batch; two runs make it read what it stored.
* `TorrentFiles` allows one action of the user, from any names and settings, at any point;
  pieces, checks, statuses, alerts and the renames the torrent makes by itself are not
  bounded by it. `MaxAlerts = 2` alerts may wait while libtorrent goes on, so that a
  handler finds libtorrent one or several requests further than its alert says. The hazards
  are between one rename, choice or recheck and what libtorrent reports on its own. Pieces
  that two files share, more actions and longer queues are covered by the proofs.
* Three paths give "there, elsewhere, back, and the download path of another". `MaxRequests`
  counts the changes of paths and the finished checks; with what the torrents do by
  themselves two allow a running job, a waiting one and its replacement; any number is covered
  by the proof. `StorageRemovals` uses one torrent with two handles, because a
  re-added torrent is the hard case of a removal.
* `SessionSettings` shares three calls among all setters, bans, orders and limits. A stale
  parser, a ban between two replacements and an order changed before the exit each need
  two; the proofs cover any number.

Symmetry is declared only where permuting the model values maps the instance to
itself, and only in runs without liveness properties. Deadlock is checked
except where the `.cfg` says otherwise: there the program may end (`Storage*`,
`SessionTorrents`, `SessionSettings`), or all is quiet after the last of the bounded
actions (`TorrentFiles*`).

### Fairness

`SessionTorrents` and `StorageMoves` have liveness properties.

* `FairSpec` of `StorageMoves` assumes weak fairness of the alerts that answer a move (handled
  to the end, or lost in the handler) or a removal (libtorrent posts one for each job, and the event loop, or at exit the loop of
  `saveResumeData`, handles all alerts) and of the end of the exit loop, which the loop
  condition decides. `RemovalEnds` says nothing after the exit has begun: removals that
  are still waiting are finished by the next start.
* `Fairness` of `SessionTorrents`: libtorrent handles what it is asked in order (`NativeStep`);
  the loading thread and the searches end, and their results are queued calls that the
  event loop makes (`ReadNext`, `LoadFinished`, `HandleLoadedResumeData`, `SearchFinished`);
  so is the call that saves resume data (`SaveNeeded`); alerts are read and handled
  (`ReadAlerts`, `HandleAdded`, `HandleAlert`); and the exit loop ends when nothing is
  outstanding or when nothing comes for 30 seconds (`End`).

Users, the network, timers of the user's settings and crashes are never assumed to do
anything. The parameter `ReaddsWhileDeleting` lets libtorrent accept a torrent again while
it still deletes the files of the previous stay.

## 4. Proofs

`tlapm` checks every theorem for all values of the constants that satisfy the named
assumptions. Each invariance proof has the same shape: the initial states
satisfy the invariant, one step per action (under it one per conjunct the action
can disturb), and a temporal step that combines them.

| Module | Theorems | Extra assumption |
|---|---|---|
| `MaindataRevisionsProofs` | `TypeCorrect`, `Consistent`, `IncrementsFit`, `RepliesAreRecorded`, `CursorsBehindStore`, `Monotone` | `~TabsOutliveSessions` except for `TypeCorrect` |
| `MaindataStoreProofs` | `TypeCorrect`, `Consistent`, `DeltaIsComplete`, `UpdatedExist`, `TrackersKnown`, `IdleIsEmpty` | none |
| `CategoriesProofs` | `TypeCorrect`, `Consistent`, `CategoriesExist`, `ParentsAreCategories`, `DeltaIsComplete`, `RestartKeeps` | `~TogglesSubcategories` where `CategoriesConsistent` needs it; `~WritesMayFail` and `~EditsSettings`, but any toggling, for `RestartKeeps` |
| `CompactSnapshotProofs` | `AggregateIsComposition`, `AggregateAbsorbs`, `RowRoundTrip`, `Consistent`, `Implements` | well-formed deltas for the first two (a key is not both changed and removed; a restored row is complete); `ModesAreSound` for the last two: with a sidecar, neither lifecycle fields nor numbers are taken on demand |
| `StorageMovesProofs` | `FirstIsMoving`, `StallLasts`, `Meaningful`, `RemovalWaits`, `ShownMoving`, `Settling` | `~ReaddsWhileDeleting` for the last two |
| `SessionTorrentsProofs` | `TypeCorrect`, `AllRestored`, `NativesKnown`, `OwnParameters`, `OutstandingCounted`, `NoChangeForgotten`, `EndSaves` | `~Overlap` except for the first two |
| `TorrentFilesProofs` | `TypeCorrect`, `RenamesCount`, `Paths`, `Wishes`, `Progress`, `Completion` | none |
| `SessionSettingsProofs` | `InForce`, `Complete`, `QueueStored`, `Refreshing`, `Watched` | `~AddsInactiveOnly` for `Watched` |

Of the parameters that appear as assumptions, two describe what users and libtorrent may
do and are TRUE in some runs or claims: `Overlap` (an id is used again while requests or
answers of its last torrent are on their way) and `ReaddsWhileDeleting` (libtorrent accepts a
torrent again while it deletes the files of the previous stay). Where they hold, answers
that carry nothing but an info hash are taken for those of the new torrent, and the
properties fail (sections 3 and 6): the code has nothing that tells the two apart.

Why the invariants are as they are:

* `ProtocolConsistent`. `IncrementFitsTab` alone is not inductive: it says
  nothing about the next request. What carries it is `Holds`: a tab that shows, or
  is about to show, the *i*-th response has at least the version acknowledged,
  when that acknowledgement is not younger than *i*, and has exactly the last version
  when *i* is the last response. A request that quotes the last rid can therefore
  be trusted for any tab of the browser, and an increment from the acknowledged
  version starts at or before what the tab holds. This needs that equal rids mean
  equal responses (the lemmas on response ids at the beginning of the module: within a
  window of `RidModulus` responses an id names one of them), and that a controller's end takes its
  tabs with it.
* `StoreConsistent`. The completeness of a delta speaks of the next request; the
  invariant speaks of now: a torrent that is in no dirty set is in the snapshot as it
  is in the session, one that is noted as removed is not in the session, and
  likewise for trackers and tags. The index must be exact, because the tracker
  slots decide from it.
* `CategoriesConsistent`. The same for categories, joined with parents and
  torrents: removing a category must know that no torrent below it is left.
  `RestartKeeps` needs another one (`FileHolds`): every category is in the file with its
  options, or is a parent that the next startup implies again.
* `CompactSnapshotProofs`. `RowRoundTrip` says that a row is read as it was written unless
  a default stands for a field the row lacks. That never happens because every row
  lacks the same fields, those a setting omits (`Serialized`), and a most frequent value
  of such a field is no value at all (`CodecsFit`), now and after any later delta, which
  is packed with the old defaults and pools. The invariant (`Inv`) says that the sets of
  rows hold between them exactly the fields that deltas are made on (`KeptFields`) of
  the table the tab has been or is still to be sent (`Due`). `AggregateRow`
  then carries increments that are merged for the tab, and each
  step is one of `TorrentViews`: a request is a look at the torrents.
* `StorageMovesProofs`. That nothing but the first job is worked at (`OnlyFirstMoves`) and
  `NoMeaninglessJob` are inductive with the type of the queue (`QueueInv`). The other half of
  `FirstJobIsMoving` says which first job may be left with nothing moving: it
  needs that the torrent of a job that waits is in libtorrent, that of the job that runs
  is there or going, and that of a first job nobody works at is going or gone
  (`JobsAreNative`). `StallLasts` is an action property from the same invariant. A removal
  needs more: at most one handle of a hash is present (`SessionInv`), and one
  that is no longer in the session has a job left and is not being deleted with its files
  (`RemovalInv`). What a torrent shows needs that libtorrent knows of no other stay of it
  (`StaysAreApart`), since answers find torrents by their hash. For
  `SettledAtTarget` each job of a torrent is related to the paths the torrent has *now*
  (`PlaceInv`): the first job takes the storage where they are going to say (`Fits`), and
  the waiting one fits the paths as they will be after the first (`After`). The proof found a
  case that was missing among those of section 6, the last one.
* `SessionSettingsProofs`. Its parts touch disjoint variables, so each part has its own
  invariant and the others leave it alone. The filter needs the most: what the
  filter holds is described for each stage of the parser, of its queued signals and
  of the worker, between its reading and its writing included (`FilterInv`). The chain of
  refreshes is a count: a timer, or two answers, or one answer after the other
  has been noted (`RefreshInv`).
* `SessionTorrentsProofs`. Nothing about the end of the startup is inductive by itself.
  `StartupInv` follows a stored torrent through the startup: unread, read, asked for,
  answered, in the session or refused, in one of these places and not in two; and
  `processingResumeDataCount` is the number of additions on their way, so that the startup
  cannot end with one open. `FlowInv` does the same for each id once the session runs: one
  addition at a time, whose native torrent it is (`Owner`, `HiddenOwner`), and that removals
  precede additions. From it come `NativesAreKnown` and that an answer finds the torrent it is
  meant for, on which the rest depends. `Counted` is `OutstandingAreCounted` itself, with
  the number of elements of a queue as a function of its positions. `ChangesInv` says where
  a change is until it is stored, and that answers "not modified" occur only at
  the exit, to requests made there. `SaveInv` says that what is
  stored of a torrent, or the last answer or request about it, is its present state, and
  `EndInv` that the loop at exit leaves no alert and no count; with `Counted`, nothing is left.
* `TorrentFilesProofs`. `RenamesAreCounted` is inductive (`CountInv`), since each handler is
  summarised by what it adds to the queue (`Handled`, `CarriedOut`). For the names (`PathsInv`)
  the queue of alerts matters: an alert tells the present name unless a later one
  bears another (`Tells`), also where it is one with resume data and deferred paths are
  read from these. For the wanted pieces (`WishesInv`) the invariant names the priorities
  libtorrent will have after each request that waits (`History`, a function that is shown to
  exist rather than computed). For the pieces and the completed files (`PiecesInv`) it says
  what may be known at each stage of a recheck: asked for, begun, ended, reported.

Only model-checked: the liveness properties (`RemovalEnds`, `ExitEnds`, `AddingEnds`,
`StartupEnds`), since liveness under fairness is out of the prover's reach, with ENABLED.
Every other property of a passing run is a theorem. Recursion over data is nowhere needed:
a RECURSIVE operator appears in no module.

## 5. Findings

1. **Lifecycle fields on demand never change in the tabs** (`CompactLate`,
   `maindatasyncstore.cpp:2254`). With the sidecar, the descriptive subgroups and the
   lifecycle fields on demand, `snapshotTorrentRow` reads these fields from the live
   torrent. `storePendingRevision` compares the torrent with that row, finds no
   difference, and no revision holds the change; tabs keep the old value until a full
   update. This is why the proofs assume `ModesAreSound`.
2. **Pieces are wanted for the files of before** (`TorrentFilesDeferred`,
   `torrentimpl.cpp:3163`). In deferred-file-state mode `prioritizeFiles` leaves
   `m_ltAddTorrentParams.file_priorities` as they are, and `applyFirstLastPiecePriority`,
   called next, reads them: the piece priorities it computes from the old choice
   overwrite the new one. Where the torrent keeps its priorities the code does what
   its comment says (`WantedFilesAreLoadedWhenResident`).

Besides the claims of section 3, these were met while modelling. No comment or test says
otherwise, so they are not listed as findings:

* **The queue of moves stalls, and the program does not exit** (`sessionimpl.cpp:6100`). A
  torrent is removed with its files while its storage moves; `deleteTorrent` leaves the active
  job in the queue. When that move fails and libtorrent's torrent has gone by then,
  `handleStorageMovedFailedAlert` finds no torrent and asks `p->handle.status(...)` for the
  save path. The handle has expired, `status` throws, and `handleAlert` (5654)
  catches the exception, so that `handleMoveTorrentStorageJobFinished` (6105) does not run:
  the job stays first though nothing moves. A new job is started only when it is alone in the
  queue (5147), so none is ever started again; a removal that waits for a job of its torrent
  (2410) never ends; and the loop at exit (3183), whose limit of 30 seconds requires an
  empty queue (3189), goes on for ever. `MoveFailedOfGone` is this step and `Stalled` the
  state it leaves. `FirstJobIsMoving` shows that the queue stalls in no other way,
  `RemovalEnds` and `ExitEnds` that removals and the exit are held up by nothing else, and the
  theorem `StallLasts` that nothing in the code ends the stall.
* With a sidecar and numbers on demand together, `prepareCompactSnapshotImpl` packs
  with the list of the raw setting while reading uses the list of the effective one
  (`maindatasyncstore.cpp:1154` on): the first full response is garbled (`MixedModes`).
* A stale completed or status report after a recheck sets the resident completed bit
  again and makes the progress count a piece twice (`torrentimpl.cpp:1881`); the properties
  exclude such a history with `late`. In deferred state, a completed file that is renamed
  before the next status keeps `.!qB`.
* Renaming a file back to its original name under another layout is not among the renamed
  files libtorrent saves, so that deferred paths answer the layout's name; the instances
  exclude it (`UserPath`). A reload from resume data keeps `m_renameCount` of the old handle.
* Answers of deleted torrents, and repeated answers while new metadata wait, leave
  `m_numResumeData` above zero: the exit then waits 30 seconds and gives up. This is
  harmless for the data, and `OutstandingAreCounted` states the direction that matters.
* An address that is banned and then un-banned before the worker runs stays blocked. A stale
  `IPFilterParsed` after the parser was started again reads the filter while the thread
  writes it; the next signal repairs it.
* `Preferences::setUseProxyForBT` and `setDiskIOType` change what `loadLTSettings` reads and
  schedule no configure. Torrents loaded while queueing is off still cause a queue to be
  stored.

## 6. What the specifications leave out of their promises

*Storage.* `SettledAtTarget` says that without outstanding jobs the storage is where the
paths and the progress of the torrent call for. The code deliberately or silently passes
over some requests; `Overtakes` names the cases, and a handle they concern is
`excused`, as is one a move of which has failed:

* a waiting job is cancelled by one of another kind, so its path is set to
  where the storage is (an empty download path becomes the present location);
* a waiting change of a path is cancelled while another job of the torrent runs;
* the storage is adjusted to the old save path while the job that changes it runs: at
  the end the save path is the new one and the content at the old one;
* `setSavePath` is called while the torrent, having had no download path, is getting one
  (`torrentimpl.cpp:774`): it still moves the storage, behind that job, and the content ends
  up at the new save path although a download path is set.

Setting a path back to the one in use while the torrent moves away from it is
ignored by `setSavePath`, since the path has not changed yet; no property speaks of it.
A finished job finds its torrent by info hash. When the torrent was removed with its
files and added again meanwhile, the answer is applied to the new one
(`Owner` in `MoveFinished`); `SettledAtTarget` and `MovingMeansJob` are not claimed then.

*Filter.* `raced`: the filter was replaced between the two calls of a ban in the worker, so
that the worker wrote the filter of before. *Order at exit.* `overtaken`: an update was still
to come when the destructor asked for another. *Additions.* `Overlap = FALSE`: an id is not
used again while requests or answers of its last torrent are on their way; otherwise a late
answer finds the new torrent, and `sessionimpl.cpp:2326` uses metadata that are not there.
*Files.* `late`, as in section 5.

## 7. Not modelled

* `serialize()` reads the settings that omit fields each time; `omitted` is constant in
  `CompactSnapshot`. `handleFilePrioAlert`, which asks for resume data to be saved once more,
  is not in `TorrentFiles` or `SessionTorrents`. Events in `SessionTorrents` happen after the
  startup, and `IPFilter` starts without a filter and without bans. No property depends on
  these.
* Build wrapper, release scripts, workflows, githooks and the zlib header: no state
  of the running program.
* `preferences.cpp`: getters and setters; the settings that matter are constants or
  variables of the modules.
* libtorrent, the parser of IP filters, port forwarding and the embedded tracker: not in the
  repository; what they may answer is an action of the module that asked.
* The migration of resume data from one storage to another, done once before the startup.
* Of a torrent: the state shown, announcing, errors, stop conditions, missing files (with
  the reload they cause), web seeds and peers.
* Checks of request headers, tracing, logging and formatting: no property here is
  about them.
* Stateless mode of the maindata endpoint: a full response each time, no state.
* The peers' protocol (`torrentPeersAction`): one controller, no store behind it; it
  uses `generateSyncData`, the pattern the store replaced.
* Expiry and lookup of web sessions, the HTTP connection, the lists the browser derives
  and the virtualised table: planned below.

## 8. Plan

Done: the maindata protocol, the dirty tracking, the forms of the snapshot with the
abstract `TorrentViews`, categories, the life of torrents, their files, storage moves,
settings with filter, queue and limits; proofs of all their safety properties and of their
action properties. Next, in this order:

1. **Composition of `SessionTorrents` with `MaindataStore`**: early sync requests while the
   session is restored.
2. **Peers protocol**: the second response-id protocol, with the change of the selected
   torrent.
3. **Client lists** and **virtualised table**: categories, tags and trackers derived from
   deltas against those of a full update; row cache and viewport against the table.
4. **Web sessions** and **HTTP connection**: expiry, dispatch, pipelining.
