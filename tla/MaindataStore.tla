--------------------------- MODULE MaindataStore ---------------------------
(***************************************************************************)
(* How MaindataSyncStore keeps up with the BitTorrent session.  The        *)
(* session emits a signal for most changes of its torrents, trackers and   *)
(* tags; the handlers of the store only note what has changed (the dirty   *)
(* sets) and keep an index from trackers to torrents.  The next sync       *)
(* request (prewarm) looks at what was noted, and the delta it makes must  *)
(* bring the snapshot up to date however the signals were interleaved, a   *)
(* torrent removed and added again within one interval included.  The last *)
(* SyncController that goes may take the snapshot with it (ReleaseIdle).   *)
(*                                                                         *)
(* The model begins when the session is restored; everything runs in the   *)
(* Qt event loop, so every signal with its handler is one action.          *)
(* Categories are in Categories, the revisions in MaindataRevisions.       *)
(***************************************************************************)
EXTENDS MaindataDelta, Naturals

CONSTANTS
    Torrent,        \* torrent ids
    Tracker,        \* tracker URLs
    Tag,
    SilentField,    \* fields of a torrent that change without any signal
    ReleaseIdle,    \* m_releaseIdleStateEnabled
    MaxSessions     \* bound: SyncControllers at a time

ASSUME StoreAssumption ==
    /\ SilentField \subseteq Field
    /\ ReleaseIdle \in BOOLEAN
    /\ MaxSessions \in Nat
    /\ \A ts \in SUBSET Torrent : ts # Absent

VARIABLES
    content,        \* Session::torrents(), each as serialize() shows it
    trackersOf,     \* Torrent::trackers()
    tags,           \* Session::tags()
    sessions,       \* m_activeSyncSessionCount
    initialized,    \* m_revisionStore.currentRevision() > 0
    snapshot,       \* m_revisionStore.snapshot()
    knownTrackers,  \* m_knownTrackers; {} where it has no entry
    pending         \* the dirty sets

sessionVars == <<content, trackersOf, tags>>
storeVars == <<initialized, snapshot, knownTrackers, pending>>
vars == <<sessionVars, sessions, storeVars>>

-----------------------------------------------------------------------------
InSession(t) == content[t] # Absent

(* Which torrents announce to which tracker, as the session has it.        *)
TorrentsOf == [u \in Tracker |-> {t \in Torrent : u \in trackersOf[t]}]

(* A tracker with no torrents is not listed.                               *)
Listed(index) == [u \in Tracker |-> IF index[u] = {} THEN Absent ELSE index[u]]

NothingPending ==
    [updatedTorrents |-> {}, removedTorrents |-> {},
     updatedTrackers |-> {}, removedTrackers |-> {},
     addedTags |-> {}, removedTags |-> {}]

NoSnapshot ==
    [torrents |-> [t \in Torrent |-> Absent],
     trackers |-> [u \in Tracker |-> Absent],
     tags     |-> {}]

(* initializeSnapshot(): everything is read from the session.              *)
FreshSnapshot ==
    [torrents |-> content, trackers |-> Listed(TorrentsOf), tags |-> tags]

(* storePendingRevision() and applyDeltaToSnapshot(): the snapshot after   *)
(* the pending changes.                                                    *)
SnapshotAfterPending ==
    [torrents |-> ApplyDelta(snapshot.torrents,
                      PendingDelta(snapshot.torrents, content,
                          pending.updatedTorrents, pending.removedTorrents)),
     trackers |-> [u \in Tracker |->
                      CASE u \in pending.removedTrackers -> Absent
                        [] u \in pending.updatedTrackers \ pending.removedTrackers -> knownTrackers[u]
                        [] OTHER -> snapshot.trackers[u]],
     tags     |-> (snapshot.tags \union pending.addedTags) \ pending.removedTags]

(* Variant with a mistake: signals are noted without a sync session.       *)
AlwaysTracks == TRUE

(* shouldTrackDirtyState()                                                 *)
TracksDirtyState == ~ReleaseIdle \/ sessions > 0

Init ==
    /\ content \in FullTable(Torrent)
    /\ trackersOf \in [Torrent -> SUBSET Tracker]
    /\ \A t \in Torrent : ~InSession(t) => trackersOf[t] = {}
    /\ tags \in SUBSET Tag
    /\ sessions = 0
    /\ initialized = ~ReleaseIdle
    /\ snapshot = IF ReleaseIdle THEN NoSnapshot ELSE FreshSnapshot
    /\ knownTrackers = IF ReleaseIdle THEN [u \in Tracker |-> {}] ELSE TorrentsOf
    /\ pending = NothingPending

-----------------------------------------------------------------------------
(* The handlers.                                                           *)

NotePending(p) ==
    pending' = IF TracksDirtyState THEN p ELSE pending

Index(k) ==
    knownTrackers' = IF TracksDirtyState THEN k ELSE knownTrackers

(* onTorrentCategoryChanged, MetadataReceived, Paused, Resumed,            *)
(* SavePathChanged, SavingModeChanged, TagAdded, TagRemoved,               *)
(* TorrentsUpdated and TrackerEntriesUpdated.                              *)
OnTorrentsUpdated(ts) ==
    /\ NotePending([pending EXCEPT !.updatedTorrents = @ \union ts])
    /\ UNCHANGED knownTrackers

(* Variant with a mistake: a torrent that comes back stays removed.        *)
OnTorrentAddedStaysRemoved(t, us) ==
    /\ NotePending([pending EXCEPT !.updatedTorrents = @ \union {t},
                                   !.updatedTrackers = @ \union us,
                                   !.removedTrackers = @ \ us])
    /\ Index([u \in Tracker |->
                 IF u \in us THEN knownTrackers[u] \union {t} ELSE knownTrackers[u]])

OnTorrentAdded(t, us) ==
    /\ NotePending([pending EXCEPT !.removedTorrents = @ \ {t},
                                   !.updatedTorrents = @ \union {t},
                                   !.updatedTrackers = @ \union us,
                                   !.removedTrackers = @ \ us])
    /\ Index([u \in Tracker |->
                 IF u \in us THEN knownTrackers[u] \union {t} ELSE knownTrackers[u]])

(* Variants with a mistake: a removed torrent stays noted as updated; a    *)
(* tracker without torrents does.                                          *)
OnTorrentRemovedStaysUpdated(t) ==
    LET found == {u \in trackersOf[t] : knownTrackers[u] # {}}
        gone == {u \in found : knownTrackers[u] \subseteq {t}}
    IN  /\ NotePending([pending EXCEPT
              !.removedTorrents = @ \union {t},
              !.updatedTrackers = (@ \ gone) \union (found \ gone),
              !.removedTrackers = @ \union gone])
        /\ Index([u \in Tracker |->
              IF u \in found THEN knownTrackers[u] \ {t} ELSE knownTrackers[u]])

OnTorrentRemovedKeepsTrackers(t) ==
    LET found == {u \in trackersOf[t] : knownTrackers[u] # {}}
        gone == {u \in found : knownTrackers[u] \subseteq {t}}
    IN  /\ NotePending([pending EXCEPT
              !.updatedTorrents = @ \ {t},
              !.removedTorrents = @ \union {t},
              !.updatedTrackers = @ \union (found \ gone),
              !.removedTrackers = @ \union gone])
        /\ Index([u \in Tracker |->
              IF u \in found THEN knownTrackers[u] \ {t} ELSE knownTrackers[u]])

(* A tracker that is not known is passed over; one that loses its last     *)
(* torrent is erased.                                                      *)
OnTorrentAboutToBeRemoved(t) ==
    LET found == {u \in trackersOf[t] : knownTrackers[u] # {}}
        gone == {u \in found : knownTrackers[u] \subseteq {t}}
    IN  /\ NotePending([pending EXCEPT
              !.updatedTorrents = @ \ {t},
              !.removedTorrents = @ \union {t},
              !.updatedTrackers = (@ \ gone) \union (found \ gone),
              !.removedTrackers = @ \union gone])
        /\ Index([u \in Tracker |->
              IF u \in found THEN knownTrackers[u] \ {t} ELSE knownTrackers[u]])

(* Variant with a mistake: trackers not known yet are passed over.         *)
OnTrackersChangedKnownOnly(t, us) ==
    LET known == {u \in Tracker : knownTrackers[u] # {}}
        left == {u \in known \ us : t \in knownTrackers[u]}
        gone == {u \in left : knownTrackers[u] = {t}}
        joined == {u \in known \cap us : t \notin knownTrackers[u]}
    IN  /\ NotePending([pending EXCEPT
              !.updatedTorrents = @ \union {t},
              !.updatedTrackers = (@ \ gone) \union (left \ gone) \union joined,
              !.removedTrackers = @ \union gone])
        /\ Index([u \in Tracker |->
              CASE u \in left   -> knownTrackers[u] \ {t}
                [] u \in joined -> knownTrackers[u] \union {t}
                [] OTHER        -> knownTrackers[u]])

(* One pass over the known trackers, then one over the current ones that   *)
(* the first has not met.  us are the trackers t has now.                  *)
OnTorrentTrackersChanged(t, us) ==
    LET known == {u \in Tracker : knownTrackers[u] # {}}
        left == {u \in known \ us : t \in knownTrackers[u]}
        gone == {u \in left : knownTrackers[u] = {t}}
        joined == {u \in known \cap us : t \notin knownTrackers[u]}
        new == us \ known
    IN  /\ NotePending([pending EXCEPT
              !.updatedTorrents = @ \union {t},
              !.updatedTrackers = (@ \ gone) \union (left \ gone) \union joined \union new,
              !.removedTrackers = (@ \union gone) \ new])
        /\ Index([u \in Tracker |->
              CASE u \in left         -> knownTrackers[u] \ {t}
                [] u \in joined \union new -> knownTrackers[u] \union {t}
                [] OTHER              -> knownTrackers[u]])

OnTagAdded(g) ==
    NotePending([pending EXCEPT !.removedTags = @ \ {g}, !.addedTags = @ \union {g}])

OnTagRemoved(p, g) ==
    NotePending([p EXCEPT !.addedTags = @ \ {g}, !.removedTags = @ \union {g}])

-----------------------------------------------------------------------------
(* The session.                                                            *)

(* createTorrent in a restored session: the torrent is inserted, then      *)
(* torrentAdded is emitted.                                                *)
TorrentAdded(t, row, us) ==
    /\ ~InSession(t)
    /\ content' = [content EXCEPT ![t] = row]
    /\ trackersOf' = [trackersOf EXCEPT ![t] = us]
    /\ OnTorrentAdded(t, us)
    /\ UNCHANGED <<tags, sessions, initialized, snapshot>>

(* deleteTorrent: the torrent is taken out, then torrentAboutToBeRemoved   *)
(* is emitted while it still has its trackers.                             *)
TorrentRemoved(t) ==
    /\ InSession(t)
    /\ content' = [content EXCEPT ![t] = Absent]
    /\ trackersOf' = [trackersOf EXCEPT ![t] = {}]
    /\ OnTorrentAboutToBeRemoved(t)
    /\ UNCHANGED <<tags, sessions, initialized, snapshot>>

(* A change that is signalled, with whatever fields changed silently since *)
(* (handleStateUpdateAlert, pause, setCategory, addTag, ...).              *)
TorrentUpdated(t, row) ==
    /\ InSession(t)
    /\ content' = [content EXCEPT ![t] = row]
    /\ OnTorrentsUpdated({t})
    /\ UNCHANGED <<trackersOf, tags, sessions, initialized, snapshot>>

(* setName and its like: the session emits nothing the store listens to.   *)
TorrentChangedSilently(t, row) ==
    /\ InSession(t)
    /\ \A f \in Field \ SilentField : row[f] = content[t][f]
    /\ content' = [content EXCEPT ![t] = row]
    /\ UNCHANGED <<trackersOf, tags, sessions, storeVars>>

(* addTrackers, removeTrackers, replaceTrackers: trackersChanged.          *)
TrackersChanged(t, row, us) ==
    /\ InSession(t)
    /\ content' = [content EXCEPT ![t] = row]
    /\ trackersOf' = [trackersOf EXCEPT ![t] = us]
    /\ OnTorrentTrackersChanged(t, us)
    /\ UNCHANGED <<tags, sessions, initialized, snapshot>>

AddTag(g) ==
    /\ g \notin tags
    /\ tags' = tags \union {g}
    /\ OnTagAdded(g)
    /\ UNCHANGED <<content, trackersOf, sessions, initialized, snapshot, knownTrackers>>

(* removeTag: every torrent that has the tag (ts, with their new rows)     *)
(* loses it and emits torrentTagRemoved; then tagRemoved.                  *)
RemoveTag(g, ts, table) ==
    /\ g \in tags
    /\ tags' = tags \ {g}
    /\ content' = [t \in Torrent |-> IF t \in ts THEN table[t] ELSE content[t]]
    /\ OnTagRemoved([pending EXCEPT !.updatedTorrents = @ \union ts], g)
    /\ UNCHANGED <<trackersOf, sessions, initialized, snapshot, knownTrackers>>

-----------------------------------------------------------------------------
(* The SyncControllers.                                                    *)

AcquireSyncSession ==
    /\ sessions < MaxSessions
    /\ sessions' = sessions + 1
    /\ UNCHANGED <<sessionVars, storeVars>>

(* Variant with a mistake: a release without a session is counted.         *)
ReleaseUnguarded ==
    /\ sessions' = sessions - 1
    /\ UNCHANGED <<sessionVars, storeVars>>

(* releaseSyncSession(), with releaseSharedState() for the last one.       *)
ReleaseSyncSession ==
    /\ sessions > 0
    /\ sessions' = sessions - 1
    /\ IF ReleaseIdle /\ sessions' = 0
       THEN /\ initialized' = FALSE
            /\ snapshot' = NoSnapshot
            /\ knownTrackers' = [u \in Tracker |-> {}]
            /\ pending' = NothingPending
       ELSE UNCHANGED storeVars
    /\ UNCHANGED sessionVars

(* prewarm(), by which every sync request begins.                          *)
Prewarm ==
    /\ sessions > 0
    /\ IF initialized
       THEN /\ snapshot' = SnapshotAfterPending
            /\ UNCHANGED knownTrackers
       ELSE /\ snapshot' = FreshSnapshot
            /\ knownTrackers' = TorrentsOf
    /\ initialized' = TRUE
    /\ pending' = NothingPending
    /\ UNCHANGED <<sessionVars, sessions>>

Next ==
    \/ \E t \in Torrent, row \in FullRow, us \in SUBSET Tracker : TorrentAdded(t, row, us)
    \/ \E t \in Torrent : TorrentRemoved(t)
    \/ \E t \in Torrent, row \in FullRow : TorrentUpdated(t, row)
    \/ \E t \in Torrent, row \in FullRow : TorrentChangedSilently(t, row)
    \/ \E t \in Torrent, row \in FullRow, us \in SUBSET Tracker : TrackersChanged(t, row, us)
    \/ \E g \in Tag : AddTag(g)
    \/ \E g \in Tag, ts \in SUBSET {t \in Torrent : InSession(t)} :
          \E table \in [ts -> FullRow] : RemoveTag(g, ts, table)
    \/ AcquireSyncSession
    \/ ReleaseSyncSession
    \/ Prewarm

Spec == Init /\ [][Next]_vars

-----------------------------------------------------------------------------
(* Type invariant.                                                         *)
TypeOK ==
    /\ content \in FullTable(Torrent)
    /\ trackersOf \in [Torrent -> SUBSET Tracker]
    /\ tags \subseteq Tag
    /\ sessions \in Nat
    /\ initialized \in BOOLEAN
    /\ snapshot \in [torrents : FullTable(Torrent),
                     trackers : [Tracker -> (SUBSET Torrent) \union {Absent}],
                     tags     : SUBSET Tag]
    /\ knownTrackers \in [Tracker -> SUBSET Torrent]
    /\ pending \in [updatedTorrents : SUBSET Torrent, removedTorrents : SUBSET Torrent,
                    updatedTrackers : SUBSET Tracker, removedTrackers : SUBSET Tracker,
                    addedTags : SUBSET Tag, removedTags : SUBSET Tag]

(* Safety, what the dirty sets are for: whatever has happened since the    *)
(* last sync request, the delta the next one makes brings the snapshot to  *)
(* the session's torrents, their signalled fields, trackers and tags       *)
(* (storePendingRevision against a new initializeSnapshot).                *)
PendingDeltaIsComplete ==
    initialized =>
        LET after == SnapshotAfterPending
        IN  /\ \A t \in Torrent :
                  /\ InSession(t) <=> after.torrents[t] # Absent
                  /\ InSession(t) =>
                        \A f \in Field \ SilentField : after.torrents[t][f] = content[t][f]
            /\ after.trackers = Listed(TorrentsOf)
            /\ after.tags = tags

(* Safety, Q_ASSERT(torrent) in storePendingRevision: no torrent that has  *)
(* left the session is still noted as updated, even while signals arrive   *)
(* for an uninitialised store.                                             *)
UpdatedTorrentsExist ==
    \A t \in pending.updatedTorrents : InSession(t)

(* Safety: the incrementally maintained index is the inverse of the        *)
(* torrents' tracker lists (onTorrentAdded, onTorrentAboutToBeRemoved,     *)
(* onTorrentTrackersChanged).                                              *)
KnownTrackersAreTheSessions ==
    initialized => knownTrackers = TorrentsOf

(* Safety, "idle-release": without a sync session the store holds nothing, *)
(* and no signal makes it grow again (releaseSharedState,                  *)
(* shouldTrackDirtyState).                                                 *)
IdleStoreIsEmpty ==
    (ReleaseIdle /\ sessions = 0) =>
        /\ ~initialized
        /\ knownTrackers = [u \in Tracker |-> {}]
        /\ pending = NothingPending

(* Action property, Q_ASSERT(iter != m_knownTrackers.end()) in             *)
(* onTorrentAboutToBeRemoved: when a torrent is removed, the store knows   *)
(* its trackers.  It fails between the first SyncController of an idle     *)
(* store, which torrentPeers creates as well, and its first maindata.      *)
RemovedTrackersAreKnown ==
    [][\A t \in Torrent :
          (TracksDirtyState /\ InSession(t) /\ content'[t] = Absent)
              => \A u \in trackersOf[t] : knownTrackers[u] # {}]_vars

-----------------------------------------------------------------------------
(* The invariant behind these properties; inductive together with TypeOK.  *)

(* A torrent that is not noted has in the snapshot the row it has in the   *)
(* session, silent fields apart; one noted as removed is in neither of the *)
(* session and the updated torrents.                                       *)
TorrentConsistent(t) ==
    /\ pending.removedTorrents \cap pending.updatedTorrents = {}
    /\ t \in pending.removedTorrents => ~InSession(t)
    /\ (t \notin pending.removedTorrents /\ t \notin pending.updatedTorrents) =>
          /\ InSession(t) <=> snapshot.torrents[t] # Absent
          /\ InSession(t) =>
                \A f \in Field \ SilentField : snapshot.torrents[t][f] = content[t][f]

(* A tracker noted as removed has no torrent, one noted as updated has     *)
(* one, and any other is in the snapshot as it is in the session.          *)
TrackerConsistent(u) ==
    /\ u \in pending.removedTrackers => TorrentsOf[u] = {}
    /\ u \in pending.updatedTrackers => TorrentsOf[u] # {}
    /\ (u \notin pending.removedTrackers /\ u \notin pending.updatedTrackers)
          => snapshot.trackers[u] = Listed(TorrentsOf)[u]

TagConsistent(g) ==
    /\ g \in pending.removedTags => g \notin tags
    /\ g \in pending.addedTags => g \in tags
    /\ (g \notin pending.removedTags /\ g \notin pending.addedTags)
          => (g \in snapshot.tags <=> g \in tags)

StoreConsistent ==
    /\ \A t \in Torrent : ~InSession(t) => trackersOf[t] = {}
    /\ \A t \in pending.updatedTorrents : InSession(t)
    /\ initialized =>
          /\ knownTrackers = TorrentsOf
          /\ \A t \in Torrent : TorrentConsistent(t)
          /\ \A u \in Tracker : TrackerConsistent(u)
          /\ \A g \in Tag : TagConsistent(g)
    /\ IdleStoreIsEmpty
    /\ ~ReleaseIdle => initialized
=============================================================================
