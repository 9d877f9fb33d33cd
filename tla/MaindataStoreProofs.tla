------------------------ MODULE MaindataStoreProofs ------------------------
(***************************************************************************)
(* The dirty sets of the store suffice, for any torrents, trackers, tags,  *)
(* fields and number of sync sessions: the invariant is TypeOK and         *)
(* StoreConsistent.  Each handler is examined for what it does to the      *)
(* three tables (torrents, trackers, tags) in turn.                        *)
(***************************************************************************)
EXTENDS MaindataStore, TLAPS

PendingType ==
    [updatedTorrents : SUBSET Torrent, removedTorrents : SUBSET Torrent,
     updatedTrackers : SUBSET Tracker, removedTrackers : SUBSET Tracker,
     addedTags : SUBSET Tag, removedTags : SUBSET Tag]

SnapshotType ==
    [torrents : FullTable(Torrent),
     trackers : [Tracker -> (SUBSET Torrent) \union {Absent}],
     tags     : SUBSET Tag]

LEMMA TypeParts ==
    TypeOK <=>
        /\ content \in FullTable(Torrent)
        /\ trackersOf \in [Torrent -> SUBSET Tracker]
        /\ tags \subseteq Tag
        /\ sessions \in Nat
        /\ initialized \in BOOLEAN
        /\ snapshot \in SnapshotType
        /\ knownTrackers \in [Tracker -> SUBSET Torrent]
        /\ pending \in PendingType
BY DEF TypeOK, PendingType, SnapshotType

-----------------------------------------------------------------------------
(* Rows and their deltas.                                                  *)

LEMMA AtType ==
    ASSUME NEW row \in Row \union {Absent}
    PROVE  At(row) \in Row
BY DEF At, Row, NoFields

LEMMA RowIsNotAbsent == Absent \notin Row /\ FullRow \subseteq Row
BY MarkersAreNoData DEF Row, FullRow

(* processMap and mergeVariantMap undo each other: whatever the snapshot   *)
(* has of a row, the difference to the full row brings it up to date.      *)
LEMMA DiffRestoresRow ==
    ASSUME NEW prev \in Row \union {Absent}, NEW row \in FullRow
    PROVE  /\ DiffRow(prev, row) \in Row
           /\ MergeRow(At(prev), DiffRow(prev, row)) = row
<1> DEFINE before == At(prev)
<1>1. before \in Row
  BY AtType
<1>2. DiffRow(prev, row) = [f \in Field |-> IF row[f] = before[f] THEN NoValue ELSE row[f]]
  BY DEF DiffRow
<1> HIDE DEF before
<1>3. \A f \in Field : row[f] \in Value /\ row[f] # NoValue
  BY MarkersAreNoData DEF FullRow
<1>4. DiffRow(prev, row) \in Row
  BY <1>2, <1>3 DEF Row
<1>5. \A f \in Field : MergeRow(before, DiffRow(prev, row))[f] = row[f]
  BY <1>2, <1>3 DEF MergeRow
<1>6. MergeRow(before, DiffRow(prev, row)) = row
  BY <1>5 DEF MergeRow, FullRow
<1> QED BY <1>4, <1>6 DEF before

(* What one row becomes when the pending delta is applied: gone if it was  *)
(* noted as removed, else the present content if it was noted as updated   *)
(* and still exists, else what it was.                                     *)
LEMMA PendingRow ==
    ASSUME NEW K, NEW table \in Table(K), NEW present \in FullTable(K),
           NEW updated \in SUBSET K, NEW removed \in SUBSET K, NEW k \in K
    PROVE  ApplyDelta(table, PendingDelta(table, present, updated, removed))[k] =
               IF k \in removed THEN Absent
               ELSE IF k \in updated /\ present[k] # Absent THEN present[k]
               ELSE table[k]
<1> DEFINE d == PendingDelta(table, present, updated, removed)
<1>1. DOMAIN table = K /\ table[k] \in Row \union {Absent}
  BY DEF Table
<1>2. present[k] \in FullRow \union {Absent}
  BY DEF FullTable
<1>3. d.removed = removed
  BY DEF PendingDelta
<1>4. d.rows[k] = IF k \in updated /\ present[k] # Absent
                  THEN DiffRow(table[k], present[k]) ELSE Absent
  BY <1>1 DEF PendingDelta
<1>5. ApplyDelta(table, d)[k] = RowAfter(table[k], d, k)
  BY <1>1 DEF ApplyDelta
<1> HIDE DEF d
<1>6. CASE k \in removed
  BY <1>3, <1>5, <1>6 DEF RowAfter, d
<1>7. CASE k \notin removed /\ k \in updated /\ present[k] # Absent
  <2>1. /\ DiffRow(table[k], present[k]) \in Row
        /\ MergeRow(At(table[k]), DiffRow(table[k], present[k])) = present[k]
    BY <1>1, <1>2, <1>7, DiffRestoresRow
  <2>2. d.rows[k] = DiffRow(table[k], present[k]) /\ d.rows[k] # Absent
    BY <1>4, <1>7, <2>1, RowIsNotAbsent
  <2> QED BY <1>3, <1>5, <1>7, <2>1, <2>2 DEF RowAfter, d
<1>8. CASE k \notin removed /\ ~(k \in updated /\ present[k] # Absent)
  BY <1>3, <1>4, <1>5, <1>8 DEF RowAfter, d
<1> QED BY <1>6, <1>7, <1>8

-----------------------------------------------------------------------------
LEMMA FullRowIsNotAbsent == Absent \notin FullRow
BY RowIsNotAbsent

LEMMA FullTableIsTable == \A K : FullTable(K) \subseteq Table(K)
BY RowIsNotAbsent DEF FullTable, Table

LEMMA TorrentsOfType ==
    ASSUME TypeOK
    PROVE  /\ TorrentsOf \in [Tracker -> SUBSET Torrent]
           /\ \A u \in Tracker : TorrentsOf[u] = {t \in Torrent : u \in trackersOf[t]}
BY DEF TorrentsOf

LEMMA ListedType ==
    ASSUME NEW index \in [Tracker -> SUBSET Torrent]
    PROVE  /\ Listed(index) \in [Tracker -> (SUBSET Torrent) \union {Absent}]
           /\ \A u \in Tracker :
                 Listed(index)[u] = IF index[u] = {} THEN Absent ELSE index[u]
<1>1. \A u \in Tracker : (IF index[u] = {} THEN Absent ELSE index[u]) \in (SUBSET Torrent) \union {Absent}
  OBVIOUS
<1> QED BY <1>1 DEF Listed

LEMMA FreshSnapshotType ==
    ASSUME TypeOK
    PROVE  FreshSnapshot \in SnapshotType
BY TypeParts, TorrentsOfType, ListedType DEF FreshSnapshot, SnapshotType

LEMMA NothingPendingType == NothingPending \in PendingType
BY DEF NothingPending, PendingType

LEMMA NoSnapshotType == NoSnapshot \in SnapshotType
<1>1. [t \in Torrent |-> Absent] \in FullTable(Torrent)
  BY DEF FullTable
<1>2. [u \in Tracker |-> Absent] \in [Tracker -> (SUBSET Torrent) \union {Absent}]
  OBVIOUS
<1> QED BY <1>1, <1>2 DEF NoSnapshot, SnapshotType

(* The three tables of the snapshot once the pending changes are in it.    *)
LEMMA AfterPending ==
    ASSUME TypeOK
    PROVE  /\ SnapshotAfterPending \in SnapshotType
           /\ \A t \in Torrent :
                 SnapshotAfterPending.torrents[t] =
                     IF t \in pending.removedTorrents THEN Absent
                     ELSE IF t \in pending.updatedTorrents /\ InSession(t) THEN content[t]
                     ELSE snapshot.torrents[t]
           /\ \A u \in Tracker :
                 SnapshotAfterPending.trackers[u] =
                     IF u \in pending.removedTrackers THEN Absent
                     ELSE IF u \in pending.updatedTrackers THEN knownTrackers[u]
                     ELSE snapshot.trackers[u]
           /\ SnapshotAfterPending.tags =
                 (snapshot.tags \union pending.addedTags) \ pending.removedTags
<1> DEFINE after == SnapshotAfterPending
<1>1. /\ content \in FullTable(Torrent)
      /\ snapshot.torrents \in FullTable(Torrent)
      /\ snapshot.trackers \in [Tracker -> (SUBSET Torrent) \union {Absent}]
      /\ snapshot.tags \subseteq Tag
      /\ knownTrackers \in [Tracker -> SUBSET Torrent]
      /\ pending.updatedTorrents \in SUBSET Torrent /\ pending.removedTorrents \in SUBSET Torrent
      /\ pending.addedTags \subseteq Tag
  BY TypeParts DEF SnapshotType, PendingType
<1>2. snapshot.torrents \in Table(Torrent) /\ DOMAIN snapshot.torrents = Torrent
  BY <1>1, FullTableIsTable DEF FullTable
<1>3. after.torrents = ApplyDelta(snapshot.torrents,
                           PendingDelta(snapshot.torrents, content,
                               pending.updatedTorrents, pending.removedTorrents))
  BY DEF SnapshotAfterPending
<1>4. \A t \in Torrent : after.torrents[t] =
          IF t \in pending.removedTorrents THEN Absent
          ELSE IF t \in pending.updatedTorrents /\ content[t] # Absent THEN content[t]
          ELSE snapshot.torrents[t]
  BY <1>1, <1>2, <1>3, PendingRow
<1>5. after.trackers = [u \in Tracker |->
          IF u \in pending.removedTrackers THEN Absent
          ELSE IF u \in pending.updatedTrackers THEN knownTrackers[u]
          ELSE snapshot.trackers[u]]
  BY DEF SnapshotAfterPending
<1>6. after.tags = (snapshot.tags \union pending.addedTags) \ pending.removedTags
  BY DEF SnapshotAfterPending
<1>7. after.torrents \in FullTable(Torrent)
  <2>1. DOMAIN after.torrents = Torrent /\ after.torrents = [t \in Torrent |-> after.torrents[t]]
    BY <1>2, <1>3 DEF ApplyDelta
  <2>2. \A t \in Torrent : after.torrents[t] \in FullRow \union {Absent}
    BY <1>1, <1>4 DEF FullTable
  <2> QED BY <2>1, <2>2 DEF FullTable
<1>8. after.trackers \in [Tracker -> (SUBSET Torrent) \union {Absent}]
  BY <1>1, <1>5
<1>9. after.tags \subseteq Tag
  BY <1>1, <1>6
<1>10. after = [torrents |-> after.torrents, trackers |-> after.trackers, tags |-> after.tags]
  BY DEF SnapshotAfterPending
<1> HIDE DEF after
<1>11. after \in SnapshotType
  BY <1>7, <1>8, <1>9, <1>10 DEF SnapshotType
<1> QED BY <1>4, <1>5, <1>6, <1>11 DEF after, InSession

-----------------------------------------------------------------------------
LEMMA InitConsistent ==
    ASSUME Init
    PROVE  TypeOK /\ StoreConsistent
<1>1. TypeOK
  <2>1. /\ content \in FullTable(Torrent) /\ trackersOf \in [Torrent -> SUBSET Tracker]
        /\ tags \subseteq Tag /\ sessions \in Nat /\ initialized \in BOOLEAN
        /\ pending \in PendingType
    BY StoreAssumption, NothingPendingType DEF Init
  <2>2. TorrentsOf \in [Tracker -> SUBSET Torrent]
    BY DEF TorrentsOf
  <2>3. knownTrackers \in [Tracker -> SUBSET Torrent]
    BY <2>2 DEF Init
  <2>4. FreshSnapshot \in SnapshotType
    BY <2>1, <2>2, ListedType DEF FreshSnapshot, SnapshotType
  <2>5. snapshot \in SnapshotType
    BY <2>4, NoSnapshotType DEF Init
  <2> QED BY <2>1, <2>3, <2>5, TypeParts
<1>2. pending = NothingPending /\ pending.updatedTorrents = {} /\ pending.removedTorrents = {}
      /\ pending.updatedTrackers = {} /\ pending.removedTrackers = {}
      /\ pending.addedTags = {} /\ pending.removedTags = {}
  BY DEF Init, NothingPending
<1>3. ASSUME initialized
      PROVE  /\ knownTrackers = TorrentsOf
             /\ \A t \in Torrent : TorrentConsistent(t)
             /\ \A u \in Tracker : TrackerConsistent(u)
             /\ \A g \in Tag : TagConsistent(g)
  <2>1. ~ReleaseIdle /\ snapshot = FreshSnapshot /\ knownTrackers = TorrentsOf
    BY <1>3, StoreAssumption DEF Init
  <2>2. snapshot.torrents = content /\ snapshot.trackers = Listed(TorrentsOf) /\ snapshot.tags = tags
    BY <2>1 DEF FreshSnapshot
  <2> QED BY <1>2, <2>1, <2>2 DEF TorrentConsistent, TrackerConsistent, TagConsistent, InSession
<1>4. IdleStoreIsEmpty
  BY <1>2, StoreAssumption DEF Init, IdleStoreIsEmpty
<1>5. /\ \A t \in Torrent : ~InSession(t) => trackersOf[t] = {}
      /\ \A t \in pending.updatedTorrents : InSession(t)
      /\ ~ReleaseIdle => initialized
  BY <1>2 DEF Init
<1> QED BY <1>1, <1>3, <1>4, <1>5 DEF StoreConsistent

-----------------------------------------------------------------------------
(* A store that does not track the session is the released one.            *)
LEMMA Untracked ==
    ASSUME TypeOK, StoreConsistent, ~TracksDirtyState
    PROVE  /\ ~initialized
           /\ pending = NothingPending
           /\ knownTrackers = [u \in Tracker |-> {}]
BY TypeParts DEF TracksDirtyState, StoreConsistent, IdleStoreIsEmpty

(* What a handler has to establish: the store is still idle when it was,   *)
(* and the conjuncts about torrents, trackers and tags hold again.         *)
LEMMA HandlerPreserves ==
    ASSUME TypeOK, StoreConsistent,
           UNCHANGED <<sessions, initialized, snapshot>>,
           ~TracksDirtyState => UNCHANGED <<knownTrackers, pending>>,
           (\A t \in Torrent : ~InSession(t) => trackersOf[t] = {})',
           TracksDirtyState => (\A t \in pending.updatedTorrents : InSession(t))',
           initialized => /\ (knownTrackers = TorrentsOf)'
                          /\ \A t \in Torrent : TorrentConsistent(t)'
                          /\ \A u \in Tracker : TrackerConsistent(u)'
                          /\ \A g \in Tag : TagConsistent(g)'
    PROVE  StoreConsistent'
<1>1. IdleStoreIsEmpty'
  <2> SUFFICES ASSUME ReleaseIdle, sessions' = 0
      PROVE  /\ ~initialized'
             /\ knownTrackers' = [u \in Tracker |-> {}]
             /\ pending' = NothingPending
    BY DEF IdleStoreIsEmpty, NothingPending
  <2>1. ~TracksDirtyState
    BY DEF TracksDirtyState
  <2> QED BY <2>1, Untracked
<1>2. (\A t \in pending.updatedTorrents : InSession(t))'
  <2>1. CASE TracksDirtyState
    BY <2>1
  <2>2. CASE ~TracksDirtyState
    <3>1. pending' = NothingPending
      BY <2>2, Untracked
    <3> QED BY <3>1 DEF NothingPending
  <2> QED BY <2>1, <2>2
<1>3. (~ReleaseIdle => initialized)'
  BY DEF StoreConsistent
<1>4. initialized' => /\ (knownTrackers = TorrentsOf)'
                      /\ (\A t \in Torrent : TorrentConsistent(t))'
                      /\ (\A u \in Tracker : TrackerConsistent(u))'
                      /\ (\A g \in Tag : TagConsistent(g))'
  OBVIOUS
<1> QED BY <1>1, <1>2, <1>3, <1>4 DEF StoreConsistent

LEMMA WithoutAbsentee == \A S, x : x \notin S => S \ {x} = S
OBVIOUS

LEMMA InitializedTracks ==
    ASSUME TypeOK, StoreConsistent, initialized
    PROVE  /\ TracksDirtyState
           /\ knownTrackers = TorrentsOf
           /\ \A t \in Torrent : TorrentConsistent(t)
           /\ \A u \in Tracker : TrackerConsistent(u)
           /\ \A g \in Tag : TagConsistent(g)
BY TypeParts DEF TracksDirtyState, StoreConsistent, IdleStoreIsEmpty

LEMMA SameTrackers ==
    ASSUME UNCHANGED <<trackersOf, snapshot>>,
           pending'.updatedTrackers = pending.updatedTrackers,
           pending'.removedTrackers = pending.removedTrackers
    PROVE  /\ TorrentsOf' = TorrentsOf
           /\ \A u \in Tracker : TrackerConsistent(u) => TrackerConsistent(u)'
BY DEF TorrentsOf, TrackerConsistent, Listed

LEMMA SameTags ==
    ASSUME UNCHANGED <<tags, snapshot>>,
           pending'.addedTags = pending.addedTags,
           pending'.removedTags = pending.removedTags
    PROVE  \A g \in Tag : TagConsistent(g) => TagConsistent(g)'
BY DEF TagConsistent

-----------------------------------------------------------------------------
(* Types.                                                                  *)
LEMMA TypeStep ==
    ASSUME TypeOK, [Next]_vars
    PROVE  TypeOK'
<1>1. /\ content \in FullTable(Torrent)
      /\ trackersOf \in [Torrent -> SUBSET Tracker]
      /\ tags \subseteq Tag
      /\ sessions \in Nat
      /\ initialized \in BOOLEAN
      /\ snapshot \in SnapshotType
      /\ knownTrackers \in [Tracker -> SUBSET Torrent]
      /\ pending \in PendingType
  BY TypeParts
<1> DEFINE Goal == /\ content' \in FullTable(Torrent)
                   /\ trackersOf' \in [Torrent -> SUBSET Tracker]
                   /\ tags' \subseteq Tag
                   /\ sessions' \in Nat
                   /\ initialized' \in BOOLEAN
                   /\ snapshot' \in SnapshotType
                   /\ knownTrackers' \in [Tracker -> SUBSET Torrent]
                   /\ pending' \in PendingType
<1>2. \A row \in FullRow, t \in Torrent : [content EXCEPT ![t] = row] \in FullTable(Torrent)
  BY <1>1 DEF FullTable
<1>3. ASSUME NEW t \in Torrent, NEW row \in FullRow, NEW us \in SUBSET Tracker,
             TorrentAdded(t, row, us)
      PROVE  Goal
  <2>1. content' \in FullTable(Torrent)
    BY <1>2, <1>3 DEF TorrentAdded
  <2>2. pending' \in PendingType
    BY <1>1, <1>3 DEF TorrentAdded, OnTorrentAdded, NotePending, PendingType
  <2>3. knownTrackers' \in [Tracker -> SUBSET Torrent]
    <3>1. \A u \in Tracker :
            (IF u \in us THEN knownTrackers[u] \union {t} ELSE knownTrackers[u]) \in SUBSET Torrent
      BY <1>1
    <3> QED BY <1>1, <1>3, <3>1 DEF TorrentAdded, OnTorrentAdded, Index
  <2> QED BY <1>1, <1>3, <2>1, <2>2, <2>3 DEF TorrentAdded
<1>4. ASSUME NEW t \in Torrent, TorrentRemoved(t)
      PROVE  Goal
  <2>1. content' \in FullTable(Torrent)
    BY <1>1, <1>4 DEF TorrentRemoved, FullTable
  <2>2. pending' \in PendingType
    BY <1>1, <1>4 DEF TorrentRemoved, OnTorrentAboutToBeRemoved, NotePending, PendingType
  <2>3. knownTrackers' \in [Tracker -> SUBSET Torrent]
    <3> DEFINE found == {u \in trackersOf[t] : knownTrackers[u] # {}}
    <3>1. \A u \in Tracker :
            (IF u \in found THEN knownTrackers[u] \ {t} ELSE knownTrackers[u]) \in SUBSET Torrent
      BY <1>1
    <3>2. knownTrackers' = IF TracksDirtyState
              THEN [u \in Tracker |-> IF u \in found THEN knownTrackers[u] \ {t} ELSE knownTrackers[u]]
              ELSE knownTrackers
      BY <1>4 DEF TorrentRemoved, OnTorrentAboutToBeRemoved, Index
    <3> QED BY <1>1, <3>1, <3>2
  <2> QED BY <1>1, <1>4, <2>1, <2>2, <2>3 DEF TorrentRemoved
<1>5. ASSUME NEW t \in Torrent, NEW row \in FullRow, TorrentUpdated(t, row)
      PROVE  Goal
  <2>1. pending' \in PendingType /\ UNCHANGED knownTrackers
    BY <1>1, <1>5 DEF TorrentUpdated, OnTorrentsUpdated, NotePending, PendingType
  <2> QED BY <1>1, <1>2, <1>5, <2>1 DEF TorrentUpdated
<1>6. ASSUME NEW t \in Torrent, NEW row \in FullRow, TorrentChangedSilently(t, row)
      PROVE  Goal
  BY <1>1, <1>2, <1>6 DEF TorrentChangedSilently, storeVars
<1>7. ASSUME NEW t \in Torrent, NEW row \in FullRow, NEW us \in SUBSET Tracker,
             TrackersChanged(t, row, us)
      PROVE  Goal
  <2> DEFINE known == {u \in Tracker : knownTrackers[u] # {}}
             left == {u \in known \ us : t \in knownTrackers[u]}
             gone == {u \in left : knownTrackers[u] = {t}}
             joined == {u \in known \cap us : t \notin knownTrackers[u]}
             new == us \ known
             index == [u \in Tracker |->
                          CASE u \in left         -> knownTrackers[u] \ {t}
                            [] u \in joined \union new -> knownTrackers[u] \union {t}
                            [] OTHER              -> knownTrackers[u]]
  <2>1. index \in [Tracker -> SUBSET Torrent]
    <3>1. \A u \in Tracker : index[u] \in SUBSET Torrent
      <4> TAKE u \in Tracker
      <4>1. knownTrackers[u] \in SUBSET Torrent
        BY <1>1
      <4>2. ~(u \in left /\ u \in joined \union new)
        OBVIOUS
      <4>3. index[u] = IF u \in left THEN knownTrackers[u] \ {t}
                       ELSE IF u \in joined \union new THEN knownTrackers[u] \union {t}
                       ELSE knownTrackers[u]
        BY <4>2
      <4> HIDE DEF index, left, joined, new
      <4> QED BY <4>1, <4>3
    <3> QED BY <3>1
  <2>2. knownTrackers' = IF TracksDirtyState THEN index ELSE knownTrackers
    BY <1>7 DEF TrackersChanged, OnTorrentTrackersChanged, Index
  <2>3. pending' = IF TracksDirtyState
            THEN [pending EXCEPT
                     !.updatedTorrents = @ \union {t},
                     !.updatedTrackers = (@ \ gone) \union (left \ gone) \union joined \union new,
                     !.removedTrackers = (@ \union gone) \ new]
            ELSE pending
    BY <1>7 DEF TrackersChanged, OnTorrentTrackersChanged, NotePending
  <2>4. gone \subseteq Tracker /\ left \subseteq Tracker /\ joined \subseteq Tracker /\ new \subseteq Tracker
    OBVIOUS
  <2> HIDE DEF index, gone, left, joined, new
  <2>5. pending' \in PendingType
    BY <1>1, <2>3, <2>4 DEF PendingType
  <2>6. knownTrackers' \in [Tracker -> SUBSET Torrent]
    BY <1>1, <2>1, <2>2
  <2> QED BY <1>1, <1>2, <1>7, <2>5, <2>6 DEF TrackersChanged
<1>8. ASSUME NEW g \in Tag, AddTag(g)
      PROVE  Goal
  <2>1. pending' \in PendingType
    BY <1>1, <1>8 DEF AddTag, OnTagAdded, NotePending, PendingType
  <2> QED BY <1>1, <1>8, <2>1 DEF AddTag
<1>9. ASSUME NEW g \in Tag, NEW ts \in SUBSET {t \in Torrent : InSession(t)},
             NEW table \in [ts -> FullRow], RemoveTag(g, ts, table)
      PROVE  Goal
  <2>1. pending' \in PendingType
    BY <1>1, <1>9 DEF RemoveTag, OnTagRemoved, NotePending, PendingType
  <2>2. content' \in FullTable(Torrent)
    BY <1>1, <1>9 DEF RemoveTag, FullTable
  <2> QED BY <1>1, <1>9, <2>1, <2>2 DEF RemoveTag
<1>10. ASSUME AcquireSyncSession
       PROVE  Goal
  BY <1>1, <1>10 DEF AcquireSyncSession, sessionVars, storeVars
<1>11. ASSUME ReleaseSyncSession
       PROVE  Goal
  <2>1. sessions' \in Nat /\ UNCHANGED <<content, trackersOf, tags>>
    BY <1>1, <1>11 DEF ReleaseSyncSession, sessionVars
  <2>2. \/ UNCHANGED <<initialized, snapshot, knownTrackers, pending>>
        \/ /\ initialized' = FALSE /\ snapshot' = NoSnapshot /\ pending' = NothingPending
           /\ knownTrackers' = [u \in Tracker |-> {}]
    BY <1>11 DEF ReleaseSyncSession, storeVars
  <2> QED BY <1>1, <2>1, <2>2, NoSnapshotType, NothingPendingType
<1>12. ASSUME Prewarm
       PROVE  Goal
  <2>1. UNCHANGED <<content, trackersOf, tags, sessions>> /\ pending' = NothingPending /\ initialized' = TRUE
    BY <1>12 DEF Prewarm, sessionVars
  <2>2. \/ snapshot' = SnapshotAfterPending /\ UNCHANGED knownTrackers
        \/ snapshot' = FreshSnapshot /\ knownTrackers' = TorrentsOf
    BY <1>12 DEF Prewarm
  <2> QED BY <1>1, <2>1, <2>2, NothingPendingType, AfterPending, FreshSnapshotType, TorrentsOfType
<1>13. ASSUME UNCHANGED vars
       PROVE  Goal
  BY <1>1, <1>13 DEF vars, sessionVars, storeVars
<1>14. Goal
  BY <1>3, <1>4, <1>5, <1>6, <1>7, <1>8, <1>9, <1>10, <1>11, <1>12, <1>13 DEF Next
<1> QED BY <1>14 DEF TypeOK, PendingType, SnapshotType

-----------------------------------------------------------------------------
(* Consistency, one lemma per action of the session.                       *)
LEMMA AddedConsistent ==
    ASSUME TypeOK, TypeOK', StoreConsistent,
           NEW t \in Torrent, NEW row \in FullRow, NEW us \in SUBSET Tracker,
           TorrentAdded(t, row, us)
    PROVE  StoreConsistent'
<1>1. /\ content \in FullTable(Torrent) /\ trackersOf \in [Torrent -> SUBSET Tracker]
      /\ knownTrackers \in [Tracker -> SUBSET Torrent] /\ pending \in PendingType
  BY TypeParts
<1>2. /\ content[t] = Absent /\ content' = [content EXCEPT ![t] = row]
      /\ trackersOf' = [trackersOf EXCEPT ![t] = us]
      /\ UNCHANGED <<tags, sessions, initialized, snapshot>>
  BY DEF TorrentAdded, InSession
<1>3. trackersOf[t] = {} /\ \A s \in Torrent : ~InSession(s) => trackersOf[s] = {}
  BY <1>2 DEF StoreConsistent, InSession
<1>4. \A s \in Torrent : InSession(s)' <=> (s = t \/ InSession(s))
  BY <1>1, <1>2, FullRowIsNotAbsent DEF InSession, FullTable
<1>5. (\A s \in Torrent : ~InSession(s) => trackersOf[s] = {})'
  <2> SUFFICES ASSUME NEW s \in Torrent, ~InSession(s)'
      PROVE  trackersOf'[s] = {}
    OBVIOUS
  <2> QED BY <1>1, <1>2, <1>3, <1>4
<1>6. ~TracksDirtyState => UNCHANGED <<knownTrackers, pending>>
  BY DEF TorrentAdded, OnTorrentAdded, NotePending, Index
<1>7. ASSUME TracksDirtyState
      PROVE  /\ pending'.removedTorrents = pending.removedTorrents \ {t}
             /\ pending'.updatedTorrents = pending.updatedTorrents \union {t}
             /\ pending'.updatedTrackers = pending.updatedTrackers \union us
             /\ pending'.removedTrackers = pending.removedTrackers \ us
             /\ pending'.addedTags = pending.addedTags
             /\ pending'.removedTags = pending.removedTags
             /\ knownTrackers' = [u \in Tracker |->
                    IF u \in us THEN knownTrackers[u] \union {t} ELSE knownTrackers[u]]
  BY <1>1, <1>7 DEF TorrentAdded, OnTorrentAdded, NotePending, Index, PendingType
<1>8. TracksDirtyState => (\A s \in pending.updatedTorrents : InSession(s))'
  <2> SUFFICES ASSUME TracksDirtyState, NEW s \in pending'.updatedTorrents
      PROVE  InSession(s)'
    OBVIOUS
  <2>1. s \in Torrent
    BY <1>1, <1>7 DEF PendingType
  <2> QED BY <1>4, <1>7, <2>1 DEF StoreConsistent
<1>9. ASSUME initialized
      PROVE  /\ (knownTrackers = TorrentsOf)'
             /\ \A s \in Torrent : TorrentConsistent(s)'
             /\ \A u \in Tracker : TrackerConsistent(u)'
             /\ \A g \in Tag : TagConsistent(g)'
  <2>1. /\ TracksDirtyState
        /\ knownTrackers = TorrentsOf
        /\ \A s \in Torrent : TorrentConsistent(s)
        /\ \A u \in Tracker : TrackerConsistent(u)
        /\ \A g \in Tag : TagConsistent(g)
    BY <1>9, InitializedTracks
  <2>2. \A u \in Tracker : TorrentsOf'[u] = IF u \in us THEN TorrentsOf[u] \union {t} ELSE TorrentsOf[u]
    BY <1>1, <1>2, <1>3 DEF TorrentsOf
  <2>3. (knownTrackers = TorrentsOf)'
    <3>1. knownTrackers' = [u \in Tracker |-> TorrentsOf'[u]]
      BY <1>7, <2>1, <2>2
    <3>2. TorrentsOf' = [u \in Tracker |-> TorrentsOf'[u]]
      BY DEF TorrentsOf
    <3> QED BY <3>1, <3>2
  <2>4. ASSUME NEW s \in Torrent
        PROVE  TorrentConsistent(s)'
    <3>1. TorrentConsistent(s)
      BY <2>1
    <3>2. s # t => content'[s] = content[s]
      BY <1>1, <1>2 DEF FullTable
    <3> QED BY <1>2, <1>4, <1>7, <2>1, <3>1, <3>2 DEF TorrentConsistent
  <2>5. ASSUME NEW u \in Tracker
        PROVE  TrackerConsistent(u)'
    <3>1. TrackerConsistent(u)
      BY <2>1
    <3>2. Listed(TorrentsOf)[u] = IF TorrentsOf[u] = {} THEN Absent ELSE TorrentsOf[u]
      BY DEF Listed
    <3>3. Listed(TorrentsOf)'[u] = IF TorrentsOf'[u] = {} THEN Absent ELSE TorrentsOf'[u]
      BY DEF Listed
    <3>4. u \in us => TorrentsOf'[u] # {}
      BY <2>2
    <3>5. u \notin us => TorrentsOf'[u] = TorrentsOf[u]
      BY <2>2
    <3> QED BY <1>2, <1>7, <2>1, <3>1, <3>2, <3>3, <3>4, <3>5 DEF TrackerConsistent
  <2>6. ASSUME NEW g \in Tag
        PROVE  TagConsistent(g)'
    BY <1>2, <1>7, <2>1, SameTags
  <2> QED BY <2>3, <2>4, <2>5, <2>6
<1> HIDE DEF TorrentConsistent
<1> QED BY <1>2, <1>5, <1>6, <1>8, <1>9, HandlerPreserves

LEMMA RemovedConsistent ==
    ASSUME TypeOK, TypeOK', StoreConsistent, NEW t \in Torrent, TorrentRemoved(t)
    PROVE  StoreConsistent'
<1>1. /\ content \in FullTable(Torrent) /\ trackersOf \in [Torrent -> SUBSET Tracker]
      /\ knownTrackers \in [Tracker -> SUBSET Torrent] /\ pending \in PendingType
  BY TypeParts
<1>2. /\ InSession(t) /\ content' = [content EXCEPT ![t] = Absent]
      /\ trackersOf' = [trackersOf EXCEPT ![t] = {}]
      /\ UNCHANGED <<tags, sessions, initialized, snapshot>>
  BY DEF TorrentRemoved
<1>3. \A s \in Torrent : InSession(s)' <=> (s # t /\ InSession(s))
  BY <1>1, <1>2 DEF InSession, FullTable
<1>4. (\A s \in Torrent : ~InSession(s) => trackersOf[s] = {})'
  <2> SUFFICES ASSUME NEW s \in Torrent, ~InSession(s)'
      PROVE  trackersOf'[s] = {}
    OBVIOUS
  <2> QED BY <1>1, <1>2, <1>3 DEF StoreConsistent
<1>5. ~TracksDirtyState => UNCHANGED <<knownTrackers, pending>>
  BY DEF TorrentRemoved, OnTorrentAboutToBeRemoved, NotePending, Index
<1> DEFINE found == {u \in trackersOf[t] : knownTrackers[u] # {}}
           gone == {u \in found : knownTrackers[u] \subseteq {t}}
<1>6. ASSUME TracksDirtyState
      PROVE  /\ pending'.updatedTorrents = pending.updatedTorrents \ {t}
             /\ pending'.removedTorrents = pending.removedTorrents \union {t}
             /\ pending'.updatedTrackers = (pending.updatedTrackers \ gone) \union (found \ gone)
             /\ pending'.removedTrackers = pending.removedTrackers \union gone
             /\ pending'.addedTags = pending.addedTags
             /\ pending'.removedTags = pending.removedTags
             /\ knownTrackers' = [u \in Tracker |->
                    IF u \in found THEN knownTrackers[u] \ {t} ELSE knownTrackers[u]]
  BY <1>1, <1>6 DEF TorrentRemoved, OnTorrentAboutToBeRemoved, NotePending, Index, PendingType
<1>7. TracksDirtyState => (\A s \in pending.updatedTorrents : InSession(s))'
  <2> SUFFICES ASSUME TracksDirtyState, NEW s \in pending'.updatedTorrents
      PROVE  InSession(s)'
    OBVIOUS
  <2>1. s \in pending.updatedTorrents /\ s # t
    BY <1>6
  <2>2. s \in Torrent
    BY <1>1, <2>1 DEF PendingType
  <2> QED BY <1>3, <2>1, <2>2 DEF StoreConsistent
<1>8. ASSUME initialized
      PROVE  /\ (knownTrackers = TorrentsOf)'
             /\ \A s \in Torrent : TorrentConsistent(s)'
             /\ \A u \in Tracker : TrackerConsistent(u)'
             /\ \A g \in Tag : TagConsistent(g)'
  <2>1. /\ TracksDirtyState
        /\ knownTrackers = TorrentsOf
        /\ \A s \in Torrent : TorrentConsistent(s)
        /\ \A u \in Tracker : TrackerConsistent(u)
        /\ \A g \in Tag : TagConsistent(g)
    BY <1>8, InitializedTracks
  <2>2. \A u \in Tracker : TorrentsOf'[u] = TorrentsOf[u] \ {t}
    BY <1>1, <1>2 DEF TorrentsOf
  <2>3. \A u \in Tracker : u \in trackersOf[t] <=> t \in TorrentsOf[u]
    BY DEF TorrentsOf
  <2>4. \A u \in Tracker : u \in found <=> t \in TorrentsOf[u]
    BY <2>1, <2>3
  <2>5. \A u \in Tracker : u \in gone <=> (t \in TorrentsOf[u] /\ TorrentsOf'[u] = {})
    BY <2>1, <2>2, <2>4
  <2>6. \A u \in Tracker : u \notin found => TorrentsOf'[u] = TorrentsOf[u]
    BY <2>2, <2>4, WithoutAbsentee
  <2> HIDE DEF found, gone
  <2>7. (knownTrackers = TorrentsOf)'
    <3>1. \A u \in Tracker :
            TorrentsOf'[u] = IF u \in found THEN knownTrackers[u] \ {t} ELSE knownTrackers[u]
      BY <2>1, <2>2, <2>6
    <3>2. knownTrackers' = [u \in Tracker |-> TorrentsOf'[u]]
      BY <1>6, <2>1, <3>1
    <3>3. TorrentsOf' = [u \in Tracker |-> TorrentsOf'[u]]
      BY DEF TorrentsOf
    <3> QED BY <3>2, <3>3
  <2>8. ASSUME NEW s \in Torrent
        PROVE  TorrentConsistent(s)'
    <3>1. TorrentConsistent(s)
      BY <2>1
    <3>2. s # t => content'[s] = content[s]
      BY <1>1, <1>2 DEF FullTable
    <3> QED BY <1>2, <1>3, <1>6, <2>1, <3>1, <3>2 DEF TorrentConsistent
  <2>9. ASSUME NEW u \in Tracker
        PROVE  TrackerConsistent(u)'
    <3>1. TrackerConsistent(u)
      BY <2>1
    <3>2. Listed(TorrentsOf)[u] = IF TorrentsOf[u] = {} THEN Absent ELSE TorrentsOf[u]
      BY DEF Listed
    <3>3. Listed(TorrentsOf)'[u] = IF TorrentsOf'[u] = {} THEN Absent ELSE TorrentsOf'[u]
      BY DEF Listed
    <3>4. CASE u \in found
      BY <1>2, <1>6, <2>1, <2>2, <2>4, <2>5, <3>1, <3>3, <3>4 DEF TrackerConsistent
    <3>5. CASE u \notin found
      <4>1. TorrentsOf'[u] = TorrentsOf[u] /\ u \notin gone
        BY <2>4, <2>5, <2>6, <3>5
      <4> QED BY <1>2, <1>6, <2>1, <3>1, <3>2, <3>3, <3>5, <4>1 DEF TrackerConsistent
    <3> QED BY <3>4, <3>5
  <2>10. ASSUME NEW g \in Tag
        PROVE  TagConsistent(g)'
    BY <1>2, <1>6, <2>1, SameTags
  <2> QED BY <2>7, <2>8, <2>9, <2>10
<1> QED BY <1>2, <1>4, <1>5, <1>7, <1>8, HandlerPreserves

LEMMA UpdatedConsistent ==
    ASSUME TypeOK, TypeOK', StoreConsistent,
           NEW t \in Torrent, NEW row \in FullRow, TorrentUpdated(t, row)
    PROVE  StoreConsistent'
<1>1. content \in FullTable(Torrent) /\ pending \in PendingType
  BY TypeParts
<1>2. /\ InSession(t) /\ content' = [content EXCEPT ![t] = row]
      /\ UNCHANGED <<trackersOf, tags, sessions, initialized, snapshot, knownTrackers>>
  BY DEF TorrentUpdated, OnTorrentsUpdated
<1>3. \A s \in Torrent : InSession(s)' <=> InSession(s)
  BY <1>1, <1>2, FullRowIsNotAbsent DEF InSession, FullTable
<1>4. (\A s \in Torrent : ~InSession(s) => trackersOf[s] = {})'
  BY <1>2, <1>3 DEF StoreConsistent
<1>5. ~TracksDirtyState => UNCHANGED <<knownTrackers, pending>>
  BY <1>2 DEF TorrentUpdated, OnTorrentsUpdated, NotePending
<1>6. ASSUME TracksDirtyState
      PROVE  /\ pending'.updatedTorrents = pending.updatedTorrents \union {t}
             /\ pending'.removedTorrents = pending.removedTorrents
             /\ pending'.updatedTrackers = pending.updatedTrackers
             /\ pending'.removedTrackers = pending.removedTrackers
             /\ pending'.addedTags = pending.addedTags
             /\ pending'.removedTags = pending.removedTags
  BY <1>1, <1>6 DEF TorrentUpdated, OnTorrentsUpdated, NotePending, PendingType
<1>7. TracksDirtyState => (\A s \in pending.updatedTorrents : InSession(s))'
  <2> SUFFICES ASSUME TracksDirtyState, NEW s \in pending'.updatedTorrents
      PROVE  InSession(s)'
    OBVIOUS
  <2>1. s \in Torrent
    BY <1>1, <1>6 DEF PendingType
  <2> QED BY <1>2, <1>3, <1>6, <2>1 DEF StoreConsistent
<1>8. ASSUME initialized
      PROVE  /\ (knownTrackers = TorrentsOf)'
             /\ \A s \in Torrent : TorrentConsistent(s)'
             /\ \A u \in Tracker : TrackerConsistent(u)'
             /\ \A g \in Tag : TagConsistent(g)'
  <2>1. /\ TracksDirtyState
        /\ knownTrackers = TorrentsOf
        /\ \A s \in Torrent : TorrentConsistent(s)
        /\ \A u \in Tracker : TrackerConsistent(u)
        /\ \A g \in Tag : TagConsistent(g)
    BY <1>8, InitializedTracks
  <2>2. /\ TorrentsOf' = TorrentsOf
        /\ \A u \in Tracker : TrackerConsistent(u)'
    BY <1>2, <1>6, <2>1, SameTrackers
  <2>3. \A g \in Tag : TagConsistent(g)'
    BY <1>2, <1>6, <2>1, SameTags
  <2>4. ASSUME NEW s \in Torrent
        PROVE  TorrentConsistent(s)'
    <3>1. TorrentConsistent(s) /\ TorrentConsistent(t)
      BY <2>1
    <3>2. s # t => content'[s] = content[s]
      BY <1>1, <1>2 DEF FullTable
    <3>3. t \notin pending.removedTorrents
      BY <1>2, <3>1 DEF TorrentConsistent
    <3> QED BY <1>2, <1>3, <1>6, <2>1, <3>1, <3>2, <3>3 DEF TorrentConsistent
  <2> QED BY <1>2, <2>1, <2>2, <2>3, <2>4
<1> QED BY <1>2, <1>4, <1>5, <1>7, <1>8, HandlerPreserves

LEMMA SilentConsistent ==
    ASSUME TypeOK, TypeOK', StoreConsistent,
           NEW t \in Torrent, NEW row \in FullRow, TorrentChangedSilently(t, row)
    PROVE  StoreConsistent'
<1>1. content \in FullTable(Torrent) /\ pending \in PendingType
  BY TypeParts
<1>2. /\ InSession(t) /\ content' = [content EXCEPT ![t] = row]
      /\ \A f \in Field \ SilentField : row[f] = content[t][f]
      /\ UNCHANGED <<trackersOf, tags, sessions, initialized, snapshot, knownTrackers, pending>>
  BY DEF TorrentChangedSilently, storeVars
<1>3. \A s \in Torrent : InSession(s)' <=> InSession(s)
  BY <1>1, <1>2, FullRowIsNotAbsent DEF InSession, FullTable
<1>4. (\A s \in Torrent : ~InSession(s) => trackersOf[s] = {})'
  BY <1>2, <1>3 DEF StoreConsistent
<1>5. (\A s \in pending.updatedTorrents : InSession(s))'
  <2> SUFFICES ASSUME NEW s \in pending'.updatedTorrents
      PROVE  InSession(s)'
    OBVIOUS
  <2>1. s \in Torrent
    BY <1>1, <1>2 DEF PendingType
  <2> QED BY <1>2, <1>3, <2>1 DEF StoreConsistent
<1>6. ASSUME initialized
      PROVE  /\ (knownTrackers = TorrentsOf)'
             /\ \A s \in Torrent : TorrentConsistent(s)'
             /\ \A u \in Tracker : TrackerConsistent(u)'
             /\ \A g \in Tag : TagConsistent(g)'
  <2>1. /\ knownTrackers = TorrentsOf
        /\ \A s \in Torrent : TorrentConsistent(s)
        /\ \A u \in Tracker : TrackerConsistent(u)
        /\ \A g \in Tag : TagConsistent(g)
    BY <1>6, InitializedTracks
  <2>2. TorrentsOf' = TorrentsOf /\ \A u \in Tracker : TrackerConsistent(u)'
    BY <1>2, <2>1, SameTrackers
  <2>3. \A g \in Tag : TagConsistent(g)'
    BY <1>2, <2>1, SameTags
  <2>4. ASSUME NEW s \in Torrent
        PROVE  TorrentConsistent(s)'
    <3>1. TorrentConsistent(s)
      BY <2>1
    <3>2. \A f \in Field \ SilentField : content'[s][f] = content[s][f]
      BY <1>1, <1>2 DEF FullTable
    <3> QED BY <1>2, <1>3, <3>1, <3>2 DEF TorrentConsistent
  <2> QED BY <1>2, <2>1, <2>2, <2>3, <2>4
<1> QED BY <1>2, <1>4, <1>5, <1>6, HandlerPreserves

LEMMA TrackersChangedConsistent ==
    ASSUME TypeOK, TypeOK', StoreConsistent,
           NEW t \in Torrent, NEW row \in FullRow, NEW us \in SUBSET Tracker,
           TrackersChanged(t, row, us)
    PROVE  StoreConsistent'
<1>1. /\ content \in FullTable(Torrent) /\ trackersOf \in [Torrent -> SUBSET Tracker]
      /\ knownTrackers \in [Tracker -> SUBSET Torrent] /\ pending \in PendingType
  BY TypeParts
<1>2. /\ InSession(t) /\ content' = [content EXCEPT ![t] = row]
      /\ trackersOf' = [trackersOf EXCEPT ![t] = us]
      /\ UNCHANGED <<tags, sessions, initialized, snapshot>>
  BY DEF TrackersChanged
<1>3. \A s \in Torrent : InSession(s)' <=> InSession(s)
  BY <1>1, <1>2, FullRowIsNotAbsent DEF InSession, FullTable
<1>4. (\A s \in Torrent : ~InSession(s) => trackersOf[s] = {})'
  <2> SUFFICES ASSUME NEW s \in Torrent, ~InSession(s)'
      PROVE  trackersOf'[s] = {}
    OBVIOUS
  <2> QED BY <1>1, <1>2, <1>3 DEF StoreConsistent
<1>5. ~TracksDirtyState => UNCHANGED <<knownTrackers, pending>>
  BY DEF TrackersChanged, OnTorrentTrackersChanged, NotePending, Index
<1> DEFINE known == {u \in Tracker : knownTrackers[u] # {}}
           left == {u \in known \ us : t \in knownTrackers[u]}
           gone == {u \in left : knownTrackers[u] = {t}}
           joined == {u \in known \cap us : t \notin knownTrackers[u]}
           new == us \ known
           index == [u \in Tracker |->
                        CASE u \in left         -> knownTrackers[u] \ {t}
                          [] u \in joined \union new -> knownTrackers[u] \union {t}
                          [] OTHER              -> knownTrackers[u]]
<1>6. ASSUME TracksDirtyState
      PROVE  /\ pending'.updatedTorrents = pending.updatedTorrents \union {t}
             /\ pending'.removedTorrents = pending.removedTorrents
             /\ pending'.updatedTrackers =
                    (pending.updatedTrackers \ gone) \union (left \ gone) \union joined \union new
             /\ pending'.removedTrackers = (pending.removedTrackers \union gone) \ new
             /\ pending'.addedTags = pending.addedTags
             /\ pending'.removedTags = pending.removedTags
             /\ knownTrackers' = index
  <2>1. knownTrackers' = index
    BY <1>6 DEF TrackersChanged, OnTorrentTrackersChanged, Index
  <2>2. pending' =
            [pending EXCEPT
                !.updatedTorrents = @ \union {t},
                !.updatedTrackers = (@ \ gone) \union (left \ gone) \union joined \union new,
                !.removedTrackers = (@ \union gone) \ new]
    BY <1>6 DEF TrackersChanged, OnTorrentTrackersChanged, NotePending
  <2> HIDE DEF index, gone, left, joined, new
  <2> QED BY <1>1, <2>1, <2>2 DEF PendingType
<1>7. TracksDirtyState => (\A s \in pending.updatedTorrents : InSession(s))'
  <2> SUFFICES ASSUME TracksDirtyState, NEW s \in pending'.updatedTorrents
      PROVE  InSession(s)'
    OBVIOUS
  <2>1. pending'.updatedTorrents = pending.updatedTorrents \union {t}
    BY <1>6
  <2>2. s \in Torrent
    BY <1>1, <2>1 DEF PendingType
  <2> QED BY <1>2, <1>3, <2>1, <2>2 DEF StoreConsistent
<1>8. ASSUME initialized
      PROVE  /\ (knownTrackers = TorrentsOf)'
             /\ \A s \in Torrent : TorrentConsistent(s)'
             /\ \A u \in Tracker : TrackerConsistent(u)'
             /\ \A g \in Tag : TagConsistent(g)'
  <2>1. /\ TracksDirtyState
        /\ knownTrackers = TorrentsOf
        /\ \A s \in Torrent : TorrentConsistent(s)
        /\ \A u \in Tracker : TrackerConsistent(u)
        /\ \A g \in Tag : TagConsistent(g)
    BY <1>8, InitializedTracks
  <2>2. \A u \in Tracker :
          TorrentsOf'[u] = IF u \in us THEN TorrentsOf[u] \union {t} ELSE TorrentsOf[u] \ {t}
    BY <1>1, <1>2 DEF TorrentsOf
  <2>3. ASSUME NEW u \in Tracker
        PROVE  /\ u \in left <=> (t \in TorrentsOf[u] /\ u \notin us)
               /\ u \in gone <=> (u \in left /\ TorrentsOf'[u] = {})
               /\ u \in joined \union new <=> (t \notin TorrentsOf[u] /\ u \in us)
               /\ u \in new => TorrentsOf[u] = {}
               /\ u \in joined => TorrentsOf[u] # {}
               /\ u \in us => TorrentsOf'[u] # {}
               /\ (u \notin left /\ u \notin joined \union new) => TorrentsOf'[u] = TorrentsOf[u]
               /\ u \in left => TorrentsOf'[u] = TorrentsOf[u] \ {t}
               /\ u \in joined \union new => TorrentsOf'[u] = TorrentsOf[u] \union {t}
    <3>1. u \in left <=> (t \in TorrentsOf[u] /\ u \notin us)
      BY <2>1
    <3>2. u \in joined \union new <=> (t \notin TorrentsOf[u] /\ u \in us)
      BY <2>1, <1>1
    <3>3. u \in gone <=> (u \in left /\ TorrentsOf'[u] = {})
      <4>1. u \in left => (TorrentsOf[u] = {t} <=> TorrentsOf'[u] = {})
        BY <2>2, <3>1
      <4> QED BY <2>1, <4>1
    <3>4. /\ u \in new => TorrentsOf[u] = {}
          /\ u \in joined => TorrentsOf[u] # {}
      BY <2>1
    <3>5. (u \notin left /\ u \notin joined \union new) => TorrentsOf'[u] = TorrentsOf[u]
      <4> SUFFICES ASSUME u \notin left, u \notin joined \union new
          PROVE  TorrentsOf'[u] = TorrentsOf[u]
        OBVIOUS
      <4> HIDE DEF left, joined, new
      <4>1. u \in us <=> t \in TorrentsOf[u]
        BY <3>1, <3>2
      <4>2. CASE u \in us
        <5>1. TorrentsOf[u] \union {t} = TorrentsOf[u]
          BY <4>1, <4>2
        <5> QED BY <2>2, <4>2, <5>1
      <4>3. CASE u \notin us
        <5>1. TorrentsOf[u] \ {t} = TorrentsOf[u]
          BY <4>1, <4>3, WithoutAbsentee
        <5> QED BY <2>2, <4>3, <5>1
      <4> QED BY <4>2, <4>3
    <3> HIDE DEF left, gone, joined, new
    <3>6. /\ u \in us => TorrentsOf'[u] # {}
          /\ u \in left => TorrentsOf'[u] = TorrentsOf[u] \ {t}
          /\ u \in joined \union new => TorrentsOf'[u] = TorrentsOf[u] \union {t}
      BY <2>2, <3>1, <3>2
    <3> QED BY <3>1, <3>2, <3>3, <3>4, <3>5, <3>6
  <2>4. (knownTrackers = TorrentsOf)'
    <3>1. \A u \in Tracker : index[u] = TorrentsOf'[u]
      <4> TAKE u \in Tracker
      <4>1. ~(u \in left /\ u \in joined \union new)
        OBVIOUS
      <4>2. index[u] = IF u \in left THEN knownTrackers[u] \ {t}
                       ELSE IF u \in joined \union new THEN knownTrackers[u] \union {t}
                       ELSE knownTrackers[u]
        BY <4>1
      <4> HIDE DEF index, left, joined, new
      <4> QED BY <2>1, <2>3, <4>2
    <3>2. TorrentsOf' = [u \in Tracker |-> TorrentsOf'[u]]
      BY DEF TorrentsOf
    <3>3. index = [u \in Tracker |-> index[u]]
      OBVIOUS
    <3> HIDE DEF index
    <3>4. index = TorrentsOf'
      BY <3>1, <3>2, <3>3
    <3> QED BY <1>6, <2>1, <3>4
  <2> HIDE DEF left, gone, joined, new, index
  <2>5. ASSUME NEW s \in Torrent
        PROVE  TorrentConsistent(s)'
    <3>1. TorrentConsistent(s) /\ TorrentConsistent(t)
      BY <2>1
    <3>2. s # t => content'[s] = content[s]
      BY <1>1, <1>2 DEF FullTable
    <3>3. t \notin pending.removedTorrents
      BY <1>2, <3>1 DEF TorrentConsistent
    <3> QED BY <1>2, <1>3, <1>6, <2>1, <3>1, <3>2, <3>3 DEF TorrentConsistent
  <2>6. ASSUME NEW u \in Tracker
        PROVE  TrackerConsistent(u)'
    <3>1. TrackerConsistent(u)
      BY <2>1
    <3>2. Listed(TorrentsOf)[u] = IF TorrentsOf[u] = {} THEN Absent ELSE TorrentsOf[u]
      BY DEF Listed
    <3>3. Listed(TorrentsOf)'[u] = IF TorrentsOf'[u] = {} THEN Absent ELSE TorrentsOf'[u]
      BY DEF Listed
    <3>4. /\ pending'.updatedTrackers =
                    (pending.updatedTrackers \ gone) \union (left \ gone) \union joined \union new
          /\ pending'.removedTrackers = (pending.removedTrackers \union gone) \ new
      BY <1>6, <2>1
    <3>5. CASE u \in left
      BY <1>2, <2>3, <3>1, <3>3, <3>4, <3>5 DEF TrackerConsistent
    <3>6. CASE u \in joined \union new
      BY <1>2, <2>3, <3>1, <3>3, <3>4, <3>6 DEF TrackerConsistent
    <3>7. CASE u \notin left /\ u \notin joined \union new
      <4>1. TorrentsOf'[u] = TorrentsOf[u] /\ u \notin gone
        BY <2>3, <3>7
      <4> QED BY <1>2, <3>1, <3>2, <3>3, <3>4, <3>7, <4>1 DEF TrackerConsistent
    <3> QED BY <3>5, <3>6, <3>7
  <2>7. ASSUME NEW g \in Tag
        PROVE  TagConsistent(g)'
    BY <1>2, <1>6, <2>1, SameTags
  <2> QED BY <2>4, <2>5, <2>6, <2>7
<1> QED BY <1>2, <1>4, <1>5, <1>7, <1>8, HandlerPreserves

LEMMA AddTagConsistent ==
    ASSUME TypeOK, TypeOK', StoreConsistent, NEW g \in Tag, AddTag(g)
    PROVE  StoreConsistent'
<1>1. pending \in PendingType
  BY TypeParts
<1>2. /\ tags' = tags \union {g}
      /\ UNCHANGED <<content, trackersOf, sessions, initialized, snapshot, knownTrackers>>
  BY DEF AddTag
<1>3. ~TracksDirtyState => UNCHANGED <<knownTrackers, pending>>
  BY <1>2 DEF AddTag, OnTagAdded, NotePending
<1>4. /\ pending'.updatedTorrents = pending.updatedTorrents
      /\ pending'.removedTorrents = pending.removedTorrents
      /\ pending'.updatedTrackers = pending.updatedTrackers
      /\ pending'.removedTrackers = pending.removedTrackers
      /\ TracksDirtyState => /\ pending'.addedTags = pending.addedTags \union {g}
                             /\ pending'.removedTags = pending.removedTags \ {g}
  BY <1>1 DEF AddTag, OnTagAdded, NotePending, PendingType
<1>5. ASSUME initialized
      PROVE  /\ (knownTrackers = TorrentsOf)'
             /\ \A s \in Torrent : TorrentConsistent(s)'
             /\ \A u \in Tracker : TrackerConsistent(u)'
             /\ \A h \in Tag : TagConsistent(h)'
  <2>1. /\ TracksDirtyState
        /\ knownTrackers = TorrentsOf
        /\ \A s \in Torrent : TorrentConsistent(s)
        /\ \A u \in Tracker : TrackerConsistent(u)
        /\ \A h \in Tag : TagConsistent(h)
    BY <1>5, InitializedTracks
  <2>2. TorrentsOf' = TorrentsOf /\ \A u \in Tracker : TrackerConsistent(u)'
    BY <1>2, <1>4, <2>1, SameTrackers
  <2>3. \A s \in Torrent : TorrentConsistent(s)'
    BY <1>2, <1>4, <2>1 DEF TorrentConsistent, InSession
  <2>4. \A h \in Tag : TagConsistent(h)'
    BY <1>2, <1>4, <2>1 DEF TagConsistent
  <2> QED BY <1>2, <2>1, <2>2, <2>3, <2>4
<1>6. (\A s \in Torrent : ~InSession(s) => trackersOf[s] = {})'
  BY <1>2 DEF StoreConsistent, InSession
<1>7. (\A s \in pending.updatedTorrents : InSession(s))'
  BY <1>2, <1>4 DEF StoreConsistent, InSession
<1> QED BY <1>2, <1>3, <1>5, <1>6, <1>7, HandlerPreserves

LEMMA RemoveTagConsistent ==
    ASSUME TypeOK, TypeOK', StoreConsistent,
           NEW g \in Tag, NEW ts \in SUBSET {t \in Torrent : InSession(t)},
           NEW table \in [ts -> FullRow], RemoveTag(g, ts, table)
    PROVE  StoreConsistent'
<1>1. content \in FullTable(Torrent) /\ pending \in PendingType
  BY TypeParts
<1>2. /\ tags' = tags \ {g}
      /\ content' = [t \in Torrent |-> IF t \in ts THEN table[t] ELSE content[t]]
      /\ UNCHANGED <<trackersOf, sessions, initialized, snapshot, knownTrackers>>
  BY DEF RemoveTag
<1>3. \A s \in Torrent : InSession(s)' <=> InSession(s)
  BY <1>1, <1>2, FullRowIsNotAbsent DEF InSession, FullTable
<1>4. ~TracksDirtyState => UNCHANGED <<knownTrackers, pending>>
  BY <1>2 DEF RemoveTag, OnTagRemoved, NotePending
<1>5. ASSUME TracksDirtyState
      PROVE  /\ pending'.updatedTorrents = pending.updatedTorrents \union ts
             /\ pending'.removedTorrents = pending.removedTorrents
             /\ pending'.updatedTrackers = pending.updatedTrackers
             /\ pending'.removedTrackers = pending.removedTrackers
             /\ pending'.addedTags = pending.addedTags \ {g}
             /\ pending'.removedTags = pending.removedTags \union {g}
  BY <1>1, <1>5 DEF RemoveTag, OnTagRemoved, NotePending, PendingType
<1>6. ASSUME initialized
      PROVE  /\ (knownTrackers = TorrentsOf)'
             /\ \A s \in Torrent : TorrentConsistent(s)'
             /\ \A u \in Tracker : TrackerConsistent(u)'
             /\ \A h \in Tag : TagConsistent(h)'
  <2>1. /\ TracksDirtyState
        /\ knownTrackers = TorrentsOf
        /\ \A s \in Torrent : TorrentConsistent(s)
        /\ \A u \in Tracker : TrackerConsistent(u)
        /\ \A h \in Tag : TagConsistent(h)
    BY <1>6, InitializedTracks
  <2>2. TorrentsOf' = TorrentsOf /\ \A u \in Tracker : TrackerConsistent(u)'
    BY <1>2, <1>5, <2>1, SameTrackers
  <2>3. ASSUME NEW s \in Torrent
        PROVE  TorrentConsistent(s)'
    <3>1. TorrentConsistent(s)
      BY <2>1
    <3>2. \A r \in pending.removedTorrents : ~InSession(r)
      BY <1>1, <2>1 DEF TorrentConsistent, PendingType
    <3>3. s \notin ts => content'[s] = content[s]
      BY <1>2
    <3> QED BY <1>2, <1>3, <1>5, <2>1, <3>1, <3>2, <3>3 DEF TorrentConsistent
  <2>4. \A h \in Tag : TagConsistent(h)'
    BY <1>2, <1>5, <2>1 DEF TagConsistent
  <2> QED BY <1>2, <2>1, <2>2, <2>3, <2>4
<1>7. (\A s \in Torrent : ~InSession(s) => trackersOf[s] = {})'
  BY <1>2, <1>3 DEF StoreConsistent
<1>8. TracksDirtyState => (\A s \in pending.updatedTorrents : InSession(s))'
  <2> SUFFICES ASSUME TracksDirtyState, NEW s \in pending'.updatedTorrents
      PROVE  InSession(s)'
    OBVIOUS
  <2>1. s \in Torrent
    BY <1>1, <1>5 DEF PendingType
  <2> QED BY <1>3, <1>5, <2>1 DEF StoreConsistent
<1> QED BY <1>2, <1>4, <1>6, <1>7, <1>8, HandlerPreserves

-----------------------------------------------------------------------------
(* The SyncControllers.                                                    *)
(* PendingDeltaIsComplete, from the invariant.                             *)
LEMMA ConsistentIsComplete ==
    ASSUME TypeOK, StoreConsistent
    PROVE  PendingDeltaIsComplete
<1> SUFFICES ASSUME initialized
    PROVE  LET after == SnapshotAfterPending
           IN  /\ \A t \in Torrent :
                     /\ InSession(t) <=> after.torrents[t] # Absent
                     /\ InSession(t) =>
                           \A f \in Field \ SilentField : after.torrents[t][f] = content[t][f]
               /\ after.trackers = Listed(TorrentsOf)
               /\ after.tags = tags
  BY DEF PendingDeltaIsComplete
<1> DEFINE after == SnapshotAfterPending
<1>1. /\ knownTrackers = TorrentsOf
      /\ \A t \in Torrent : TorrentConsistent(t)
      /\ \A u \in Tracker : TrackerConsistent(u)
      /\ \A g \in Tag : TagConsistent(g)
      /\ \A t \in pending.updatedTorrents : InSession(t)
  BY InitializedTracks DEF StoreConsistent
<1>2. /\ after \in SnapshotType
      /\ \A t \in Torrent :
            after.torrents[t] =
                IF t \in pending.removedTorrents THEN Absent
                ELSE IF t \in pending.updatedTorrents /\ InSession(t) THEN content[t]
                ELSE snapshot.torrents[t]
      /\ \A u \in Tracker :
            after.trackers[u] =
                IF u \in pending.removedTrackers THEN Absent
                ELSE IF u \in pending.updatedTrackers THEN knownTrackers[u]
                ELSE snapshot.trackers[u]
      /\ after.tags = (snapshot.tags \union pending.addedTags) \ pending.removedTags
  BY AfterPending
<1>3. pending \in PendingType /\ snapshot \in SnapshotType /\ tags \subseteq Tag
  BY TypeParts
<1> HIDE DEF after
<1>4. ASSUME NEW t \in Torrent
      PROVE  /\ InSession(t) <=> after.torrents[t] # Absent
             /\ InSession(t) =>
                   \A f \in Field \ SilentField : after.torrents[t][f] = content[t][f]
  <2>1. TorrentConsistent(t)
    BY <1>1
  <2>2. CASE t \in pending.removedTorrents
    BY <1>2, <2>1, <2>2 DEF TorrentConsistent
  <2>3. CASE t \notin pending.removedTorrents /\ t \in pending.updatedTorrents
    <3>1. InSession(t) /\ after.torrents[t] = content[t]
      BY <1>1, <1>2, <2>3
    <3> QED BY <3>1 DEF InSession
  <2>4. CASE t \notin pending.removedTorrents /\ t \notin pending.updatedTorrents
    BY <1>2, <2>1, <2>4 DEF TorrentConsistent
  <2> QED BY <2>2, <2>3, <2>4
<1>5. after.trackers = Listed(TorrentsOf)
  <2>1. ASSUME NEW u \in Tracker
        PROVE  after.trackers[u] = Listed(TorrentsOf)[u]
    <3>1. TrackerConsistent(u)
      BY <1>1
    <3>2. Listed(TorrentsOf)[u] = IF TorrentsOf[u] = {} THEN Absent ELSE TorrentsOf[u]
      BY DEF Listed
    <3> QED BY <1>1, <1>2, <3>1, <3>2 DEF TrackerConsistent
  <2>2. after.trackers = [u \in Tracker |-> after.trackers[u]]
    BY <1>2 DEF SnapshotType
  <2>3. Listed(TorrentsOf) = [u \in Tracker |-> Listed(TorrentsOf)[u]]
    BY DEF Listed
  <2> QED BY <2>1, <2>2, <2>3
<1>6. after.tags = tags
  <2>1. \A g \in Tag : g \in after.tags <=> g \in tags
    BY <1>1, <1>2 DEF TagConsistent
  <2>2. after.tags \subseteq Tag
    BY <1>2 DEF SnapshotType
  <2> QED BY <1>3, <2>1, <2>2
<1> QED BY <1>4, <1>5, <1>6 DEF after

LEMMA PrewarmConsistent ==
    ASSUME TypeOK, TypeOK', StoreConsistent, Prewarm
    PROVE  StoreConsistent'
<1>1. /\ sessions > 0 /\ initialized' = TRUE /\ pending' = NothingPending
      /\ UNCHANGED <<content, trackersOf, tags, sessions>>
  BY DEF Prewarm, sessionVars
<1>2. TorrentsOf' = TorrentsOf /\ Listed(TorrentsOf)' = Listed(TorrentsOf)
  BY <1>1 DEF TorrentsOf, Listed
<1>3. /\ knownTrackers' = TorrentsOf
      /\ snapshot'.trackers = Listed(TorrentsOf) /\ snapshot'.tags = tags
      /\ \A t \in Torrent :
            /\ InSession(t) <=> snapshot'.torrents[t] # Absent
            /\ InSession(t) =>
                  \A f \in Field \ SilentField : snapshot'.torrents[t][f] = content[t][f]
  <2>1. CASE initialized
    <3>1. snapshot' = SnapshotAfterPending /\ knownTrackers' = knownTrackers
      BY <2>1 DEF Prewarm
    <3>2. PendingDeltaIsComplete
      BY ConsistentIsComplete
    <3> QED BY <2>1, <3>1, <3>2, InitializedTracks DEF PendingDeltaIsComplete
  <2>2. CASE ~initialized
    <3>1. snapshot' = FreshSnapshot /\ knownTrackers' = TorrentsOf
      BY <2>2 DEF Prewarm
    <3> QED BY <3>1 DEF FreshSnapshot, InSession
  <2> QED BY <2>1, <2>2
<1>4. \A t \in Torrent : InSession(t)' <=> InSession(t)
  BY <1>1 DEF InSession
<1>5. /\ (\A t \in Torrent : TorrentConsistent(t))'
      /\ (\A u \in Tracker : TrackerConsistent(u))'
      /\ (\A g \in Tag : TagConsistent(g))'
  <2>1. /\ pending'.updatedTorrents = {} /\ pending'.removedTorrents = {}
        /\ pending'.updatedTrackers = {} /\ pending'.removedTrackers = {}
        /\ pending'.addedTags = {} /\ pending'.removedTags = {}
    BY <1>1 DEF NothingPending
  <2>2. (\A t \in Torrent : TorrentConsistent(t))'
    BY <1>1, <1>3, <1>4, <2>1 DEF TorrentConsistent
  <2>3. (\A u \in Tracker : TrackerConsistent(u))'
    BY <1>2, <1>3, <2>1 DEF TrackerConsistent
  <2>4. (\A g \in Tag : TagConsistent(g))'
    BY <1>1, <1>3, <2>1 DEF TagConsistent
  <2> QED BY <2>2, <2>3, <2>4
<1>6. (\A t \in Torrent : ~InSession(t) => trackersOf[t] = {})'
  BY <1>1, <1>4 DEF StoreConsistent
<1>7. (\A t \in pending.updatedTorrents : InSession(t))'
  BY <1>1 DEF NothingPending
<1>8. IdleStoreIsEmpty'
  BY <1>1 DEF IdleStoreIsEmpty
<1> QED BY <1>1, <1>2, <1>3, <1>5, <1>6, <1>7, <1>8 DEF StoreConsistent

LEMMA SessionsConsistent ==
    ASSUME TypeOK, TypeOK', StoreConsistent, AcquireSyncSession \/ ReleaseSyncSession
    PROVE  StoreConsistent'
<1>1. sessions \in Nat /\ UNCHANGED <<content, trackersOf, tags>>
  BY TypeParts DEF AcquireSyncSession, ReleaseSyncSession, sessionVars
<1>2. TorrentsOf' = TorrentsOf /\ Listed(TorrentsOf)' = Listed(TorrentsOf)
  BY <1>1 DEF TorrentsOf, Listed
<1>3. (\A t \in Torrent : ~InSession(t) => trackersOf[t] = {})'
  BY <1>1 DEF StoreConsistent, InSession
<1>4. CASE UNCHANGED storeVars /\ ~(ReleaseIdle /\ sessions' = 0)
  <2>1. UNCHANGED <<initialized, snapshot, knownTrackers, pending>>
    BY <1>4 DEF storeVars
  <2>2. IdleStoreIsEmpty'
    BY <1>4 DEF IdleStoreIsEmpty
  <2>3. initialized' => /\ (knownTrackers = TorrentsOf)'
                        /\ (\A t \in Torrent : TorrentConsistent(t))'
                        /\ (\A u \in Tracker : TrackerConsistent(u))'
                        /\ (\A g \in Tag : TagConsistent(g))'
    BY <1>1, <1>2, <2>1
       DEF StoreConsistent, TorrentConsistent, TrackerConsistent, TagConsistent, InSession
  <2>4. (\A t \in pending.updatedTorrents : InSession(t))' /\ (~ReleaseIdle => initialized)'
    BY <1>1, <2>1 DEF StoreConsistent, InSession
  <2> QED BY <1>3, <2>2, <2>3, <2>4 DEF StoreConsistent
<1>5. CASE /\ ReleaseIdle /\ initialized' = FALSE
           /\ knownTrackers' = [u \in Tracker |-> {}] /\ pending' = NothingPending
  <2>1. IdleStoreIsEmpty'
    BY <1>5 DEF IdleStoreIsEmpty, NothingPending
  <2>2. (\A t \in pending.updatedTorrents : InSession(t))'
    BY <1>5 DEF NothingPending
  <2> QED BY <1>3, <1>5, <2>1, <2>2 DEF StoreConsistent
<1>6. AcquireSyncSession => UNCHANGED storeVars /\ sessions' # 0
  BY <1>1 DEF AcquireSyncSession
<1> QED BY <1>4, <1>5, <1>6 DEF ReleaseSyncSession

-----------------------------------------------------------------------------
LEMMA ConsistentStep ==
    ASSUME TypeOK, TypeOK', StoreConsistent, [Next]_vars
    PROVE  StoreConsistent'
<1>1. CASE Next
  BY <1>1, AddedConsistent, RemovedConsistent, UpdatedConsistent, SilentConsistent,
     TrackersChangedConsistent, AddTagConsistent, RemoveTagConsistent,
     SessionsConsistent, PrewarmConsistent
     DEF Next
<1>2. CASE UNCHANGED vars
  <2>1. UNCHANGED <<content, trackersOf, tags, sessions, initialized, snapshot, knownTrackers, pending>>
    BY <1>2 DEF vars, sessionVars, storeVars
  <2>2. TorrentsOf' = TorrentsOf /\ Listed(TorrentsOf)' = Listed(TorrentsOf)
    BY <2>1 DEF TorrentsOf, Listed
  <2>3. \A t \in Torrent : InSession(t)' <=> InSession(t)
    BY <2>1 DEF InSession
  <2>4. initialized => /\ (knownTrackers = TorrentsOf)'
                       /\ \A t \in Torrent : TorrentConsistent(t)'
                       /\ \A u \in Tracker : TrackerConsistent(u)'
                       /\ \A g \in Tag : TagConsistent(g)'
    BY <2>1, <2>2, <2>3
       DEF StoreConsistent, TorrentConsistent, TrackerConsistent, TagConsistent
  <2>5. (\A t \in Torrent : ~InSession(t) => trackersOf[t] = {})'
    BY <2>1, <2>3 DEF StoreConsistent
  <2>6. (\A t \in pending.updatedTorrents : InSession(t))'
    BY <2>1 DEF StoreConsistent, InSession
  <2> QED BY <2>1, <2>4, <2>5, <2>6, HandlerPreserves
<1> QED BY <1>1, <1>2

(* Every variable keeps its type, for any constants.                       *)
THEOREM TypeCorrect == Spec => []TypeOK
<1>1. Init => TypeOK
  BY InitConsistent
<1>2. TypeOK /\ [Next]_vars => TypeOK'
  BY TypeStep
<1> QED BY <1>1, <1>2, PTL DEF Spec

(* The invariant behind the dirty sets and the tracker index.              *)
THEOREM Consistent == Spec => []StoreConsistent
<1>1. Init => StoreConsistent
  BY InitConsistent
<1>2. TypeOK /\ TypeOK' /\ StoreConsistent /\ [Next]_vars => StoreConsistent'
  BY ConsistentStep
<1> QED BY <1>1, <1>2, TypeCorrect, PTL DEF Spec

(* No signal is missed: the pending delta always completes the snapshot.   *)
THEOREM DeltaIsComplete == Spec => []PendingDeltaIsComplete
<1>1. TypeOK /\ StoreConsistent => PendingDeltaIsComplete
  BY ConsistentIsComplete
<1> QED BY <1>1, TypeCorrect, Consistent, PTL

(* The assertion on torrents in storePendingRevision never fails.          *)
THEOREM UpdatedExist == Spec => []UpdatedTorrentsExist
<1>1. StoreConsistent => UpdatedTorrentsExist
  BY DEF StoreConsistent, UpdatedTorrentsExist
<1> QED BY <1>1, Consistent, PTL

(* The tracker index is the session's.                                     *)
THEOREM TrackersKnown == Spec => []KnownTrackersAreTheSessions
<1>1. StoreConsistent => KnownTrackersAreTheSessions
  BY DEF StoreConsistent, KnownTrackersAreTheSessions
<1> QED BY <1>1, Consistent, PTL

(* An idle store stays released.                                           *)
THEOREM IdleIsEmpty == Spec => []IdleStoreIsEmpty
<1>1. StoreConsistent => IdleStoreIsEmpty
  BY DEF StoreConsistent
<1> QED BY <1>1, Consistent, PTL
=============================================================================
