--------------------------- MODULE CompactSnapshot ---------------------------
(***************************************************************************)
(* The snapshot of MaindataRevisionStore in each of its forms.  Plain rows *)
(* are kept as they are.  Compact rows are packed (CompactRows), and some  *)
(* families of fields may be packed apart (sidecar, subgroups) or not kept *)
(* at all and taken from the torrent when they are needed (on demand).     *)
(* Deltas are made against the snapshot and applied to it, full responses  *)
(* are read from it; the tab must not see a difference.                    *)
(*                                                                         *)
(* One tab is followed; requests of other tabs move the store on and leave *)
(* increments for it.  Numbering, eviction and lost responses are those of *)
(* MaindataRevisions, other tables than that of the torrents are plain.    *)
(***************************************************************************)
EXTENDS CompactRows

CONSTANTS
    Torrent,
    Numeric,            \* families of fields that may be kept apart
    Status,
    Lifecycle,
    Zero,               \* the static default of a field
    SilentField,        \* fields that change without a signal
    Modes,              \* settings the store may be made with
    FirstRows,          \* rows of the torrents at the start
    MaxChanges          \* bound: changes of the session

Mode == [compact : BOOLEAN, pool : BOOLEAN, sidecar : BOOLEAN, subgroups : BOOLEAN,
         lifecycleOnDemand : BOOLEAN, numericOnDemand : BOOLEAN, omitted : SUBSET Field]

ASSUME CompactAssumption ==
    /\ Modes \subseteq Mode
    /\ FirstRows \subseteq FullRow
    /\ Numeric \union Status \union Lifecycle \subseteq Field
    /\ Zero \in Value
    /\ MaxChanges \in Nat

VARIABLES
    mode,           \* the settings, read once
    content,        \* the session's torrents
    updated,        \* m_updatedTorrents
    removed,        \* m_removedTorrents
    initialized,    \* m_revisionStore.currentRevision() > 0
    plain,          \* m_snapshot.torrents
    primary,        \* m_compactSnapshotTorrentRows and what belongs to it
    descriptive,    \* m_compactSnapshotDescriptive...
    status,         \* m_compactSnapshotDescriptiveStatus...
    lifecycle,      \* m_compactSnapshotDescriptiveLifecycle...
    view,           \* the torrents the tab shows
    increments,     \* the deltas stored since its last response, merged
    changes         \* counts against MaxChanges

storeVars == <<initialized, plain, primary, descriptive, status, lifecycle>>
vars == <<mode, content, updated, removed, storeVars, view, increments, changes>>

-----------------------------------------------------------------------------
(* The lists of fields.                                                    *)

Descriptive == Status \union Lifecycle

(* retainedPrimaryCompactTorrentFieldSpecs()                               *)
RetainedPrimary(deferred) ==
    Specs(CASE deferred                    -> Field \ (Descriptive \union Numeric)
            [] ~deferred /\ mode.sidecar   -> Field \ Descriptive
            [] ~deferred /\ ~mode.sidecar  -> Field)

(* shouldMaterializeDescriptiveNumericOnDemand()                           *)
NumericOnDemand == ~mode.sidecar /\ mode.numericOnDemand

(* shouldRetainDescriptiveLifecycleRows()                                  *)
RetainLifecycle == ~mode.sidecar \/ ~mode.subgroups \/ ~mode.lifecycleOnDemand

(* serialize(): some fields may be left out by settings.                   *)
Serialize(row) ==
    IF row = Absent THEN Absent
    ELSE [f \in Field |-> IF f \in mode.omitted THEN NoValue ELSE row[f]]

Session == [t \in Torrent |-> Serialize(content[t])]

Only(row, fields) == [f \in Field |-> IF f \in fields THEN row[f] ELSE NoValue]
Statics(fields) == [f \in Field |-> IF f \in fields THEN Zero ELSE NoValue]

NoTorrents == [t \in Torrent |-> Absent]
NoRows == [t \in {} |-> <<>>]
NoRowSet == [codec |-> NoCodec, rows |-> NoRows]

-----------------------------------------------------------------------------
(* Reading the snapshot.                                                   *)

(* A torrent that is not in a set has an empty row there.                  *)
Unpack(set, t, specs) ==
    IF t \in DOMAIN set.rows THEN UnpackRow(set.rows[t], specs, set.codec) ELSE NoFields

(* materializeDescriptiveNumericTorrentRow()                               *)
DescriptiveNumericRow(t) ==
    LET fields == Descriptive \union Numeric
    IN  IF content[t] # Absent THEN Only(Session[t], fields) ELSE Statics(fields)

(* materializeDescriptiveLifecycleTorrentRow()                             *)
LifecycleRow(t) ==
    LET specs == Specs(Lifecycle)
        defaultOf(f) == DefaultAt(lifecycle.codec, CHOOSE i \in DOMAIN specs : specs[i] = f)
    IN  IF RetainLifecycle THEN Unpack(lifecycle, t, specs)
        ELSE IF content[t] # Absent THEN Only(Session[t], Lifecycle)
        ELSE [f \in Field |-> IF f \in Lifecycle THEN defaultOf(f) ELSE NoValue]

(* expandCompactSnapshotTorrentRow()                                       *)
ExpandRow(t, materialize) ==
    LET row == Unpack(primary, t, RetainedPrimary(NumericOnDemand))
    IN  CASE NumericOnDemand ->
                 IF materialize THEN MergeRow(row, DescriptiveNumericRow(t)) ELSE row
          [] ~NumericOnDemand /\ ~mode.sidecar -> row
          [] mode.sidecar /\ mode.subgroups ->
                 MergeRow(MergeRow(row, Unpack(status, t, Specs(Status))), LifecycleRow(t))
          [] mode.sidecar /\ ~mode.subgroups ->
                 MergeRow(row, Unpack(descriptive, t, Specs(Descriptive)))

(* snapshotTorrentRow(), for the torrents storePendingRevision looks at.   *)
SnapshotRow(t) ==
    IF mode.compact THEN ExpandRow(t, ~NumericOnDemand) ELSE plain[t]

(* Variant with a mistake: what is not kept is not taken from the torrents. *)
FullResponseAsKept ==
    IF mode.compact
    THEN [t \in Torrent |-> IF t \in DOMAIN primary.rows THEN ExpandRow(t, FALSE) ELSE Absent]
    ELSE plain

(* The torrents of a full response: buildSnapshotResponseObject() and      *)
(* buildCompactSnapshotInitialFullUpdateResponseBytes().                   *)
FullResponse ==
    IF mode.compact
    THEN [t \in Torrent |-> IF t \in DOMAIN primary.rows THEN ExpandRow(t, TRUE) ELSE Absent]
    ELSE plain

-----------------------------------------------------------------------------
(* Making and changing the snapshot.                                       *)

(* prepareCompactRowSet()                                                  *)
RowSets(table, specs) ==
    {[codec |-> codec,
      rows  |-> [t \in {u \in Torrent : table[u] # Absent} |-> PackRow(table[t], specs, codec)]] :
        codec \in Codecs(table, specs, mode.pool)}

(* initializeSnapshot() with initialize(), prepareCompactSnapshotImpl()    *)
(* and initializeCompactSnapshot().                                        *)
InitializeSnapshot ==
    /\ initialized' = TRUE
    /\ plain' = IF mode.compact THEN NoTorrents ELSE Session
    /\ IF mode.compact
       THEN /\ primary' \in RowSets(Session, RetainedPrimary(mode.numericOnDemand))
            /\ status' \in IF mode.sidecar /\ mode.subgroups
                           THEN RowSets(Session, Specs(Status)) ELSE {NoRowSet}
            /\ \E set \in IF mode.sidecar /\ mode.subgroups
                          THEN RowSets(Session, Specs(Lifecycle)) ELSE {NoRowSet} :
                  lifecycle' = IF RetainLifecycle THEN set
                               ELSE [codec |-> set.codec, rows |-> NoRows]
            /\ descriptive' \in IF mode.sidecar /\ ~mode.subgroups
                                THEN RowSets(Session, Specs(Descriptive)) ELSE {NoRowSet}
       ELSE UNCHANGED <<primary, descriptive, status, lifecycle>>

(* Variant with a mistake: what was packed apart is not brought up to date. *)
RepackedPrimaryOnly(set, specs, delta, kept) ==
    LET changed == IF set = primary THEN {t \in Torrent : delta.rows[t] # Absent} ELSE {}
        newRow(t) == MergeRow(ExpandRow(t, ~NumericOnDemand), delta.rows[t])
    IN  [codec |-> set.codec,
         rows  |-> [t \in (DOMAIN set.rows \union changed) \ delta.removed |->
                       IF t \in changed THEN PackRow(newRow(t), specs, set.codec)
                       ELSE set.rows[t]]]

(* A set after a delta; rows of torrents are added only to a kept one.     *)
Repacked(set, specs, delta, kept) ==
    LET changed == IF kept THEN {t \in Torrent : delta.rows[t] # Absent} ELSE {}
        newRow(t) == MergeRow(ExpandRow(t, ~NumericOnDemand), delta.rows[t])
    IN  [codec |-> set.codec,
         rows  |-> [t \in (DOMAIN set.rows \union changed) \ delta.removed |->
                       IF t \in changed THEN PackRow(newRow(t), specs, set.codec)
                       ELSE set.rows[t]]]

(* applyDeltaToCompactSnapshot()                                           *)
ApplyToCompact(delta) ==
    LET subgroups == mode.sidecar /\ mode.subgroups
    IN  /\ primary' = Repacked(primary, RetainedPrimary(NumericOnDemand), delta, TRUE)
        /\ status' = Repacked(status, Specs(Status), delta, subgroups)
        /\ lifecycle' = Repacked(lifecycle, Specs(Lifecycle), delta, subgroups /\ RetainLifecycle)
        /\ descriptive' = Repacked(descriptive, Specs(Descriptive), delta,
                                   mode.sidecar /\ ~mode.subgroups)

(* storePendingRevision(): the delta, and the snapshot after it.           *)
Pending == PendingDelta([t \in Torrent |-> SnapshotRow(t)], Session, updated, removed)

StorePending ==
    /\ updated' = {}
    /\ removed' = {}
    /\ IF mode.compact
       THEN ApplyToCompact(Pending) /\ UNCHANGED plain
       ELSE plain' = ApplyDelta(plain, Pending)
            /\ UNCHANGED <<primary, descriptive, status, lifecycle>>
    /\ UNCHANGED initialized

-----------------------------------------------------------------------------
Init ==
    /\ mode \in Modes
    /\ content \in [Torrent -> FirstRows \union {Absent}]
    /\ updated = {} /\ removed = {}
    /\ initialized = FALSE
    /\ plain = NoTorrents
    /\ primary = NoRowSet /\ descriptive = NoRowSet
    /\ status = NoRowSet /\ lifecycle = NoRowSet
    /\ view = NoTorrents
    /\ increments = NoDelta(Torrent)
    /\ changes = 0

(* Variant with a mistake: a torrent that goes stays among the updated.    *)
ChangeStaysUpdated(t, row, reported) ==
    /\ changes < MaxChanges
    /\ changes' = changes + 1
    /\ content' = [content EXCEPT ![t] = row]
    /\ IF initialized
       THEN /\ updated' = IF reported THEN updated \union {t} ELSE updated
            /\ removed' = IF row = Absent THEN removed \union {t} ELSE removed \ {t}
       ELSE UNCHANGED <<updated, removed>>
    /\ UNCHANGED <<mode, storeVars, view, increments>>

(* The session changes; nothing is noted for a store that is released.     *)
Change(t, row, reported) ==
    /\ changes < MaxChanges
    /\ changes' = changes + 1
    /\ content' = [content EXCEPT ![t] = row]
    /\ IF initialized
       THEN /\ updated' = IF row = Absent THEN updated \ {t}
                          ELSE IF reported THEN updated \union {t} ELSE updated
            /\ removed' = IF row = Absent THEN removed \union {t} ELSE removed \ {t}
       ELSE UNCHANGED <<updated, removed>>
    /\ UNCHANGED <<mode, storeVars, view, increments>>

AddTorrent(t) ==
    /\ content[t] = Absent
    /\ \E row \in FirstRows : Change(t, row, TRUE)

RemoveTorrent(t) ==
    /\ content[t] # Absent
    /\ Change(t, Absent, TRUE)

ChangeField(t, f) ==
    /\ content[t] # Absent
    /\ \E v \in Value \ {content[t][f]} :
          Change(t, [content[t] EXCEPT ![f] = v], f \notin SilentField)

(* The first request of a tab, or of another one.                          *)
FirstRequest ==
    /\ ~initialized
    /\ UNCHANGED <<mode, content, updated, removed, increments, changes>>
    /\ InitializeSnapshot
    /\ view' = FullResponse'

(* A response that holds everything: the tab was loaded anew, or the       *)
(* increments it would need are evicted.                                   *)
FullRequest ==
    /\ initialized
    /\ UNCHANGED <<mode, content, changes>>
    /\ StorePending
    /\ view' = FullResponse'
    /\ increments' = NoDelta(Torrent)

(* A response that holds what the tab has not been sent.                   *)
IncrementalRequest ==
    /\ initialized
    /\ StorePending
    /\ view' = ApplyDelta(view, MergeDelta(increments, Pending))
    /\ increments' = NoDelta(Torrent)
    /\ UNCHANGED <<mode, content, changes>>

(* The request of another tab.                                             *)
OtherRequest ==
    /\ initialized
    /\ StorePending
    /\ increments' = MergeDelta(increments, Pending)
    /\ UNCHANGED <<mode, content, view, changes>>

(* The last sync session ends and the idle store is released: reset().     *)
Release ==
    /\ initialized
    /\ initialized' = FALSE
    /\ plain' = NoTorrents
    /\ primary' = NoRowSet /\ descriptive' = NoRowSet
    /\ status' = NoRowSet /\ lifecycle' = NoRowSet
    /\ updated' = {} /\ removed' = {}
    /\ view' = NoTorrents
    /\ increments' = NoDelta(Torrent)
    /\ UNCHANGED <<mode, content, changes>>

Next ==
    \/ \E t \in Torrent :
          \/ AddTorrent(t)
          \/ RemoveTorrent(t)
          \/ \E f \in Field : ChangeField(t, f)
    \/ FirstRequest
    \/ FullRequest
    \/ IncrementalRequest
    \/ OtherRequest
    \/ Release

Spec == Init /\ [][Next]_vars

-----------------------------------------------------------------------------
(* What the tab would show if it were sent the increments that wait.       *)
Due == ApplyDelta(view, increments)

(* The fields that deltas are compared on, in the given settings.          *)
KeptFields == IF mode.compact /\ NumericOnDemand THEN Field \ (Descriptive \union Numeric) ELSE Field

(* What the handlers keep in their variables.                              *)
TypeOK ==
    /\ mode \in Modes
    /\ content \in FullTable(Torrent)
    /\ updated \subseteq {t \in Torrent : content[t] # Absent}
    /\ removed \subseteq {t \in Torrent : content[t] = Absent}
    /\ initialized \in BOOLEAN
    /\ plain \in Table(Torrent)
    /\ view \in Table(Torrent)
    /\ increments \in Delta(Torrent)
    /\ ~initialized => updated = {} /\ removed = {} /\ view = NoTorrents
                          /\ increments = NoDelta(Torrent)

(* A default stands for a field only if every row has the field: a skipped *)
(* entry is read as the default even where the row had nothing.            *)
CodecFits(set, specs) ==
    \A i \in DOMAIN specs : DefaultAt(set.codec, i) # NoValue => specs[i] \notin mode.omitted

CodecsFit ==
    initialized /\ mode.compact =>
        /\ CodecFits(primary, RetainedPrimary(NumericOnDemand))
        /\ mode.sidecar /\ mode.subgroups => CodecFits(status, Specs(Status))
        /\ mode.sidecar /\ mode.subgroups => CodecFits(lifecycle, Specs(Lifecycle))
        /\ mode.sidecar /\ ~mode.subgroups => CodecFits(descriptive, Specs(Descriptive))

(* The snapshot, however it is kept, holds exactly the torrents and the    *)
(* values that the tab has been sent or is still to be sent: this is what  *)
(* makes a delta against the snapshot the right one for the tab.           *)
SnapshotIsDue ==
    initialized => \A t \in Torrent :
        /\ Due[t] = Absent <=> FullResponse[t] = Absent
        /\ Due[t] # Absent => \A f \in KeptFields : SnapshotRow(t)[f] = Due[t][f]

(* A torrent that is not reported is in the table exactly if it is in the  *)
(* session, and rows have the fields that are serialized and no others.    *)
UnreportedAreKnown ==
    initialized => \A t \in Torrent :
        /\ t \notin updated \union removed => (Due[t] = Absent <=> content[t] = Absent)
        /\ Due[t] # Absent => \A f \in Field : Due[t][f] = NoValue <=> f \in mode.omitted

CompactConsistent == TypeOK /\ CodecsFit /\ SnapshotIsDue /\ UnreportedAreKnown

Views == INSTANCE TorrentViews WITH
    content  <- Session,
    reported <- IF initialized THEN updated \union removed ELSE Torrent,
    table    <- Due

(* In every form of the snapshot the tab sees what TorrentViews promises:  *)
(* full and incremental responses agree, every reported change is shown,   *)
(* and nothing is shown that the torrents never had.  Packing, pools, and  *)
(* families kept apart or taken on demand make no difference.              *)
ViewsKept == Views!Spec

(* A comment of sync/maindata says that it "returns the changed data from  *)
(* the server to synchronize with the web client": after a response to a   *)
(* tab that has nothing left to be sent, every reported field is as the    *)
(* session has it.                                                         *)
TabsSynchronized ==
    [][IncrementalRequest =>
          \A t \in updated : \A f \in Field :
              content[t] # Absent => view'[t][f] = Session[t][f]]_vars
=============================================================================
