--------------------------- MODULE MaindataDelta ---------------------------
(***************************************************************************)
(* What MaindataSyncData holds, and how a delta is made, applied and       *)
(* merged.  A table maps the ids of torrents (or the names of categories)  *)
(* to rows; a row maps fields to values.  A delta lists changed rows, each *)
(* with the fields that changed, and removed ids.                          *)
(***************************************************************************)
CONSTANTS
    Field,      \* the fields of a row
    Value,      \* what a field may hold
    NoValue,    \* a row does not have the field
    Absent      \* a table does not have the row

ASSUME MarkersAreNoData ==
    /\ NoValue \notin Value
    /\ Absent \notin [Field -> Value \union {NoValue}]

FullRow == [Field -> Value]                     \* as serialize() makes them
Row == [Field -> Value \union {NoValue}]
NoFields == [f \in Field |-> NoValue]

Table(K) == [K -> Row \union {Absent}]
FullTable(K) == [K -> FullRow \union {Absent}]
Delta(K) == [rows : Table(K), removed : SUBSET K]

NoDelta(K) == [rows |-> [k \in K |-> Absent], removed |-> {}]

(* QHash::operator[]: looking up a missing row yields an empty one.        *)
At(row) == IF row = Absent THEN NoFields ELSE row

(* mergeVariantMap: the fields of the delta overwrite those of the target. *)
MergeRow(target, delta) ==
    [f \in Field |-> IF delta[f] = NoValue THEN target[f] ELSE delta[f]]

(* processMap: the fields of row that differ from those of prevRow.        *)
DiffRow(prevRow, row) ==
    [f \in Field |-> IF row[f] = At(prevRow)[f] THEN NoValue ELSE row[f]]

(* The row k of a table after a delta.                                     *)
RowAfter(row, delta, k) ==
    IF k \in delta.removed THEN Absent
    ELSE IF delta.rows[k] = Absent THEN row
    ELSE MergeRow(At(row), delta.rows[k])

(* applyDeltaToSnapshot, and what a tab does with the same delta.          *)
ApplyDelta(table, delta) ==
    [k \in DOMAIN table |-> RowAfter(table[k], delta, k)]

(* mergeDeltaIntoAggregate: one delta that stands for two in a row.        *)
MergeDelta(aggregate, delta) ==
    [rows    |-> [k \in DOMAIN aggregate.rows |->
                     RowAfter(aggregate.rows[k], delta, k)],
     removed |-> {k \in aggregate.removed : delta.rows[k] = Absent}
                     \union delta.removed]

(* storePendingRevision: the delta from table to content, where the rows   *)
(* of updated that still exist are looked at again, and those of removed   *)
(* are gone.                                                               *)
PendingDelta(table, content, updated, removed) ==
    [rows    |-> [k \in DOMAIN table |->
                     IF k \in updated /\ content[k] # Absent
                     THEN DiffRow(table[k], content[k]) ELSE Absent],
     removed |-> removed]
=============================================================================
