------------------------ MODULE CompactSnapshotProofs ------------------------
(***************************************************************************)
(* Deltas compose, packing rows is lossless, and the snapshot implements   *)
(* TorrentViews in each of its forms that is sound: for any torrents,      *)
(* fields, values, families of fields, and settings that leave fields out. *)
(***************************************************************************)
EXTENDS CompactSnapshot, FiniteSetTheorems, TLAPS

-----------------------------------------------------------------------------
(* Deltas, for any fields, values and keys.                                *)

(* A delta leaves a removed row alone, so that an aggregate lists no key   *)
(* both as changed and as removed.                                         *)
Disjoint(delta) == \A k \in delta.removed : delta.rows[k] = Absent

(* A row of the delta that brings back what the aggregate has removed has  *)
(* every field: storePendingRevision compares it with an empty row.        *)
Restores(aggregate, delta) ==
    \A k \in aggregate.removed :
        delta.rows[k] # Absent => delta.rows[k] \in FullRow

-----------------------------------------------------------------------------
LEMMA AtType ==
    ASSUME NEW row \in Row \union {Absent}
    PROVE  At(row) \in Row
BY DEF At, Row, NoFields

LEMMA MergeRowType ==
    ASSUME NEW a \in Row, NEW d \in Row
    PROVE  MergeRow(a, d) \in Row
BY DEF MergeRow, Row

LEMMA RowIsNotAbsent == Absent \notin Row /\ FullRow \subseteq Row
BY MarkersAreNoData DEF Row, FullRow

LEMMA RowAfterType ==
    ASSUME NEW K, NEW k \in K, NEW row \in Row \union {Absent}, NEW d \in Delta(K)
    PROVE  RowAfter(row, d, k) \in Row \union {Absent}
<1>1. d.rows[k] \in Row \union {Absent}
  BY DEF Delta, Table
<1> QED BY <1>1, AtType, MergeRowType DEF RowAfter

LEMMA ApplyDeltaType ==
    ASSUME NEW K, NEW t \in Table(K), NEW d \in Delta(K)
    PROVE  ApplyDelta(t, d) \in Table(K)
BY RowAfterType DEF ApplyDelta, Table

LEMMA MergeDeltaType ==
    ASSUME NEW K, NEW a \in Delta(K), NEW d \in Delta(K)
    PROVE  MergeDelta(a, d) \in Delta(K) /\ (Disjoint(a) => Disjoint(MergeDelta(a, d)))
<1> DEFINE m == MergeDelta(a, d)
<1>1. a.rows \in Table(K) /\ a.removed \subseteq K /\ d.rows \in Table(K) /\ d.removed \subseteq K
  BY DEF Delta
<1>2. DOMAIN a.rows = K /\ \A k \in K : a.rows[k] \in Row \union {Absent}
  BY <1>1 DEF Table
<1>3. m.rows = [k \in K |-> RowAfter(a.rows[k], d, k)]
  BY <1>2 DEF MergeDelta
<1>4. m.removed = {k \in a.removed : d.rows[k] = Absent} \union d.removed
  BY DEF MergeDelta
<1>5. \A k \in K : RowAfter(a.rows[k], d, k) \in Row \union {Absent}
  BY <1>2, RowAfterType
<1>6. m.rows \in Table(K)
  BY <1>3, <1>5 DEF Table
<1>7. m = [rows |-> m.rows, removed |-> m.removed]
  BY DEF MergeDelta
<1>8. ASSUME Disjoint(a), NEW k \in m.removed
      PROVE  m.rows[k] = Absent
  <2>1. k \in K
    BY <1>1, <1>4
  <2>2. CASE k \in d.removed
    BY <1>3, <2>1, <2>2 DEF RowAfter
  <2>3. CASE k \notin d.removed
    <3>1. d.rows[k] = Absent /\ a.rows[k] = Absent
      BY <1>4, <1>8, <2>3 DEF Disjoint
    <3> QED BY <1>3, <2>1, <3>1 DEF RowAfter
  <2> QED BY <2>2, <2>3
<1> HIDE DEF m
<1>9. m \in Delta(K)
  BY <1>1, <1>4, <1>6, <1>7 DEF Delta
<1>10. Disjoint(a) => Disjoint(m)
  BY <1>8 DEF Disjoint
<1> QED BY <1>9, <1>10 DEF m

-----------------------------------------------------------------------------
(* Merging row deltas one after the other is merging their merge.          *)
LEMMA MergeRowAssociative ==
    ASSUME NEW a \in Row, NEW b \in Row, NEW c \in Row
    PROVE  MergeRow(MergeRow(a, b), c) = MergeRow(a, MergeRow(b, c))
<1>1. \A f \in Field : MergeRow(MergeRow(a, b), c)[f] = MergeRow(a, MergeRow(b, c))[f]
  BY DEF MergeRow
<1> QED BY <1>1 DEF MergeRow

(* A row delta with every field leaves nothing of the row it meets.        *)
LEMMA MergeFullRow ==
    ASSUME NEW a \in Row, NEW d \in FullRow
    PROVE  MergeRow(a, d) = d
<1>1. \A f \in Field : MergeRow(a, d)[f] = d[f]
  BY MarkersAreNoData DEF MergeRow, FullRow
<1> QED BY <1>1 DEF MergeRow, FullRow

(* A row delta met twice changes what it changed once.                     *)
LEMMA MergeRowAbsorbs ==
    ASSUME NEW t \in Row, NEW a \in Row, NEW d \in Row
    PROVE  MergeRow(MergeRow(t, a), MergeRow(a, d)) = MergeRow(MergeRow(t, a), d)
<1>1. \A f \in Field :
        MergeRow(MergeRow(t, a), MergeRow(a, d))[f] = MergeRow(MergeRow(t, a), d)[f]
  BY DEF MergeRow
<1> QED BY <1>1 DEF MergeRow

LEMMA MergeNoFields ==
    ASSUME NEW d \in Row
    PROVE  MergeRow(NoFields, d) = d
<1>1. \A f \in Field : MergeRow(NoFields, d)[f] = d[f]
  BY DEF MergeRow, NoFields, Row
<1> QED BY <1>1 DEF MergeRow, Row

-----------------------------------------------------------------------------
(* One row under two deltas and under their aggregate.  What brings back a *)
(* row that the aggregate has removed leaves nothing of the row it meets.  *)
LEMMA AggregateRow ==
    ASSUME NEW K, NEW k \in K, NEW row \in Row \union {Absent},
           NEW a \in Delta(K), NEW d \in Delta(K), Disjoint(a),
           k \in a.removed /\ d.rows[k] # Absent => MergeRow(At(row), d.rows[k]) = d.rows[k]
    PROVE  RowAfter(RowAfter(row, a, k), d, k) = RowAfter(row, MergeDelta(a, d), k)
<1> DEFINE m == MergeDelta(a, d)
<1>1. a.rows[k] \in Row \union {Absent} /\ d.rows[k] \in Row \union {Absent}
  BY DEF Delta, Table
<1>2. m.rows[k] = RowAfter(a.rows[k], d, k)
  BY DEF MergeDelta, Delta, Table
<1>3. k \in m.removed <=> (k \in d.removed \/ (k \in a.removed /\ d.rows[k] = Absent))
  BY DEF MergeDelta
<1> HIDE DEF m
<1>4. CASE k \in d.removed
  BY <1>3, <1>4 DEF RowAfter, m
<1>5. CASE k \notin d.removed /\ d.rows[k] = Absent
  <2>1. m.rows[k] = a.rows[k] /\ (k \in m.removed <=> k \in a.removed)
    BY <1>2, <1>3, <1>5 DEF RowAfter
  <2>2. RowAfter(row, m, k) = RowAfter(row, a, k)
    BY <2>1 DEF RowAfter
  <2> QED BY <1>5, <2>2 DEF RowAfter, m
<1>6. CASE k \notin d.removed /\ d.rows[k] # Absent /\ k \in a.removed
  <2>2. a.rows[k] = Absent
    BY <1>6 DEF Disjoint
  <2>4. MergeRow(NoFields, d.rows[k]) = d.rows[k] /\ MergeRow(At(row), d.rows[k]) = d.rows[k]
    BY <1>1, <1>6, MergeNoFields
  <2>5. m.rows[k] = d.rows[k] /\ k \notin m.removed
    BY <1>2, <1>3, <1>6, <2>2, <2>4 DEF RowAfter, At
  <2>6. RowAfter(row, m, k) = d.rows[k]
    BY <1>6, <2>4, <2>5 DEF RowAfter
  <2>7. RowAfter(row, a, k) = Absent
    BY <1>6 DEF RowAfter
  <2>8. RowAfter(Absent, d, k) = d.rows[k]
    BY <1>6, <2>4 DEF RowAfter, At
  <2> QED BY <2>6, <2>7, <2>8 DEF m
<1>7. CASE k \notin d.removed /\ d.rows[k] # Absent /\ k \notin a.removed
  <2>1. d.rows[k] \in Row /\ k \notin m.removed
    BY <1>1, <1>3, <1>7
  <2>2. At(row) \in Row
    BY AtType
  <2>3. CASE a.rows[k] = Absent
    <3>1. m.rows[k] = d.rows[k]
      BY <1>2, <1>7, <2>1, <2>3, MergeNoFields DEF RowAfter, At
    <3>2. RowAfter(row, a, k) = row
      BY <1>7, <2>3 DEF RowAfter
    <3> QED BY <1>7, <2>1, <3>1, <3>2 DEF RowAfter, m
  <2>4. CASE a.rows[k] # Absent
    <3>1. a.rows[k] \in Row
      BY <1>1, <2>4
    <3>2. m.rows[k] = MergeRow(a.rows[k], d.rows[k]) /\ m.rows[k] # Absent
      <4>1. m.rows[k] = MergeRow(a.rows[k], d.rows[k])
        BY <1>2, <1>7, <2>4 DEF RowAfter, At
      <4> QED BY <2>1, <3>1, <4>1, MergeRowType, RowIsNotAbsent
    <3>3. RowAfter(row, a, k) = MergeRow(At(row), a.rows[k]) /\ RowAfter(row, a, k) # Absent
      BY <1>7, <2>2, <2>4, <3>1, MergeRowType, RowIsNotAbsent DEF RowAfter
    <3>4. RowAfter(RowAfter(row, a, k), d, k) = MergeRow(MergeRow(At(row), a.rows[k]), d.rows[k])
      BY <1>7, <3>3 DEF RowAfter, At
    <3>5. RowAfter(row, m, k) = MergeRow(At(row), MergeRow(a.rows[k], d.rows[k]))
      BY <2>1, <3>2 DEF RowAfter
    <3> QED BY <2>1, <2>2, <3>1, <3>4, <3>5, MergeRowAssociative DEF m
  <2> QED BY <2>3, <2>4
<1> QED BY <1>4, <1>5, <1>6, <1>7

(* mergeDeltaIntoAggregate is sound: a tab that applies the aggregate ends *)
(* where it would have ended with the two deltas in turn.                  *)
THEOREM AggregateIsComposition ==
    ASSUME NEW K, NEW t \in Table(K), NEW a \in Delta(K), NEW d \in Delta(K),
           Disjoint(a), Restores(a, d)
    PROVE  ApplyDelta(t, MergeDelta(a, d)) = ApplyDelta(ApplyDelta(t, a), d)
<1>1. DOMAIN t = K /\ \A k \in K : t[k] \in Row \union {Absent}
  BY DEF Table
<1>2. ASSUME NEW k \in K
      PROVE  RowAfter(RowAfter(t[k], a, k), d, k) = RowAfter(t[k], MergeDelta(a, d), k)
  <2>1. k \in a.removed /\ d.rows[k] # Absent => MergeRow(At(t[k]), d.rows[k]) = d.rows[k]
    BY <1>1, AtType, MergeFullRow DEF Restores
  <2> QED BY <1>1, <2>1, AggregateRow
<1>3. ApplyDelta(ApplyDelta(t, a), d) = [k \in K |-> RowAfter(RowAfter(t[k], a, k), d, k)]
  BY <1>1 DEF ApplyDelta
<1>4. ApplyDelta(t, MergeDelta(a, d)) = [k \in K |-> RowAfter(t[k], MergeDelta(a, d), k)]
  BY <1>1 DEF ApplyDelta
<1> QED BY <1>2, <1>3, <1>4

-----------------------------------------------------------------------------
LEMMA AbsorbRow ==
    ASSUME NEW K, NEW k \in K, NEW row \in Row \union {Absent},
           NEW a \in Delta(K), NEW d \in Delta(K), Disjoint(a)
    PROVE  RowAfter(RowAfter(row, a, k), MergeDelta(a, d), k) = RowAfter(RowAfter(row, a, k), d, k)
<1> DEFINE m == MergeDelta(a, d)
           now == RowAfter(row, a, k)
<1>1. a.rows[k] \in Row \union {Absent} /\ d.rows[k] \in Row \union {Absent}
  BY DEF Delta, Table
<1>2. m.rows[k] = RowAfter(a.rows[k], d, k)
  BY DEF MergeDelta, Delta, Table
<1>3. k \in m.removed <=> (k \in d.removed \/ (k \in a.removed /\ d.rows[k] = Absent))
  BY DEF MergeDelta
<1>4. now \in Row \union {Absent} /\ At(row) \in Row
  BY RowAfterType, AtType
<1>5. now = IF k \in a.removed THEN Absent
            ELSE IF a.rows[k] = Absent THEN row ELSE MergeRow(At(row), a.rows[k])
  BY DEF RowAfter
<1> HIDE DEF m, now
<1>6. CASE k \in d.removed
  BY <1>3, <1>6 DEF RowAfter, m, now
<1>7. CASE k \notin d.removed /\ k \in a.removed
  <2>1. a.rows[k] = Absent /\ now = Absent
    BY <1>5, <1>7 DEF Disjoint
  <2>2. CASE d.rows[k] = Absent
    <3>1. RowAfter(now, m, k) = Absent
      BY <1>3, <1>7, <2>2 DEF RowAfter
    <3>2. RowAfter(now, d, k) = Absent
      BY <1>7, <2>1, <2>2 DEF RowAfter
    <3> QED BY <3>1, <3>2 DEF m, now
  <2>3. CASE d.rows[k] # Absent
    <3>1. m.rows[k] = d.rows[k] /\ k \notin m.removed
      BY <1>1, <1>2, <1>3, <1>7, <2>1, <2>3, MergeNoFields DEF RowAfter, At
    <3>2. RowAfter(now, m, k) = RowAfter(now, d, k)
      BY <1>7, <3>1 DEF RowAfter
    <3> QED BY <3>2 DEF m, now
  <2> QED BY <2>2, <2>3
<1>8. CASE k \notin d.removed /\ k \notin a.removed
  <2>1. k \notin m.removed
    BY <1>3, <1>8
  <2>2. CASE a.rows[k] = Absent
    <3>1. m.rows[k] = d.rows[k]
      BY <1>1, <1>2, <1>8, <2>2, MergeNoFields DEF RowAfter, At
    <3>2. RowAfter(now, m, k) = RowAfter(now, d, k)
      BY <1>8, <2>1, <3>1 DEF RowAfter
    <3> QED BY <3>2 DEF m, now
  <2>3. CASE a.rows[k] # Absent
    <3>1. a.rows[k] \in Row /\ now = MergeRow(At(row), a.rows[k]) /\ now \in Row /\ now # Absent
      BY <1>1, <1>4, <1>5, <1>8, <2>3, MergeRowType, RowIsNotAbsent
    <3>2. CASE d.rows[k] = Absent
      <4>1. m.rows[k] = a.rows[k]
        BY <1>2, <1>8, <3>2 DEF RowAfter
      <4>2. RowAfter(now, m, k) = MergeRow(MergeRow(At(row), a.rows[k]), a.rows[k])
        BY <2>1, <2>3, <3>1, <4>1 DEF RowAfter, At
      <4>3. MergeRow(MergeRow(At(row), a.rows[k]), a.rows[k]) = MergeRow(At(row), a.rows[k])
        <5>1. \A f \in Field :
                MergeRow(MergeRow(At(row), a.rows[k]), a.rows[k])[f] = MergeRow(At(row), a.rows[k])[f]
          BY DEF MergeRow
        <5> QED BY <5>1 DEF MergeRow
      <4>4. RowAfter(now, d, k) = now
        BY <1>8, <3>2 DEF RowAfter
      <4> QED BY <3>1, <4>2, <4>3, <4>4 DEF m, now
    <3>3. CASE d.rows[k] # Absent
      <4>1. d.rows[k] \in Row
        BY <1>1, <3>3
      <4>2. m.rows[k] = MergeRow(a.rows[k], d.rows[k])
        BY <1>2, <1>8, <2>3, <3>3 DEF RowAfter, At
      <4>3. m.rows[k] # Absent
        BY <3>1, <4>1, <4>2, MergeRowType, RowIsNotAbsent
      <4>4. RowAfter(now, m, k) = MergeRow(MergeRow(At(row), a.rows[k]), MergeRow(a.rows[k], d.rows[k]))
        BY <2>1, <3>1, <4>2, <4>3 DEF RowAfter, At
      <4>5. RowAfter(now, d, k) = MergeRow(MergeRow(At(row), a.rows[k]), d.rows[k])
        BY <1>8, <3>1, <3>3 DEF RowAfter, At
      <4> QED BY <1>4, <3>1, <4>1, <4>4, <4>5, MergeRowAbsorbs DEF m, now
    <3> QED BY <3>2, <3>3
  <2> QED BY <2>2, <2>3
<1> QED BY <1>6, <1>7, <1>8

(* A tab that is ahead of the base a response starts from is not set back: *)
(* the part of the aggregate it has already applied changes nothing.       *)
THEOREM AggregateAbsorbs ==
    ASSUME NEW K, NEW t \in Table(K), NEW a \in Delta(K), NEW d \in Delta(K), Disjoint(a)
    PROVE  ApplyDelta(ApplyDelta(t, a), MergeDelta(a, d)) = ApplyDelta(ApplyDelta(t, a), d)
<1>1. DOMAIN t = K /\ \A k \in K : t[k] \in Row \union {Absent}
  BY DEF Table
<1>2. \A k \in K : RowAfter(RowAfter(t[k], a, k), MergeDelta(a, d), k)
                     = RowAfter(RowAfter(t[k], a, k), d, k)
  BY <1>1, AbsorbRow
<1>3. ApplyDelta(ApplyDelta(t, a), d) = [k \in K |-> RowAfter(RowAfter(t[k], a, k), d, k)]
  BY <1>1 DEF ApplyDelta
<1>4. ApplyDelta(ApplyDelta(t, a), MergeDelta(a, d))
        = [k \in K |-> RowAfter(RowAfter(t[k], a, k), MergeDelta(a, d), k)]
  BY <1>1 DEF ApplyDelta
<1> QED BY <1>2, <1>3, <1>4

-----------------------------------------------------------------------------
(* Packing.                                                                *)

LEMMA EntryParts ==
    /\ Skipped.kind = "skipped"
    /\ \A type, index : /\ [kind |-> "pooled", type |-> type, index |-> index].kind = "pooled"
                        /\ [kind |-> "pooled", type |-> type, index |-> index].type = type
                        /\ [kind |-> "pooled", type |-> type, index |-> index].index = index
    /\ \A type, value : /\ [kind |-> "inline", type |-> type, value |-> value].kind = "inline"
                        /\ [kind |-> "inline", type |-> type, value |-> value].type = type
                        /\ [kind |-> "inline", type |-> type, value |-> value].value = value
BY DEF Skipped

LEMMA FieldRoundTrip ==
    ASSUME NEW v, NEW default, NEW pool, NEW type, v = NoValue => default = NoValue
    PROVE  LET entry == PackField(v, default, pool, type)
           IN  /\ UnpackField(entry, default, pool) = v
               /\ entry = Skipped \/ entry.type = type
<1>1. CASE v = NoValue \/ v = default
  BY <1>1, EntryParts DEF PackField, UnpackField
<1>2. CASE ~(v = NoValue \/ v = default) /\ type = "text" /\ v \in {pool[k] : k \in DOMAIN pool}
  <2> DEFINE index == CHOOSE k \in DOMAIN pool : pool[k] = v
  <2>1. index \in DOMAIN pool /\ pool[index] = v
    BY <1>2
  <2>2. PackField(v, default, pool, type) = [kind |-> "pooled", type |-> type, index |-> index]
    BY <1>2 DEF PackField
  <2> HIDE DEF index
  <2> QED BY <2>1, <2>2, EntryParts DEF UnpackField
<1>3. CASE ~(v = NoValue \/ v = default) /\ ~(type = "text" /\ v \in {pool[k] : k \in DOMAIN pool})
  <2>1. PackField(v, default, pool, type) = [kind |-> "inline", type |-> type, value |-> v]
    BY <1>3 DEF PackField
  <2> QED BY <2>1, EntryParts DEF UnpackField
<1> QED BY <1>1, <1>2, <1>3

(* What a list of fields holds.                                            *)
LEMMA SpecsParts ==
    ASSUME NEW fields \in SUBSET Field
    PROVE  /\ \A i \in DOMAIN Specs(fields) : Specs(fields)[i] \in fields
           /\ \A f \in fields : \E i \in DOMAIN Specs(fields) : Specs(fields)[i] = f
           /\ DOMAIN Specs(fields) \subseteq Nat
           /\ \A i \in DOMAIN Specs(fields) : 1..i \subseteq DOMAIN Specs(fields)
<1>1. Specs(fields) \in Seq(fields) /\ \A f \in fields : \E i \in DOMAIN Specs(fields) : Specs(fields)[i] = f
  BY ListsAreComplete
<1> DEFINE specs == Specs(fields)
<1> HIDE DEF specs
<1>2. specs \in Seq(fields)
  BY <1>1 DEF specs
<1>3. /\ \A i \in DOMAIN specs : specs[i] \in fields
      /\ DOMAIN specs \subseteq Nat
      /\ \A i \in DOMAIN specs : 1..i \subseteq DOMAIN specs
  BY <1>2
<1> QED BY <1>1, <1>3 DEF specs

(* A row is read as it was written, provided that no default stands for a  *)
(* field that the row does not have (compactTorrentRow,                    *)
(* expandCompactTorrentRow).                                               *)
THEOREM RowRoundTrip ==
    ASSUME NEW fields \in SUBSET Field, NEW row, NEW codec,
           \A i \in DOMAIN Specs(fields) :
               row[Specs(fields)[i]] = NoValue => DefaultAt(codec, i) = NoValue
    PROVE  UnpackRow(PackRow(row, Specs(fields), codec), Specs(fields), codec) =
               [f \in Field |-> IF f \in fields THEN row[f] ELSE NoValue]
<1> DEFINE specs == Specs(fields)
           packed == PackRow(row, specs, codec)
<1>1. /\ \A i \in DOMAIN specs : specs[i] \in fields
      /\ \A f \in fields : \E i \in DOMAIN specs : specs[i] = f
      /\ \A i \in DOMAIN specs : 1..i \subseteq DOMAIN specs
  BY SpecsParts
<1> HIDE DEF specs
<1>2. /\ DOMAIN packed = DOMAIN specs
      /\ \A i \in DOMAIN specs :
            packed[i] = PackField(row[specs[i]], DefaultAt(codec, i), PoolAt(codec, i), TypeOf[specs[i]])
  BY DEF PackRow
<1> HIDE DEF packed
<1>3. \A i \in DOMAIN specs :
          /\ UnpackField(packed[i], DefaultAt(codec, i), PoolAt(codec, i)) = row[specs[i]]
          /\ packed[i] = Skipped \/ packed[i].type = TypeOf[specs[i]]
  BY <1>2, FieldRoundTrip DEF specs
<1>4. \A i \in DOMAIN specs : ReadAsWritten(packed, specs, i)
  BY <1>1, <1>3 DEF ReadAsWritten
<1> DEFINE entries == DOMAIN packed \intersect DOMAIN specs
           at(f) == CHOOSE i \in entries : specs[i] = f
<1>5. entries = DOMAIN specs
  BY <1>2
<1>6. ASSUME NEW f \in fields PROVE at(f) \in DOMAIN specs /\ specs[at(f)] = f
  BY <1>1, <1>5
<1>7. \A f \in Field \ fields : ~\E i \in entries : specs[i] = f
  BY <1>1, <1>5
<1>8. UnpackRow(packed, specs, codec) =
          [f \in Field |->
              IF \E i \in entries : specs[i] = f
              THEN IF ReadAsWritten(packed, specs, at(f))
                   THEN UnpackField(packed[at(f)], DefaultAt(codec, at(f)), PoolAt(codec, at(f)))
                   ELSE Garbled
              ELSE NoValue]
  BY DEF UnpackRow
<1>9. \A f \in fields : \E i \in entries : specs[i] = f
  BY <1>1, <1>5
<1> HIDE DEF entries, at
<1>10. ASSUME NEW f \in Field
       PROVE  (IF \E i \in entries : specs[i] = f
               THEN IF ReadAsWritten(packed, specs, at(f))
                    THEN UnpackField(packed[at(f)], DefaultAt(codec, at(f)), PoolAt(codec, at(f)))
                    ELSE Garbled
               ELSE NoValue) = IF f \in fields THEN row[f] ELSE NoValue
  BY <1>3, <1>4, <1>6, <1>7, <1>9
<1> QED BY <1>8, <1>10 DEF packed, specs

-----------------------------------------------------------------------------
(* Sets of rows.                                                           *)

(* A set has the rows of the table, in the given fields.                   *)
Holds(set, fields, table) ==
    /\ DOMAIN set.rows = {t \in Torrent : table[t] # Absent}
    /\ \A t \in DOMAIN set.rows :
          UnpackRow(set.rows[t], Specs(fields), set.codec) =
              [f \in Field |-> IF f \in fields THEN table[t][f] ELSE NoValue]

(* The rows of a table have the fields that are not left out.              *)
Serialized(table) ==
    /\ table \in Table(Torrent)
    /\ \A t \in Torrent : table[t] # Absent =>
          \A f \in Field : table[t][f] = NoValue <=> f \in mode.omitted

LEMMA SetParts ==
    \A codec, rows : /\ [codec |-> codec, rows |-> rows].codec = codec
                     /\ [codec |-> codec, rows |-> rows].rows = rows
OBVIOUS

LEMMA HeldRow ==
    ASSUME NEW fields \in SUBSET Field, NEW table, NEW set, Holds(set, fields, table), NEW t \in Torrent
    PROVE  Unpack(set, t, Specs(fields)) =
               [f \in Field |-> IF f \in fields THEN At(table[t])[f] ELSE NoValue]
<1>1. CASE t \in DOMAIN set.rows
  BY <1>1 DEF Holds, Unpack, At
<1>2. CASE t \notin DOMAIN set.rows
  <2>1. At(table[t]) = NoFields
    BY <1>2 DEF Holds, At
  <2>2. Unpack(set, t, Specs(fields)) = NoFields
    BY <1>2 DEF Unpack
  <2> QED BY <2>1, <2>2 DEF NoFields
<1> QED BY <1>1, <1>2

(* A default that is taken from rows belongs to a field that they have.    *)
LEMMA DefaultsAreKept ==
    ASSUME NEW table, DOMAIN table = Torrent, Serialized(table), NEW f \in Field, f \in mode.omitted
    PROVE  Defaults(table, f) = {NoValue}
<1>1. ASSUME NEW v \in Value PROVE Count(table, f, v) = 0
  <2>1. {t \in DOMAIN table : table[t] # Absent /\ table[t][f] = v} = {}
    BY MarkersAreNoData DEF Serialized
  <2> QED BY <2>1, FS_EmptySet DEF Count
<1>2. {v \in Value : Count(table, f, v) > 0} = {}
  BY <1>1
<1> QED BY <1>2 DEF Defaults

LEMMA RowSetsHold ==
    ASSUME NEW fields \in SUBSET Field, Serialized(Session),
           NEW set \in RowSets(Session, Specs(fields))
    PROVE  Holds(set, fields, Session) /\ CodecFits(set, Specs(fields))
<1> DEFINE specs == Specs(fields)
<1>1. \A i \in DOMAIN specs : specs[i] \in fields
  BY SpecsParts
<1>2. PICK codec \in Codecs(Session, specs, mode.pool) :
          set = [codec |-> codec,
                 rows  |-> [t \in {u \in Torrent : Session[u] # Absent} |-> PackRow(Session[t], specs, codec)]]
  BY DEF RowSets
<1>3. /\ set.codec = codec
      /\ set.rows = [t \in {u \in Torrent : Session[u] # Absent} |-> PackRow(Session[t], specs, codec)]
  BY <1>2, SetParts
<1> HIDE DEF specs
<1>4. DOMAIN codec.defaults = DOMAIN specs
      /\ \A i \in DOMAIN specs : codec.defaults[i] \in Defaults(Session, specs[i])
  BY <1>2 DEF Codecs
<1>5. DOMAIN Session = Torrent
  BY DEF Session
<1>6. ASSUME NEW i \in DOMAIN specs, DefaultAt(codec, i) # NoValue PROVE specs[i] \notin mode.omitted
  <2>1. DefaultAt(codec, i) = codec.defaults[i]
    BY <1>4 DEF DefaultAt
  <2> QED BY <1>1, <1>4, <1>5, <1>6, <2>1, DefaultsAreKept
<1>7. ASSUME NEW t \in Torrent, Session[t] # Absent
      PROVE  UnpackRow(PackRow(Session[t], specs, codec), specs, codec) =
                 [f \in Field |-> IF f \in fields THEN Session[t][f] ELSE NoValue]
  <2>1. \A i \in DOMAIN specs : Session[t][specs[i]] = NoValue => DefaultAt(codec, i) = NoValue
    BY <1>1, <1>6, <1>7 DEF Serialized
  <2> QED BY <2>1, RowRoundTrip DEF specs
<1>8. Holds(set, fields, Session)
  BY <1>3, <1>7 DEF Holds, specs
<1>9. CodecFits(set, specs)
  BY <1>3, <1>6 DEF CodecFits
<1> QED BY <1>8, <1>9 DEF specs

-----------------------------------------------------------------------------
(* The delta of storePendingRevision.                                      *)

LEMMA SessionParts ==
    ASSUME TypeOK
    PROVE  /\ Serialized(Session)
           /\ \A t \in Torrent : Session[t] = Absent <=> content[t] = Absent
<1> SUFFICES ASSUME NEW t \in Torrent
             PROVE  /\ Session[t] \in Row \union {Absent}
                    /\ Session[t] = Absent <=> content[t] = Absent
                    /\ Session[t] # Absent =>
                          \A f \in Field : Session[t][f] = NoValue <=> f \in mode.omitted
  BY DEF Serialized, Table, Session
<1>1. content[t] \in FullRow \union {Absent}
  BY DEF TypeOK, FullTable
<1>2. Session[t] = Serialize(content[t])
  BY DEF Session
<1>3. CASE content[t] = Absent
  BY <1>2, <1>3 DEF Serialize
<1>4. CASE content[t] # Absent
  <2>1. Session[t] = [f \in Field |-> IF f \in mode.omitted THEN NoValue ELSE content[t][f]]
    BY <1>2, <1>4 DEF Serialize
  <2>2. \A f \in Field : content[t][f] \in Value
    BY <1>1, <1>4 DEF FullRow
  <2>3. Session[t] \in Row
    BY <2>1, <2>2 DEF Row
  <2> QED BY <1>4, <2>1, <2>2, <2>3, RowIsNotAbsent, MarkersAreNoData
<1> QED BY <1>3, <1>4

(* Deltas are made against what the tabs have been sent, in the fields     *)
(* that are kept, and against nothing in the others.                       *)
Shows ==
    \A t \in Torrent :
        At(SnapshotRow(t)) = [f \in Field |-> IF f \in KeptFields THEN At(Due[t])[f] ELSE NoValue]

(* The torrents the delta leads to.                                        *)
After ==
    [t \in Torrent |-> IF t \in removed THEN Absent
                       ELSE IF t \in updated THEN Session[t]
                       ELSE Due[t]]

LEMMA DueParts ==
    ASSUME TypeOK
    PROVE  /\ Due \in Table(Torrent) /\ DOMAIN Due = Torrent
           /\ \A t \in Torrent : Due[t] = RowAfter(view[t], increments, t)
           /\ \A t \in increments.removed : Due[t] = Absent
<1>1. view \in Table(Torrent) /\ DOMAIN view = Torrent /\ increments \in Delta(Torrent)
  BY DEF TypeOK, Table
<1>2. Due \in Table(Torrent)
  BY <1>1, ApplyDeltaType DEF Due
<1> QED BY <1>1, <1>2 DEF Due, ApplyDelta, RowAfter, Delta

LEMMA PendingParts ==
    ASSUME TypeOK, Serialized(Due), Shows
    PROVE  /\ Pending \in Delta(Torrent)
           /\ Pending.removed = removed
           /\ \A t \in Torrent : Pending.rows[t] # Absent <=> t \in updated
           /\ \A t \in Torrent : RowAfter(Due[t], Pending, t) = After[t]
           /\ \A t \in updated : \A f \in KeptFields :
                 MergeRow(At(SnapshotRow(t)), Pending.rows[t])[f] = Session[t][f]
           /\ \A t \in updated : Due[t] = Absent => Pending.rows[t] = Session[t]
<1>1. /\ updated \subseteq Torrent /\ removed \subseteq Torrent
      /\ updated \cap removed = {}
      /\ \A t \in updated : content[t] # Absent
  BY DEF TypeOK
<1>2. /\ Serialized(Session)
      /\ \A t \in updated : Session[t] # Absent /\ Session[t] \in Row
  BY <1>1, SessionParts DEF Serialized, Table
<1>3. /\ Pending.removed = removed
      /\ DOMAIN Pending.rows = Torrent
      /\ Pending = [rows |-> Pending.rows, removed |-> removed]
      /\ \A t \in Torrent : Pending.rows[t] =
            IF t \in updated THEN DiffRow(SnapshotRow(t), Session[t]) ELSE Absent
      /\ Pending.rows = [t \in Torrent |-> Pending.rows[t]]
  BY <1>2 DEF Pending, PendingDelta
<1>4. ASSUME NEW t \in updated
      PROVE  /\ Pending.rows[t] \in Row
             /\ MergeRow(At(Due[t]), Pending.rows[t]) = Session[t]
             /\ \A f \in KeptFields :
                   MergeRow(At(SnapshotRow(t)), Pending.rows[t])[f] = Session[t][f]
             /\ Due[t] = Absent => Pending.rows[t] = Session[t]
  <2> DEFINE prev == [f \in Field |-> IF f \in KeptFields THEN At(Due[t])[f] ELSE NoValue]
             row == Session[t]
  <2>1. Pending.rows[t] = [f \in Field |-> IF row[f] = prev[f] THEN NoValue ELSE row[f]]
    <3>1. At(SnapshotRow(t)) = prev
      BY <1>1 DEF Shows
    <3>2. Pending.rows[t] = DiffRow(SnapshotRow(t), row)
      BY <1>1, <1>3
    <3> HIDE DEF prev, row
    <3> QED BY <3>1, <3>2 DEF DiffRow
  <2>2. row \in Row /\ \A f \in Field : row[f] = NoValue <=> f \in mode.omitted
    BY <1>1, <1>2 DEF Serialized
  <2>3. At(Due[t]) \in Row /\ \A f \in mode.omitted \cap Field : At(Due[t])[f] = NoValue
    <3>1. Due[t] \in Row \union {Absent}
      BY <1>1, DueParts DEF Table
    <3> QED BY <1>1, <3>1, AtType DEF Serialized, At, NoFields
  <2>4. KeptFields \subseteq Field
    BY DEF KeptFields
  <2> HIDE DEF row
  <2>5. Pending.rows[t] \in Row
    BY <2>1, <2>2 DEF Row
  <2>6. MergeRow(At(Due[t]), Pending.rows[t]) = row
    <3>1. ASSUME NEW f \in Field
          PROVE  (IF Pending.rows[t][f] = NoValue THEN At(Due[t])[f] ELSE Pending.rows[t][f]) = row[f]
      BY <2>1, <2>2, <2>3
    <3> QED BY <2>2, <3>1 DEF MergeRow, Row
  <2>7. ASSUME NEW f \in KeptFields
        PROVE  MergeRow(At(SnapshotRow(t)), Pending.rows[t])[f] = row[f]
    <3>1. At(SnapshotRow(t))[f] = At(Due[t])[f]
      BY <1>1, <2>4 DEF Shows
    <3>2. MergeRow(At(SnapshotRow(t)), Pending.rows[t])[f] = MergeRow(At(Due[t]), Pending.rows[t])[f]
      BY <2>4, <3>1 DEF MergeRow
    <3> QED BY <2>6, <3>2
  <2>8. ASSUME Due[t] = Absent PROVE Pending.rows[t] = row
    <3>1. \A f \in Field : prev[f] = NoValue
      BY <2>8 DEF At, NoFields
    <3> QED BY <2>1, <2>2, <3>1 DEF Row
  <2> QED BY <2>5, <2>6, <2>7, <2>8 DEF row
<1>5. \A t \in Torrent : Pending.rows[t] # Absent <=> t \in updated
  BY <1>3, <1>4, RowIsNotAbsent
<1>6. Pending \in Delta(Torrent)
  <2>1. Pending.rows \in Table(Torrent)
    BY <1>3, <1>4 DEF Table
  <2> QED BY <1>1, <1>3, <2>1 DEF Delta
<1>7. ASSUME NEW t \in Torrent PROVE RowAfter(Due[t], Pending, t) = After[t]
  BY <1>1, <1>3, <1>4, <1>5 DEF RowAfter, After
<1> QED BY <1>3, <1>4, <1>5, <1>6, <1>7

LEMMA AfterSerialized ==
    ASSUME TypeOK, Serialized(Due)
    PROVE  Serialized(After)
<1>1. Serialized(Session)
  BY SessionParts
<1>2. \A t \in Torrent : After[t] \in {Absent, Session[t], Due[t]}
  BY DEF After
<1>3. After \in Table(Torrent)
  BY <1>1, <1>2 DEF Serialized, Table, After
<1> QED BY <1>1, <1>2, <1>3 DEF Serialized

-----------------------------------------------------------------------------
(* The forms of the snapshot.                                              *)

(* A family that is taken on demand is in no other set, and there is no    *)
(* delta on it: lifecycle rows on demand, and numbers on demand along with *)
(* a sidecar, are not sound.                                               *)
Sound ==
    mode.compact /\ mode.sidecar =>
        ~mode.numericOnDemand /\ (mode.subgroups => ~mode.lifecycleOnDemand)

PrimaryFields ==
    IF NumericOnDemand THEN Field \ (Descriptive \union Numeric)
    ELSE IF mode.sidecar THEN Field \ Descriptive
    ELSE Field

(* The four sets hold a table between them.                                *)
Held(p, s, l, d, table) ==
    /\ Holds(p, PrimaryFields, table)
    /\ mode.sidecar /\ mode.subgroups => Holds(s, Status, table) /\ Holds(l, Lifecycle, table)
    /\ mode.sidecar /\ ~mode.subgroups => Holds(d, Descriptive, table)

(* What they hold of a row.                                                *)
Kept(p, s, l, d, t) ==
    LET row == Unpack(p, t, Specs(PrimaryFields))
    IN  IF ~mode.sidecar THEN row
        ELSE IF mode.subgroups
        THEN MergeRow(MergeRow(row, Unpack(s, t, Specs(Status))), Unpack(l, t, Specs(Lifecycle)))
        ELSE MergeRow(row, Unpack(d, t, Specs(Descriptive)))

FormInv ==
    initialized => IF mode.compact THEN Held(primary, status, lifecycle, descriptive, Due)
                   ELSE plain = Due

LEMMA Families ==
    /\ Status \in SUBSET Field /\ Lifecycle \in SUBSET Field /\ Descriptive \in SUBSET Field
    /\ Numeric \in SUBSET Field /\ PrimaryFields \in SUBSET Field
    /\ Descriptive = Status \union Lifecycle
BY CompactAssumption DEF Descriptive, PrimaryFields

LEMMA ModeParts ==
    ASSUME mode \in Modes
    PROVE  /\ mode.compact \in BOOLEAN /\ mode.sidecar \in BOOLEAN /\ mode.subgroups \in BOOLEAN
           /\ mode.numericOnDemand \in BOOLEAN /\ mode.lifecycleOnDemand \in BOOLEAN
<1>1. mode \in Mode
  BY CompactAssumption
<1> QED BY <1>1 DEF Mode

LEMMA PrimarySpecs ==
    ASSUME Sound, mode.compact, mode \in Modes
    PROVE  /\ RetainedPrimary(NumericOnDemand) = Specs(PrimaryFields)
           /\ RetainedPrimary(mode.numericOnDemand) = Specs(PrimaryFields)
<1>1. (NumericOnDemand <=> mode.numericOnDemand) /\ (NumericOnDemand => ~mode.sidecar)
  BY DEF NumericOnDemand, Sound
<1> QED BY <1>1, ModeParts DEF RetainedPrimary, PrimaryFields, NumericOnDemand

LEMMA ExpandIsKept ==
    ASSUME Sound, mode.compact, mode \in Modes, NEW t \in Torrent
    PROVE  /\ ExpandRow(t, FALSE) = Kept(primary, status, lifecycle, descriptive, t)
           /\ ExpandRow(t, TRUE) =
                 IF NumericOnDemand
                 THEN MergeRow(Kept(primary, status, lifecycle, descriptive, t), DescriptiveNumericRow(t))
                 ELSE Kept(primary, status, lifecycle, descriptive, t)
           /\ SnapshotRow(t) = Kept(primary, status, lifecycle, descriptive, t)
<1>1. RetainedPrimary(NumericOnDemand) = Specs(PrimaryFields)
  BY PrimarySpecs
<1>2. mode.sidecar /\ mode.subgroups => LifecycleRow(t) = Unpack(lifecycle, t, Specs(Lifecycle))
  BY DEF LifecycleRow, RetainLifecycle, Sound
<1>3. NumericOnDemand => ~mode.sidecar
  BY DEF NumericOnDemand
<1>4. /\ ExpandRow(t, FALSE) = Kept(primary, status, lifecycle, descriptive, t)
      /\ ExpandRow(t, TRUE) =
            IF NumericOnDemand
            THEN MergeRow(Kept(primary, status, lifecycle, descriptive, t), DescriptiveNumericRow(t))
            ELSE Kept(primary, status, lifecycle, descriptive, t)
  <2>1. CASE NumericOnDemand
    BY <1>1, <1>3, <2>1 DEF ExpandRow, Kept
  <2>2. CASE ~NumericOnDemand /\ ~mode.sidecar
    BY <1>1, <2>2 DEF ExpandRow, Kept
  <2>3. CASE ~NumericOnDemand /\ mode.sidecar /\ mode.subgroups
    BY <1>1, <1>2, <2>3 DEF ExpandRow, Kept
  <2>4. CASE ~NumericOnDemand /\ mode.sidecar /\ ~mode.subgroups
    BY <1>1, <2>4 DEF ExpandRow, Kept
  <2> QED BY <2>1, <2>2, <2>3, <2>4
<1>5. SnapshotRow(t) = ExpandRow(t, ~NumericOnDemand)
  BY DEF SnapshotRow
<1>6. CASE NumericOnDemand
  BY <1>4, <1>5, <1>6
<1>7. CASE ~NumericOnDemand
  BY <1>4, <1>5, <1>7
<1> QED BY <1>4, <1>6, <1>7

(* Between them they hold the fields that deltas are made on.              *)
LEMMA KeptRow ==
    ASSUME Sound, mode.compact, NEW p, NEW s, NEW l, NEW d,
           NEW table \in Table(Torrent), Held(p, s, l, d, table), NEW t \in Torrent
    PROVE  Kept(p, s, l, d, t) =
               [f \in Field |-> IF f \in KeptFields THEN At(table[t])[f] ELSE NoValue]
<1> DEFINE of(fields) == [f \in Field |-> IF f \in fields THEN At(table[t])[f] ELSE NoValue]
<1>1. Unpack(p, t, Specs(PrimaryFields)) = of(PrimaryFields)
  BY Families, HeldRow DEF Held
<1>2. mode.sidecar /\ mode.subgroups =>
          /\ Unpack(s, t, Specs(Status)) = of(Status)
          /\ Unpack(l, t, Specs(Lifecycle)) = of(Lifecycle)
  BY Families, HeldRow DEF Held
<1>3. mode.sidecar /\ ~mode.subgroups => Unpack(d, t, Specs(Descriptive)) = of(Descriptive)
  BY Families, HeldRow DEF Held
<1>4. CASE ~mode.sidecar
  <2>1. PrimaryFields = KeptFields
    BY <1>4 DEF PrimaryFields, KeptFields
  <2> QED BY <1>1, <1>4, <2>1 DEF Kept
<1>5. CASE mode.sidecar
  <2>1. PrimaryFields = Field \ (Status \union Lifecycle) /\ KeptFields = Field
    BY <1>5 DEF PrimaryFields, KeptFields, NumericOnDemand, Descriptive
  <2>2. CASE mode.subgroups
    <3>1. MergeRow(MergeRow(of(PrimaryFields), of(Status)), of(Lifecycle)) = of(Field)
      BY <2>1 DEF MergeRow
    <3> QED BY <1>1, <1>2, <1>5, <2>1, <2>2, <3>1 DEF Kept
  <2>3. CASE ~mode.subgroups
    <3>1. MergeRow(of(PrimaryFields), of(Descriptive)) = of(Field)
      BY <2>1, Families DEF MergeRow
    <3> QED BY <1>1, <1>3, <1>5, <2>1, <2>3, <3>1 DEF Kept
  <2> QED BY <2>2, <2>3
<1> QED BY <1>4, <1>5

LEMMA FormShows ==
    ASSUME Sound, TypeOK, FormInv, initialized
    PROVE  /\ Shows
           /\ mode.compact => \A t \in Torrent : SnapshotRow(t) = At(SnapshotRow(t))
<1>1. Due \in Table(Torrent)
  BY DueParts
<1>2. CASE ~mode.compact
  <2>1. \A t \in Torrent : SnapshotRow(t) = Due[t] /\ KeptFields = Field
    BY <1>2 DEF SnapshotRow, FormInv, KeptFields
  <2>2. \A t \in Torrent : At(Due[t]) \in Row
    BY <1>1, AtType DEF Table
  <2> QED BY <1>2, <2>1, <2>2 DEF Shows, Row
<1>3. CASE mode.compact
  <2>1. Held(primary, status, lifecycle, descriptive, Due)
    BY <1>3 DEF FormInv
  <2>2. ASSUME NEW t \in Torrent
        PROVE  /\ SnapshotRow(t) = [f \in Field |-> IF f \in KeptFields THEN At(Due[t])[f] ELSE NoValue]
               /\ SnapshotRow(t) # Absent
    <3>1. SnapshotRow(t) = [f \in Field |-> IF f \in KeptFields THEN At(Due[t])[f] ELSE NoValue]
      <4>1. Kept(primary, status, lifecycle, descriptive, t) =
                [f \in Field |-> IF f \in KeptFields THEN At(Due[t])[f] ELSE NoValue]
        BY <1>1, <1>3, <2>1, KeptRow
      <4>2. SnapshotRow(t) = Kept(primary, status, lifecycle, descriptive, t)
        BY <1>3, ExpandIsKept DEF TypeOK
      <4> QED BY <4>1, <4>2
    <3>2. At(Due[t]) \in Row
      BY <1>1, AtType DEF Table
    <3>3. SnapshotRow(t) \in Row
      BY <3>1, <3>2 DEF Row
    <3> QED BY <3>1, <3>3, RowIsNotAbsent
  <2> QED BY <2>2 DEF Shows, At
<1> QED BY <1>2, <1>3

(* A set is brought up to date with the delta.                             *)
LEMMA RepackedHolds ==
    ASSUME Sound, TypeOK, FormInv, initialized, mode.compact, Serialized(Due),
           NEW fields \in SUBSET KeptFields, NEW set,
           Holds(set, fields, Due), CodecFits(set, Specs(fields))
    PROVE  Holds(Repacked(set, Specs(fields), Pending, TRUE), fields, After)
<1> DEFINE specs == Specs(fields)
           changed == {t \in Torrent : Pending.rows[t] # Absent}
           newRow(t) == MergeRow(ExpandRow(t, ~NumericOnDemand), Pending.rows[t])
           new == Repacked(set, specs, Pending, TRUE)
<1>0. fields \in SUBSET Field
  BY DEF KeptFields
<1>1. Shows /\ \A t \in Torrent : SnapshotRow(t) = At(SnapshotRow(t))
  BY FormShows
<1>2. /\ Pending.removed = removed
      /\ \A t \in Torrent : Pending.rows[t] # Absent <=> t \in updated
      /\ \A t \in updated : \A f \in KeptFields :
            MergeRow(At(SnapshotRow(t)), Pending.rows[t])[f] = Session[t][f]
  BY <1>1, PendingParts
<1>3. /\ updated \subseteq Torrent /\ removed \subseteq Torrent
      /\ updated \cap removed = {}
      /\ \A t \in updated : Session[t] # Absent
  BY SessionParts DEF TypeOK
<1>4. changed = updated
  BY <1>2, <1>3
<1>5. /\ new.codec = set.codec
      /\ new.rows = [t \in (DOMAIN set.rows \union changed) \ Pending.removed |->
                        IF t \in changed THEN PackRow(newRow(t), specs, set.codec) ELSE set.rows[t]]
  BY SetParts DEF Repacked
<1> HIDE DEF new, changed, specs
<1>6. \A t \in updated : \A f \in KeptFields : newRow(t)[f] = Session[t][f]
  BY <1>1, <1>2, <1>3 DEF SnapshotRow
<1> HIDE DEF newRow
<1>7. DOMAIN new.rows = {t \in Torrent : After[t] # Absent}
  BY <1>2, <1>3, <1>4, <1>5 DEF Holds, After
<1>8. ASSUME NEW t \in DOMAIN new.rows
      PROVE  UnpackRow(new.rows[t], specs, new.codec) =
                 [f \in Field |-> IF f \in fields THEN After[t][f] ELSE NoValue]
  <2>1. t \in Torrent /\ t \notin removed
    BY <1>2, <1>5, <1>7
  <2>2. CASE t \in updated
    <3>1. new.rows[t] = PackRow(newRow(t), specs, set.codec)
      BY <1>4, <1>5, <2>2
    <3>2. \A i \in DOMAIN specs : specs[i] \in fields
      BY <1>0, SpecsParts DEF specs
    <3>3. \A f \in fields : newRow(t)[f] = NoValue <=> f \in mode.omitted
      <4>1. \A f \in Field : Session[t][f] = NoValue <=> f \in mode.omitted
        BY <1>3, <2>2, SessionParts DEF Serialized
      <4> QED BY <1>0, <1>6, <2>2, <4>1
    <3>4. \A i \in DOMAIN specs : newRow(t)[specs[i]] = NoValue => DefaultAt(set.codec, i) = NoValue
      BY <3>2, <3>3 DEF CodecFits, specs
    <3>5. UnpackRow(PackRow(newRow(t), specs, set.codec), specs, set.codec) =
              [f \in Field |-> IF f \in fields THEN newRow(t)[f] ELSE NoValue]
      BY <1>0, <3>4, RowRoundTrip DEF specs
    <3>6. [f \in Field |-> IF f \in fields THEN newRow(t)[f] ELSE NoValue] =
              [f \in Field |-> IF f \in fields THEN After[t][f] ELSE NoValue]
      BY <1>0, <1>6, <2>1, <2>2 DEF After
    <3> QED BY <1>5, <3>1, <3>5, <3>6
  <2>3. CASE t \notin updated
    <3>1. new.rows[t] = set.rows[t] /\ t \in DOMAIN set.rows /\ After[t] = Due[t]
      BY <1>4, <1>5, <2>1, <2>3 DEF After
    <3>2. UnpackRow(set.rows[t], specs, set.codec) =
              [f \in Field |-> IF f \in fields THEN Due[t][f] ELSE NoValue]
      BY <3>1 DEF Holds, specs
    <3> QED BY <1>5, <3>1, <3>2
  <2> QED BY <2>2, <2>3
<1> QED BY <1>7, <1>8 DEF Holds, new, specs

-----------------------------------------------------------------------------
(* Full responses.                                                         *)

(* A table with the fields that are not kept taken from the session.       *)
Filled(table) ==
    [t \in Torrent |->
        IF table[t] = Absent THEN Absent
        ELSE [f \in Field |-> IF f \in KeptFields THEN table[t][f] ELSE Session[t][f]]]

Expanded ==
    [t \in Torrent |->
        IF t \notin DOMAIN primary.rows THEN Absent
        ELSE IF NumericOnDemand
        THEN MergeRow(Kept(primary, status, lifecycle, descriptive, t), DescriptiveNumericRow(t))
        ELSE Kept(primary, status, lifecycle, descriptive, t)]

LEMMA FullResponseIs == Sound /\ mode.compact /\ mode \in Modes => FullResponse = Expanded
BY ExpandIsKept DEF FullResponse, Expanded

LEMMA FullResponseNext ==
    ASSUME Sound, mode \in Modes, mode.compact, UNCHANGED <<mode, content>>,
           Serialized(Session), NEW table, Serialized(table),
           Held(primary', status', lifecycle', descriptive', table),
           \A t \in Torrent : table[t] # Absent => content[t] # Absent /\ Session[t] # Absent
    PROVE  FullResponse' = Filled(table)
<1>1. Sound' /\ mode'.compact /\ mode' \in Modes
  BY DEF Sound
<1>2. (Sound /\ mode.compact /\ mode \in Modes => FullResponse = Expanded)'
  BY FullResponseIs, PTL
<1>3. FullResponse' = Expanded'
  BY <1>1, <1>2
<1>4. ASSUME NEW t \in Torrent
      PROVE  /\ Kept(primary, status, lifecycle, descriptive, t)' =
                    Kept(primary', status', lifecycle', descriptive', t)
             /\ DescriptiveNumericRow(t)' = DescriptiveNumericRow(t)
             /\ NumericOnDemand' = NumericOnDemand
  BY DEF Kept, PrimaryFields, NumericOnDemand, DescriptiveNumericRow, Session, Serialize
<1>5. ASSUME NEW t \in Torrent, table[t] # Absent
      PROVE  (IF NumericOnDemand
              THEN MergeRow(Kept(primary', status', lifecycle', descriptive', t), DescriptiveNumericRow(t))
              ELSE Kept(primary', status', lifecycle', descriptive', t)) = Filled(table)[t]
  <2>0. table[t] \in Row /\ Session[t] \in Row
    BY <1>5 DEF Serialized, Table
  <2>1. Kept(primary', status', lifecycle', descriptive', t) =
            [f \in Field |-> IF f \in KeptFields THEN table[t][f] ELSE NoValue]
    BY <1>5, KeptRow DEF At, Serialized
  <2>2. CASE ~NumericOnDemand
    BY <1>5, <2>1, <2>2 DEF Filled, KeptFields
  <2>3. CASE NumericOnDemand
    <3>1. KeptFields = Field \ (Descriptive \union Numeric)
      BY <2>3 DEF KeptFields
    <3>2. DescriptiveNumericRow(t) =
              [f \in Field |-> IF f \in KeptFields THEN NoValue ELSE Session[t][f]]
      BY <1>5, <3>1 DEF DescriptiveNumericRow, Only
    <3>3. \A f \in Field : Session[t][f] = NoValue <=> f \in mode.omitted
      BY <1>5 DEF Serialized
    <3>4. MergeRow(Kept(primary', status', lifecycle', descriptive', t), DescriptiveNumericRow(t)) =
              [f \in Field |-> IF f \in KeptFields THEN table[t][f] ELSE Session[t][f]]
      BY <2>1, <3>2 DEF MergeRow
    <3> QED BY <1>5, <2>3, <3>4 DEF Filled
  <2> QED BY <2>2, <2>3
<1>6. DOMAIN primary'.rows = {t \in Torrent : table[t] # Absent}
  BY DEF Held, Holds
<1>7. Expanded' = [t \in Torrent |->
                      IF t \notin DOMAIN primary'.rows THEN Absent
                      ELSE IF NumericOnDemand
                      THEN MergeRow(Kept(primary', status', lifecycle', descriptive', t), DescriptiveNumericRow(t))
                      ELSE Kept(primary', status', lifecycle', descriptive', t)]
  BY <1>4 DEF Expanded
<1>8. \A t \in Torrent : table[t] = Absent => Filled(table)[t] = Absent
  BY DEF Filled
<1>9. Filled(table) = [t \in Torrent |-> Filled(table)[t]]
  BY DEF Filled
<1> QED BY <1>3, <1>5, <1>6, <1>7, <1>8, <1>9

-----------------------------------------------------------------------------
(* The invariant.                                                          *)

(* A torrent that is not to be looked at is in the table if and only if it *)
(* is in the session.                                                      *)
Known ==
    initialized => \A t \in Torrent :
        t \notin updated \union removed => (Due[t] = Absent <=> content[t] = Absent)

Inv ==
    /\ TypeOK
    /\ Disjoint(increments)
    /\ Serialized(view)
    /\ Serialized(Due)
    /\ FormInv
    /\ CodecsFit
    /\ Known

LEMMA NoDeltaParts ==
    ASSUME NEW table \in Table(Torrent)
    PROVE  /\ NoDelta(Torrent) \in Delta(Torrent) /\ Disjoint(NoDelta(Torrent))
           /\ ApplyDelta(table, NoDelta(Torrent)) = table
<1>1. DOMAIN table = Torrent /\ table = [t \in Torrent |-> table[t]]
  BY DEF Table
<1>2. NoDelta(Torrent) \in Delta(Torrent) /\ Disjoint(NoDelta(Torrent))
  BY DEF NoDelta, Delta, Table, Disjoint
<1>3. \A t \in Torrent : RowAfter(table[t], NoDelta(Torrent), t) = table[t]
  BY DEF RowAfter, NoDelta
<1> QED BY <1>1, <1>2, <1>3 DEF ApplyDelta

LEMMA NoTorrentsParts == NoTorrents \in Table(Torrent) /\ Serialized(NoTorrents)
BY DEF NoTorrents, Table, Serialized

(* The snapshot and what it holds after storePendingRevision.              *)
LEMMA Stored ==
    ASSUME Inv, Sound, initialized, StorePending, UNCHANGED <<mode, content>>
    PROVE  /\ initialized' = TRUE /\ updated' = {} /\ removed' = {}
           /\ Serialized(After)
           /\ \A t \in Torrent : After[t] = Absent <=> content[t] = Absent
           /\ mode.compact => Held(primary', status', lifecycle', descriptive', After)
           /\ mode.compact => plain' = plain
           /\ ~mode.compact => plain' = After
           /\ CodecsFit'
<1>1. TypeOK /\ Serialized(Due) /\ FormInv /\ CodecsFit /\ Known
  BY DEF Inv
<1>2. Shows
  BY <1>1, FormShows
<1>3. Serialized(After)
  BY <1>1, AfterSerialized
<1>4. \A t \in Torrent : After[t] = Absent <=> content[t] = Absent
  BY <1>1, SessionParts DEF After, Known, TypeOK
<1>5. initialized' = TRUE /\ updated' = {} /\ removed' = {}
  BY DEF StorePending
<1>6. CASE mode.compact
  <2>1. ApplyToCompact(Pending) /\ plain' = plain
    BY <1>6 DEF StorePending
  <2>2. Held(primary, status, lifecycle, descriptive, Due)
    BY <1>1, <1>6 DEF FormInv
  <2>3. RetainedPrimary(NumericOnDemand) = Specs(PrimaryFields)
    BY <1>1, <1>6, PrimarySpecs DEF TypeOK
  <2>4. CodecFits(primary, Specs(PrimaryFields))
    BY <1>1, <1>6, <2>3 DEF CodecsFit
  <2>5. Holds(primary', PrimaryFields, After)
    <3>1. PrimaryFields \in SUBSET KeptFields
      BY DEF PrimaryFields, KeptFields
    <3>2. primary' = Repacked(primary, Specs(PrimaryFields), Pending, TRUE)
      BY <2>1, <2>3 DEF ApplyToCompact
    <3>3. Holds(primary, PrimaryFields, Due)
      BY <2>2 DEF Held
    <3>4. Holds(Repacked(primary, Specs(PrimaryFields), Pending, TRUE), PrimaryFields, After)
      BY <1>1, <1>6, <2>4, <3>1, <3>3, RepackedHolds
    <3> QED BY <3>2, <3>4
  <2>6. mode.sidecar => KeptFields = Field
    BY DEF KeptFields, NumericOnDemand
  <2>7. ASSUME mode.sidecar, mode.subgroups
        PROVE  Holds(status', Status, After) /\ Holds(lifecycle', Lifecycle, After)
    <3>1. RetainLifecycle
      BY <1>6, <2>7 DEF Sound, RetainLifecycle
    <3>2. /\ status' = Repacked(status, Specs(Status), Pending, TRUE)
          /\ lifecycle' = Repacked(lifecycle, Specs(Lifecycle), Pending, TRUE)
      BY <2>1, <2>7, <3>1 DEF ApplyToCompact, Repacked
    <3>3. /\ Holds(status, Status, Due) /\ CodecFits(status, Specs(Status))
          /\ Holds(lifecycle, Lifecycle, Due) /\ CodecFits(lifecycle, Specs(Lifecycle))
      BY <1>1, <1>6, <2>2, <2>7 DEF Held, CodecsFit
    <3>4. Status \in SUBSET KeptFields /\ Lifecycle \in SUBSET KeptFields
      BY <2>6, <2>7, Families
    <3>5. Holds(Repacked(status, Specs(Status), Pending, TRUE), Status, After)
      BY <1>1, <1>6, <3>3, <3>4, RepackedHolds
    <3>6. Holds(Repacked(lifecycle, Specs(Lifecycle), Pending, TRUE), Lifecycle, After)
      BY <1>1, <1>6, <3>3, <3>4, RepackedHolds
    <3> QED BY <3>2, <3>5, <3>6
  <2>8. ASSUME mode.sidecar, ~mode.subgroups PROVE Holds(descriptive', Descriptive, After)
    <3>1. descriptive' = Repacked(descriptive, Specs(Descriptive), Pending, TRUE)
      BY <2>1, <2>8 DEF ApplyToCompact, Repacked
    <3>2. Holds(descriptive, Descriptive, Due) /\ CodecFits(descriptive, Specs(Descriptive))
      BY <1>1, <1>6, <2>2, <2>8 DEF Held, CodecsFit
    <3>3. Descriptive \in SUBSET KeptFields
      BY <2>6, <2>8, Families
    <3>4. Holds(Repacked(descriptive, Specs(Descriptive), Pending, TRUE), Descriptive, After)
      BY <1>1, <1>6, <3>2, <3>3, RepackedHolds
    <3> QED BY <3>1, <3>4
  <2>9. /\ primary'.codec = primary.codec /\ status'.codec = status.codec
        /\ lifecycle'.codec = lifecycle.codec /\ descriptive'.codec = descriptive.codec
    BY <2>1, SetParts DEF ApplyToCompact, Repacked
  <2>10. CodecsFit'
    BY <1>1, <1>6, <2>9 DEF CodecsFit, CodecFits, DefaultAt, RetainedPrimary, NumericOnDemand, Descriptive
  <2>11. Held(primary', status', lifecycle', descriptive', After)
    BY <2>5, <2>7, <2>8 DEF Held
  <2> QED BY <1>3, <1>4, <1>5, <1>6, <2>1, <2>10, <2>11
<1>7. CASE ~mode.compact
  <2>1. plain' = ApplyDelta(plain, Pending) /\ plain = Due
    BY <1>1, <1>7 DEF StorePending, FormInv
  <2>2. plain' = After
    BY <1>1, <1>2, <2>1, DueParts, PendingParts DEF ApplyDelta, After
  <2>3. CodecsFit'
    BY <1>7 DEF CodecsFit
  <2> QED BY <1>3, <1>4, <1>5, <1>7, <2>2, <2>3
<1> QED BY <1>6, <1>7

-----------------------------------------------------------------------------
(* The steps.                                                              *)

LEMMA SessionIsSerialized ==
    TypeOK => Serialized(Session)
BY SessionParts

LEMMA HeldSame ==
    ASSUME NEW p, NEW s, NEW l, NEW d, NEW table, NEW other, Held(p, s, l, d, table),
           \A t \in Torrent :
               /\ table[t] = Absent <=> other[t] = Absent
               /\ table[t] # Absent => \A f \in KeptFields : table[t][f] = other[t][f]
    PROVE  Held(p, s, l, d, other)
<1>1. ASSUME NEW set, NEW fields \in SUBSET KeptFields, Holds(set, fields, table)
      PROVE  Holds(set, fields, other)
  <2>1. DOMAIN set.rows = {t \in Torrent : other[t] # Absent}
    BY <1>1 DEF Holds
  <2>2. ASSUME NEW t \in DOMAIN set.rows
        PROVE  UnpackRow(set.rows[t], Specs(fields), set.codec) =
                   [f \in Field |-> IF f \in fields THEN other[t][f] ELSE NoValue]
    <3>1. t \in Torrent /\ table[t] # Absent
      BY <1>1 DEF Holds
    <3>2. [f \in Field |-> IF f \in fields THEN table[t][f] ELSE NoValue] =
              [f \in Field |-> IF f \in fields THEN other[t][f] ELSE NoValue]
      BY <3>1
    <3> QED BY <1>1, <3>2 DEF Holds
  <2> QED BY <2>1, <2>2 DEF Holds
<1>2. PrimaryFields \in SUBSET KeptFields
  BY DEF PrimaryFields, KeptFields
<1>3. mode.sidecar => KeptFields = Field
  BY DEF KeptFields, NumericOnDemand
<1>4. Holds(p, PrimaryFields, other)
  BY <1>1, <1>2 DEF Held
<1>5. mode.sidecar /\ mode.subgroups => Holds(s, Status, other) /\ Holds(l, Lifecycle, other)
  BY <1>1, <1>3, Families DEF Held
<1>6. mode.sidecar /\ ~mode.subgroups => Holds(d, Descriptive, other)
  BY <1>1, <1>3, Families DEF Held
<1> QED BY <1>4, <1>5, <1>6 DEF Held

(* A table that is due and that the snapshot holds.                        *)
LEMMA InvAgain ==
    ASSUME UNCHANGED <<mode, content>>, TypeOK', Disjoint(increments'), Serialized(view'),
           NEW table, Serialized(table), Due' = table, CodecsFit',
           mode.compact => Held(primary', status', lifecycle', descriptive', table),
           ~mode.compact => plain' = table,
           \A t \in Torrent : table[t] = Absent <=> content[t] = Absent
    PROVE  Inv'
<1>1. Serialized(view)' /\ Serialized(Due)' /\ Disjoint(increments)'
  BY DEF Serialized, Disjoint
<1>2. PrimaryFields' = PrimaryFields
  BY DEF PrimaryFields, NumericOnDemand
<1>3. mode.compact => Held(primary, status, lifecycle, descriptive, Due)'
  BY <1>2 DEF Held, Holds
<1>4. FormInv'
  BY <1>3 DEF FormInv
<1>5. Known'
  BY DEF Known
<1> QED BY <1>1, <1>4, <1>5 DEF Inv

LEMMA InitInv ==
    ASSUME Init
    PROVE  Inv /\ Due = NoTorrents
<1>1. FirstRows \subseteq FullRow
  BY CompactAssumption
<1>2. NoTorrents \in Table(Torrent) /\ Serialized(NoTorrents)
  BY NoTorrentsParts
<1>3. NoDelta(Torrent) \in Delta(Torrent) /\ Disjoint(NoDelta(Torrent))
      /\ ApplyDelta(NoTorrents, NoDelta(Torrent)) = NoTorrents
  BY <1>2, NoDeltaParts
<1>4. Due = NoTorrents
  BY <1>3 DEF Init, Due
<1>5. TypeOK
  BY <1>1, <1>2, <1>3 DEF Init, TypeOK, FullTable
<1>6. FormInv /\ CodecsFit /\ Known
  BY DEF Init, FormInv, CodecsFit, Known
<1> QED BY <1>2, <1>3, <1>4, <1>5, <1>6 DEF Inv, Init

(* The steps of the session.                                               *)
LEMMA ChangeInv ==
    ASSUME Inv, NEW t \in Torrent, NEW row \in FullRow \union {Absent}, NEW reported \in BOOLEAN,
           Change(t, row, reported), reported \/ (content[t] # Absent /\ row # Absent)
    PROVE  /\ Inv'
           /\ UNCHANGED <<initialized, view>> /\ Due' = Due
           /\ initialized => updated \union removed \subseteq updated' \union removed'
<1>1. /\ UNCHANGED <<mode, storeVars, view, increments>>
      /\ content' = [content EXCEPT ![t] = row]
  BY DEF Change
<1>2. /\ content \in FullTable(Torrent) /\ DOMAIN content = Torrent
      /\ content'[t] = row /\ \A u \in Torrent \ {t} : content'[u] = content[u]
  BY <1>1 DEF Inv, TypeOK, FullTable
<1>3. Due' = Due
  BY <1>1 DEF Due
<1>4. /\ initialized => updated' = IF row = Absent THEN updated \ {t}
                                   ELSE IF reported THEN updated \union {t} ELSE updated
      /\ initialized => removed' = IF row = Absent THEN removed \union {t} ELSE removed \ {t}
      /\ ~initialized => updated' = updated /\ removed' = removed
  BY DEF Change
<1>5. /\ updated \subseteq {u \in Torrent : content[u] # Absent}
      /\ removed \subseteq {u \in Torrent : content[u] = Absent}
      /\ ~initialized => updated = {} /\ removed = {}
      /\ initialized \in BOOLEAN
  BY DEF Inv, TypeOK
<1>6. /\ updated' \subseteq {u \in Torrent : content'[u] # Absent}
      /\ removed' \subseteq {u \in Torrent : content'[u] = Absent}
  <2>1. CASE initialized
    BY <1>2, <1>4, <1>5, <2>1
  <2>2. CASE ~initialized
    BY <1>4, <1>5, <2>2
  <2> QED BY <2>1, <2>2
<1>7. content' \in FullTable(Torrent)
  BY <1>1, <1>2 DEF FullTable
<1>8. TypeOK'
  BY <1>1, <1>4, <1>6, <1>7 DEF Inv, TypeOK, storeVars
<1>9. Known'
  <2> SUFFICES ASSUME initialized, NEW u \in Torrent, u \notin updated' \union removed'
               PROVE  Due[u] = Absent <=> content'[u] = Absent
    BY <1>1, <1>3 DEF Known, storeVars
  <2>1. initialized => \A w \in Torrent :
            w \notin updated \union removed => (Due[w] = Absent <=> content[w] = Absent)
    BY DEF Inv, Known
  <2>2. CASE u # t
    BY <1>2, <1>4, <2>1, <2>2
  <2>3. CASE u = t
    <3>1. row # Absent /\ ~reported /\ t \notin updated
      BY <1>4, <2>3
    <3>2. t \notin removed /\ content[t] # Absent
      BY <1>5, <3>1
    <3> QED BY <1>2, <2>1, <2>3, <3>1, <3>2
  <2> QED BY <2>2, <2>3
<1>10. FormInv'
  <2>1. PrimaryFields' = PrimaryFields
    BY <1>1 DEF PrimaryFields, NumericOnDemand
  <2>2. UNCHANGED <<mode, initialized, plain, primary, descriptive, status, lifecycle>>
    BY <1>1 DEF storeVars
  <2>3. Held(primary, status, lifecycle, descriptive, Due)' <=>
            Held(primary, status, lifecycle, descriptive, Due)
    BY <1>3, <2>1, <2>2 DEF Held, Holds
  <2> QED BY <1>3, <2>2, <2>3 DEF Inv, FormInv
<1>11. CodecsFit'
  BY <1>1 DEF Inv, CodecsFit, CodecFits, RetainedPrimary, NumericOnDemand, storeVars
<1>12. Serialized(view)' /\ Serialized(Due)' /\ Disjoint(increments)'
  BY <1>1, <1>3 DEF Inv, Serialized, Disjoint
<1>13. initialized => updated \union removed \subseteq updated' \union removed'
  BY <1>4, <1>5
<1> QED BY <1>1, <1>3, <1>8, <1>9, <1>10, <1>11, <1>12, <1>13 DEF Inv, storeVars

LEMMA ReleaseInv ==
    ASSUME Inv, Release
    PROVE  Inv' /\ Due' = NoTorrents
<1>1. NoTorrents \in Table(Torrent) /\ Serialized(NoTorrents)
  BY NoTorrentsParts
<1>2. NoDelta(Torrent) \in Delta(Torrent) /\ Disjoint(NoDelta(Torrent))
      /\ ApplyDelta(NoTorrents, NoDelta(Torrent)) = NoTorrents
  BY <1>1, NoDeltaParts
<1>3. Due' = NoTorrents
  BY <1>2 DEF Release, Due
<1>4. TypeOK'
  BY <1>1, <1>2 DEF Inv, TypeOK, Release
<1>5. FormInv' /\ CodecsFit' /\ Known'
  BY DEF Release, FormInv, CodecsFit, Known
<1>6. Serialized(view)' /\ Serialized(Due)' /\ Disjoint(increments)'
  BY <1>1, <1>2, <1>3 DEF Release, Serialized, Disjoint
<1> QED BY <1>3, <1>4, <1>5, <1>6 DEF Inv

LEMMA FilledParts ==
    ASSUME Serialized(After), Serialized(Session),
           \A t \in Torrent : After[t] = Absent <=> content[t] = Absent,
           \A t \in Torrent : Session[t] = Absent <=> content[t] = Absent
    PROVE  /\ Serialized(Filled(After))
           /\ \A t \in Torrent :
                 /\ Filled(After)[t] = Absent <=> After[t] = Absent
                 /\ After[t] # Absent =>
                       \A f \in Field :
                          Filled(After)[t][f] = IF f \in KeptFields THEN After[t][f] ELSE Session[t][f]
           /\ KeptFields = Field => Filled(After) = After
<1> DEFINE X == Filled(After)
<1>1. /\ X = [t \in Torrent |-> X[t]]
      /\ \A t \in Torrent : X[t] =
            IF After[t] = Absent THEN Absent
            ELSE [f \in Field |-> IF f \in KeptFields THEN After[t][f] ELSE Session[t][f]]
  BY DEF Filled
<1> HIDE DEF X
<1>2. ASSUME NEW t \in Torrent, After[t] # Absent
      PROVE  /\ X[t] \in Row
             /\ \A f \in Field : X[t][f] = IF f \in KeptFields THEN After[t][f] ELSE Session[t][f]
             /\ \A f \in Field : X[t][f] = NoValue <=> f \in mode.omitted
             /\ KeptFields = Field => X[t] = After[t]
  <2>1. X[t] = [f \in Field |-> IF f \in KeptFields THEN After[t][f] ELSE Session[t][f]]
    BY <1>1, <1>2
  <2>2. After[t] \in Row /\ Session[t] \in Row /\ Session[t] # Absent
    BY <1>2, RowIsNotAbsent DEF Serialized, Table
  <2>3. \A f \in Field : /\ After[t][f] = NoValue <=> f \in mode.omitted
                         /\ Session[t][f] = NoValue <=> f \in mode.omitted
    BY <1>2, <2>2 DEF Serialized
  <2>4. X[t] \in Row
    BY <2>1, <2>2 DEF Row
  <2>5. KeptFields = Field => X[t] = After[t]
    BY <2>1, <2>2 DEF Row
  <2> QED BY <2>1, <2>3, <2>4, <2>5
<1>3. X \in Table(Torrent)
  BY <1>1, <1>2 DEF Table
<1>4. Serialized(X)
  BY <1>1, <1>2, <1>3 DEF Serialized
<1>5. \A t \in Torrent : X[t] = Absent <=> After[t] = Absent
  BY <1>1, <1>2, RowIsNotAbsent
<1>6. KeptFields = Field => X = After
  BY <1>1, <1>2 DEF After
<1> QED BY <1>2, <1>4, <1>5, <1>6 DEF X

(* A look at the session that ends with the table that is due.             *)
Looked(table) ==
    /\ \A t \in Torrent : table[t] = Absent <=> content[t] = Absent
    /\ \A t \in Torrent : table[t] # Absent =>
          \A f \in Field : \/ table[t][f] = Session[t][f]
                           \/ /\ initialized
                              /\ table[t][f] = After[t][f]

LEMMA FirstRequestInv ==
    ASSUME Inv, Sound, FirstRequest
    PROVE  Inv' /\ Due' = Session /\ view' = Session /\ Looked(Session)
<1>1. TypeOK /\ UNCHANGED <<mode, content, updated, removed, increments>> /\ InitializeSnapshot
      /\ view' = FullResponse' /\ ~initialized
  BY DEF FirstRequest, Inv
<1>2. Serialized(Session) /\ \A t \in Torrent : Session[t] = Absent <=> content[t] = Absent
  BY <1>1, SessionParts
<1>3. increments = NoDelta(Torrent) /\ updated = {} /\ removed = {} /\ mode \in Modes
  BY <1>1 DEF TypeOK
<1>4. mode.compact => Held(primary', status', lifecycle', descriptive', Session) /\ CodecsFit'
  <2> SUFFICES ASSUME mode.compact
               PROVE  Held(primary', status', lifecycle', descriptive', Session) /\ CodecsFit'
    OBVIOUS
  <2>1. RetainedPrimary(mode.numericOnDemand) = Specs(PrimaryFields)
        /\ RetainedPrimary(NumericOnDemand) = Specs(PrimaryFields)
    BY <1>3, PrimarySpecs
  <2>2. primary' \in RowSets(Session, Specs(PrimaryFields))
    BY <1>1, <2>1 DEF InitializeSnapshot
  <2>3. Holds(primary', PrimaryFields, Session) /\ CodecFits(primary', Specs(PrimaryFields))
    BY <1>2, <2>2, Families, RowSetsHold
  <2>4. ASSUME mode.sidecar, mode.subgroups
        PROVE  /\ Holds(status', Status, Session) /\ CodecFits(status', Specs(Status))
               /\ Holds(lifecycle', Lifecycle, Session) /\ CodecFits(lifecycle', Specs(Lifecycle))
    <3>1. RetainLifecycle
      BY <2>4 DEF Sound, RetainLifecycle
    <3>2. status' \in RowSets(Session, Specs(Status)) /\ lifecycle' \in RowSets(Session, Specs(Lifecycle))
      BY <1>1, <2>4, <3>1 DEF InitializeSnapshot
    <3> QED BY <1>2, <3>2, Families, RowSetsHold
  <2>5. ASSUME mode.sidecar, ~mode.subgroups
        PROVE  Holds(descriptive', Descriptive, Session) /\ CodecFits(descriptive', Specs(Descriptive))
    <3>1. descriptive' \in RowSets(Session, Specs(Descriptive))
      BY <1>1, <2>5 DEF InitializeSnapshot
    <3> QED BY <1>2, <3>1, Families, RowSetsHold
  <2>6. Held(primary', status', lifecycle', descriptive', Session)
    BY <2>3, <2>4, <2>5 DEF Held
  <2>7. RetainedPrimary(NumericOnDemand)' = Specs(PrimaryFields)
    BY <1>1, <2>1 DEF RetainedPrimary, NumericOnDemand
  <2>8. CodecsFit'
    BY <1>1, <2>3, <2>4, <2>5, <2>7 DEF CodecsFit, CodecFits
  <2> QED BY <2>6, <2>8
<1>5. ~mode.compact => plain' = Session /\ CodecsFit'
  BY <1>1 DEF InitializeSnapshot, CodecsFit
<1>6. view' = Session
  <2>1. CASE mode.compact
    <3>1. FullResponse' = Filled(Session)
      BY <1>1, <1>2, <1>3, <1>4, <2>1, FullResponseNext
    <3>2. \A t \in Torrent : Session[t] # Absent => Session[t] \in Row
      BY <1>2 DEF Serialized, Table
    <3>3. \A t \in Torrent : Filled(Session)[t] = Session[t]
      BY <3>2 DEF Filled, Row
    <3>4. Filled(Session) = Session
      BY <3>3 DEF Filled, Session
    <3> QED BY <1>1, <3>1, <3>4
  <2>2. CASE ~mode.compact
    BY <1>1, <1>5, <2>2 DEF FullResponse
  <2> QED BY <2>1, <2>2
<1>7. Session \in Table(Torrent)
  BY <1>2 DEF Serialized
<1>8. Due' = Session /\ increments \in Delta(Torrent) /\ Disjoint(increments)
  BY <1>1, <1>3, <1>6, <1>7, NoDeltaParts DEF Due
<1>9. TypeOK'
  BY <1>1, <1>3, <1>6, <1>7 DEF TypeOK, InitializeSnapshot, NoTorrents, Table
<1>10. Inv'
  BY <1>1, <1>2, <1>4, <1>5, <1>6, <1>8, <1>9, InvAgain
<1> QED BY <1>2, <1>6, <1>8, <1>10 DEF Looked

(* What each request for a store that exists does to the invariant.        *)
LEMMA AfterLooked ==
    ASSUME Inv, Sound, initialized
    PROVE  /\ Serialized(Session) /\ Serialized(After)
           /\ \A t \in Torrent : Session[t] = Absent <=> content[t] = Absent
           /\ \A t \in Torrent : After[t] = Absent <=> content[t] = Absent
           /\ Pending \in Delta(Torrent)
           /\ \A t \in Torrent : RowAfter(Due[t], Pending, t) = After[t]
           /\ \A t \in Torrent : Due[t] = Absent /\ Pending.rows[t] # Absent => Pending.rows[t] = Session[t]
           /\ Looked(After)
<1>1. TypeOK /\ Serialized(Due) /\ FormInv /\ Known
  BY DEF Inv
<1>2. Serialized(Session) /\ \A t \in Torrent : Session[t] = Absent <=> content[t] = Absent
  BY <1>1, SessionParts
<1>3. Serialized(After)
  BY <1>1, AfterSerialized
<1>4. \A t \in Torrent : After[t] = Absent <=> content[t] = Absent
  BY <1>1, <1>2 DEF After, Known, TypeOK
<1>5. Looked(After)
  BY <1>4 DEF Looked
<1>6. Shows
  BY <1>1, FormShows
<1>7. /\ Pending \in Delta(Torrent)
      /\ \A t \in Torrent : RowAfter(Due[t], Pending, t) = After[t]
      /\ \A t \in Torrent : Pending.rows[t] # Absent <=> t \in updated
      /\ \A t \in updated : Due[t] = Absent => Pending.rows[t] = Session[t]
  BY <1>1, <1>6, PendingParts
<1> QED BY <1>2, <1>3, <1>4, <1>5, <1>7

(* A tab that applies the merged increments gets to what is due.           *)
LEMMA MergedIsAfter ==
    ASSUME Inv, Sound, initialized
    PROVE  /\ MergeDelta(increments, Pending) \in Delta(Torrent)
           /\ Disjoint(MergeDelta(increments, Pending))
           /\ ApplyDelta(view, MergeDelta(increments, Pending)) = After
<1>1. /\ TypeOK /\ Disjoint(increments) /\ Serialized(view) /\ view \in Table(Torrent)
      /\ DOMAIN view = Torrent /\ increments \in Delta(Torrent)
  BY DEF Inv, TypeOK, Table
<1>2. /\ Pending \in Delta(Torrent) /\ Serialized(Session)
      /\ \A t \in Torrent : Session[t] = Absent <=> content[t] = Absent
      /\ \A t \in Torrent : RowAfter(Due[t], Pending, t) = After[t]
      /\ \A t \in Torrent : Due[t] = Absent /\ Pending.rows[t] # Absent => Pending.rows[t] = Session[t]
  BY AfterLooked
<1>3. \A t \in Torrent : Due[t] = RowAfter(view[t], increments, t)
  BY <1>1, DueParts
<1>4. \A t \in increments.removed : Due[t] = Absent /\ t \in Torrent
  BY <1>1, DueParts DEF Delta
<1>5. ASSUME NEW t \in Torrent
      PROVE  RowAfter(view[t], MergeDelta(increments, Pending), t) = After[t]
  <2>1. view[t] \in Row \union {Absent}
    BY <1>1 DEF Table
  <2>2. ASSUME t \in increments.removed, Pending.rows[t] # Absent
        PROVE  MergeRow(At(view[t]), Pending.rows[t]) = Pending.rows[t]
    <3>1. Pending.rows[t] = Session[t]
      BY <1>2, <1>4, <2>2
    <3>2. /\ Session[t] # Absent /\ Session[t] \in Row
          /\ \A f \in Field : Session[t][f] = NoValue <=> f \in mode.omitted
      BY <1>2, <2>2, <3>1 DEF Serialized, Table
    <3>3. \A f \in Field : f \in mode.omitted => At(view[t])[f] = NoValue
      BY <1>1 DEF Serialized, At, NoFields
    <3>4. MergeRow(At(view[t]), Session[t]) = Session[t]
      BY <3>2, <3>3 DEF MergeRow, Row
    <3> QED BY <3>1, <3>4
  <2>3. RowAfter(RowAfter(view[t], increments, t), Pending, t) =
            RowAfter(view[t], MergeDelta(increments, Pending), t)
    BY <1>1, <1>2, <2>1, <2>2, AggregateRow
  <2> QED BY <1>2, <1>3, <2>3
<1>6. ApplyDelta(view, MergeDelta(increments, Pending)) = After
  BY <1>1, <1>5 DEF ApplyDelta, After
<1> QED BY <1>1, <1>2, <1>6, MergeDeltaType

LEMMA OtherRequestInv ==
    ASSUME Inv, Sound, OtherRequest
    PROVE  Inv' /\ Due' = After
<1>1. /\ UNCHANGED <<mode, content>> /\ view' = view /\ StorePending /\ initialized
      /\ increments' = MergeDelta(increments, Pending)
  BY DEF OtherRequest
<1>2. TypeOK /\ Serialized(view)
  BY DEF Inv
<1>3. Due' = After /\ increments' \in Delta(Torrent) /\ Disjoint(increments')
  BY <1>1, MergedIsAfter DEF Due
<1>4. /\ initialized' = TRUE /\ updated' = {} /\ removed' = {}
      /\ Serialized(After)
      /\ \A t \in Torrent : After[t] = Absent <=> content[t] = Absent
      /\ mode.compact => Held(primary', status', lifecycle', descriptive', After)
      /\ mode.compact => plain' = plain
      /\ ~mode.compact => plain' = After
      /\ CodecsFit'
  BY <1>1, Stored
<1>5. TypeOK'
  BY <1>1, <1>2, <1>3, <1>4, ModeParts DEF TypeOK, Serialized
<1> QED BY <1>1, <1>2, <1>3, <1>4, <1>5, InvAgain

LEMMA IncrementalRequestInv ==
    ASSUME Inv, Sound, IncrementalRequest
    PROVE  Inv' /\ Due' = After /\ view' = After
<1>1. /\ UNCHANGED <<mode, content>> /\ StorePending /\ initialized
      /\ view' = ApplyDelta(view, MergeDelta(increments, Pending))
      /\ increments' = NoDelta(Torrent)
  BY DEF IncrementalRequest
<1>2. TypeOK
  BY DEF Inv
<1>3. view' = After
  BY <1>1, MergedIsAfter
<1>4. /\ initialized' = TRUE /\ updated' = {} /\ removed' = {}
      /\ Serialized(After)
      /\ \A t \in Torrent : After[t] = Absent <=> content[t] = Absent
      /\ mode.compact => Held(primary', status', lifecycle', descriptive', After)
      /\ mode.compact => plain' = plain
      /\ ~mode.compact => plain' = After
      /\ CodecsFit'
  BY <1>1, Stored
<1>5. After \in Table(Torrent)
  BY <1>4 DEF Serialized
<1>6. Due' = After /\ increments' \in Delta(Torrent) /\ Disjoint(increments')
  BY <1>1, <1>3, <1>5, NoDeltaParts DEF Due
<1>7. TypeOK'
  BY <1>1, <1>2, <1>3, <1>4, <1>5, <1>6, ModeParts DEF TypeOK
<1> QED BY <1>1, <1>3, <1>4, <1>6, <1>7, InvAgain

LEMMA FullRequestInv ==
    ASSUME Inv, Sound, FullRequest
    PROVE  Inv' /\ Due' = Filled(After) /\ view' = Filled(After) /\ Looked(Filled(After))
<1>1. /\ UNCHANGED <<mode, content>> /\ StorePending /\ initialized
      /\ view' = FullResponse' /\ increments' = NoDelta(Torrent)
  BY DEF FullRequest
<1>2. TypeOK /\ mode \in Modes
  BY DEF Inv, TypeOK
<1>3. /\ initialized' = TRUE /\ updated' = {} /\ removed' = {}
      /\ Serialized(After)
      /\ \A t \in Torrent : After[t] = Absent <=> content[t] = Absent
      /\ mode.compact => Held(primary', status', lifecycle', descriptive', After)
      /\ mode.compact => plain' = plain
      /\ ~mode.compact => plain' = After
      /\ CodecsFit'
  BY <1>1, Stored
<1>4. Serialized(Session) /\ \A t \in Torrent : Session[t] = Absent <=> content[t] = Absent
  BY <1>2, SessionParts
<1>5. /\ Serialized(Filled(After))
      /\ \A t \in Torrent :
            /\ Filled(After)[t] = Absent <=> After[t] = Absent
            /\ After[t] # Absent =>
                  \A f \in Field :
                     Filled(After)[t][f] = IF f \in KeptFields THEN After[t][f] ELSE Session[t][f]
      /\ KeptFields = Field => Filled(After) = After
  BY <1>3, <1>4, FilledParts
<1>6. view' = Filled(After)
  <2>1. CASE mode.compact
    <3>1. FullResponse' = Filled(After)
      BY <1>1, <1>2, <1>3, <1>4, <2>1, FullResponseNext
    <3> QED BY <1>1, <3>1
  <2>2. CASE ~mode.compact
    <3>1. view' = plain' /\ KeptFields = Field
      BY <1>1, <2>2 DEF FullResponse, KeptFields
    <3> QED BY <1>3, <1>5, <2>2, <3>1
  <2> QED BY <2>1, <2>2
<1>7. Filled(After) \in Table(Torrent) /\ After \in Table(Torrent)
  BY <1>3, <1>5 DEF Serialized
<1>8. Due' = Filled(After) /\ increments' \in Delta(Torrent) /\ Disjoint(increments')
  BY <1>1, <1>6, <1>7, NoDeltaParts DEF Due
<1>9. TypeOK'
  BY <1>1, <1>2, <1>3, <1>6, <1>7, <1>8, ModeParts DEF TypeOK
<1>10. mode.compact => Held(primary', status', lifecycle', descriptive', Filled(After))
  <2> SUFFICES ASSUME mode.compact
               PROVE  Held(primary', status', lifecycle', descriptive', Filled(After))
    OBVIOUS
  <2>1. \A t \in Torrent :
            /\ After[t] = Absent <=> Filled(After)[t] = Absent
            /\ After[t] # Absent => \A f \in KeptFields : After[t][f] = Filled(After)[t][f]
    BY <1>5 DEF KeptFields
  <2> QED BY <1>3, <2>1, HeldSame
<1>11. ~mode.compact => plain' = Filled(After)
  BY <1>3, <1>5 DEF KeptFields
<1>12. \A t \in Torrent : Filled(After)[t] = Absent <=> content[t] = Absent
  BY <1>3, <1>5
<1>13. Looked(Filled(After))
  BY <1>1, <1>3, <1>5, <1>12 DEF Looked
<1>14. Serialized(view')
  BY <1>5, <1>6
<1> QED BY <1>1, <1>3, <1>5, <1>6, <1>8, <1>9, <1>10, <1>11, <1>12, <1>13, <1>14, InvAgain

(* Each step keeps the invariant.                                          *)
LEMMA NextInv ==
    ASSUME Inv, Sound, Next
    PROVE  Inv'
<1>1. FirstRows \subseteq FullRow
  BY CompactAssumption
<1>2. ASSUME NEW t \in Torrent, AddTorrent(t) PROVE Inv'
  BY <1>1, <1>2, ChangeInv DEF AddTorrent
<1>3. ASSUME NEW t \in Torrent, RemoveTorrent(t) PROVE Inv'
  BY <1>3, ChangeInv DEF RemoveTorrent
<1>4. ASSUME NEW t \in Torrent, NEW f \in Field, ChangeField(t, f) PROVE Inv'
  <2>1. PICK v \in Value : Change(t, [content[t] EXCEPT ![f] = v], f \notin SilentField)
    BY <1>4 DEF ChangeField
  <2>2. content[t] # Absent /\ content[t] \in FullRow
    BY <1>4 DEF ChangeField, Inv, TypeOK, FullTable
  <2>3. [content[t] EXCEPT ![f] = v] \in FullRow
    BY <2>2 DEF FullRow
  <2>4. [content[t] EXCEPT ![f] = v] # Absent
    BY <2>3, RowIsNotAbsent
  <2> QED BY <2>1, <2>2, <2>3, <2>4, ChangeInv
<1> QED BY <1>2, <1>3, <1>4, FirstRequestInv, FullRequestInv, IncrementalRequestInv,
           OtherRequestInv, ReleaseInv DEF Next

(* Each step is one of TorrentViews.                                       *)
LEMMA Looks ==
    ASSUME Inv, Looked(Due'), initialized', updated' = {}, removed' = {}, Session' = Session
    PROVE  Views!LookAgain
<1>1. TypeOK /\ Known
  BY DEF Inv
<1>2. \A t \in Torrent : Session[t] = Absent <=> content[t] = Absent
  BY <1>1, SessionParts
<1> DEFINE reported == IF initialized THEN updated \union removed ELSE Torrent
<1>3. ASSUME NEW t \in Torrent PROVE Views!LookedAt(t)
  <2>1. CASE content[t] = Absent
    <3>1. Due'[t] = Absent
      BY <2>1 DEF Looked
    <3>2. t \notin reported => Due[t] = Absent
      BY <1>1, <2>1 DEF Known
    <3> QED BY <1>2, <2>1, <3>1, <3>2 DEF Views!LookedAt
  <2>2. CASE content[t] # Absent
    <3>1. Due'[t] # Absent
      BY <2>2 DEF Looked
    <3>2. ASSUME NEW f \in Field PROVE Due'[t][f] \in Views!Shown(t, f)
      <4>1. CASE Due'[t][f] = Session[t][f]
        BY <4>1 DEF Views!Shown
      <4>2. CASE initialized /\ Due'[t][f] = After[t][f]
        <5>1. t \notin removed
          BY <1>1, <2>2 DEF TypeOK
        <5>2. CASE t \in updated
          BY <4>1, <4>2, <5>1, <5>2 DEF After
        <5>3. CASE t \notin updated
          <6>1. Due[t] # Absent /\ After[t] = Due[t] /\ t \notin reported
            BY <1>1, <2>2, <4>2, <5>1, <5>3 DEF After, Known
          <6>2. Views!At(Due[t]) = Due[t]
            BY <6>1 DEF Views!At
          <6> QED BY <4>2, <6>1, <6>2 DEF Views!Shown
        <5> QED BY <4>1, <5>2, <5>3
      <4> QED BY <3>1, <4>1, <4>2 DEF Looked
    <3> QED BY <1>2, <2>2, <3>1, <3>2 DEF Views!LookedAt
  <2> QED BY <2>1, <2>2
<1> QED BY <1>3 DEF Views!LookAgain

LEMMA SessionSame ==
    ASSUME UNCHANGED <<mode, content>>
    PROVE  Session' = Session
BY DEF Session, Serialize

LEMMA ChangeImplements ==
    ASSUME Inv, NEW t \in Torrent, NEW row \in FullRow \union {Absent}, NEW noted \in BOOLEAN,
           Change(t, row, noted), noted \/ (content[t] # Absent /\ row # Absent)
    PROVE  Views!Change
<1>1. /\ Inv' /\ UNCHANGED <<initialized, view>> /\ Due' = Due
      /\ initialized => updated \union removed \subseteq updated' \union removed'
  BY ChangeInv
<1>2. TypeOK' /\ updated' \subseteq Torrent /\ removed' \subseteq Torrent
  BY <1>1 DEF Inv, TypeOK
<1>3. (TypeOK => Serialized(Session))'
  BY SessionIsSerialized, PTL
<1>4. Session' \in Table(Torrent)
  BY <1>2, <1>3 DEF Serialized
<1>5. Views!Table(Torrent) = Table(Torrent)
  BY DEF Views!Table, Views!Row, Table, Row
<1> QED BY <1>1, <1>2, <1>4, <1>5 DEF Views!Change

LEMMA NextImplements ==
    ASSUME Inv, Sound, Next
    PROVE  Views!Next
<1>1. FirstRows \subseteq FullRow
  BY CompactAssumption
<1>2. ASSUME NEW t \in Torrent, AddTorrent(t) PROVE Views!Next
  BY <1>1, <1>2, ChangeImplements DEF AddTorrent, Views!Next
<1>3. ASSUME NEW t \in Torrent, RemoveTorrent(t) PROVE Views!Next
  BY <1>3, ChangeImplements DEF RemoveTorrent, Views!Next
<1>4. ASSUME NEW t \in Torrent, NEW f \in Field, ChangeField(t, f) PROVE Views!Next
  <2>1. PICK v \in Value : Change(t, [content[t] EXCEPT ![f] = v], f \notin SilentField)
    BY <1>4 DEF ChangeField
  <2>2. content[t] # Absent /\ content[t] \in FullRow
    BY <1>4 DEF ChangeField, Inv, TypeOK, FullTable
  <2>3. [content[t] EXCEPT ![f] = v] \in FullRow
    BY <2>2 DEF FullRow
  <2>4. [content[t] EXCEPT ![f] = v] # Absent
    BY <2>3, RowIsNotAbsent
  <2> QED BY <2>1, <2>2, <2>3, <2>4, ChangeImplements DEF Views!Next
<1>5. CASE FirstRequest
  <2>1. Due' = Session /\ view' = Session /\ Looked(Session)
    BY <1>5, FirstRequestInv
  <2>2. initialized' /\ updated' = {} /\ removed' = {} /\ UNCHANGED <<mode, content>>
    BY <1>5 DEF FirstRequest, InitializeSnapshot, Inv, TypeOK
  <2>3. Views!LookAgain
    BY <2>1, <2>2, SessionSame, Looks
  <2> QED BY <2>1, <2>3 DEF Views!Respond, Views!Next
<1>6. CASE FullRequest
  <2>1. Due' = Filled(After) /\ view' = Filled(After) /\ Looked(Filled(After))
    BY <1>6, FullRequestInv
  <2>2. initialized' /\ updated' = {} /\ removed' = {} /\ UNCHANGED <<mode, content>>
    BY <1>6 DEF FullRequest, StorePending
  <2>3. Views!LookAgain
    BY <2>1, <2>2, SessionSame, Looks
  <2> QED BY <2>1, <2>3 DEF Views!Respond, Views!Next
<1>7. CASE IncrementalRequest
  <2>1. Due' = After /\ view' = After
    BY <1>7, IncrementalRequestInv
  <2>2. initialized /\ initialized' /\ updated' = {} /\ removed' = {} /\ UNCHANGED <<mode, content>>
    BY <1>7 DEF IncrementalRequest, StorePending
  <2>3. Looked(After)
    BY <2>2, AfterLooked
  <2>4. Views!LookAgain
    BY <2>1, <2>2, <2>3, SessionSame, Looks
  <2> QED BY <2>1, <2>4 DEF Views!Respond, Views!Next
<1>8. CASE OtherRequest
  <2>1. Due' = After /\ view' = view
    BY <1>8, OtherRequestInv DEF OtherRequest
  <2>2. initialized /\ initialized' /\ updated' = {} /\ removed' = {} /\ UNCHANGED <<mode, content>>
    BY <1>8 DEF OtherRequest, StorePending
  <2>3. Looked(After)
    BY <2>2, AfterLooked
  <2>4. Views!LookAgain
    BY <2>1, <2>2, <2>3, SessionSame, Looks
  <2> QED BY <2>1, <2>4 DEF Views!RespondToOther, Views!Next
<1>9. CASE Release
  <2>1. Due' = NoTorrents /\ view' = NoTorrents /\ ~initialized' /\ UNCHANGED <<mode, content>>
    BY <1>9, ReleaseInv DEF Release
  <2>2. Views!NoTorrents = NoTorrents
    BY DEF Views!NoTorrents, NoTorrents
  <2> QED BY <2>1, <2>2, SessionSame DEF Views!Forget, Views!Next
<1> QED BY <1>2, <1>3, <1>4, <1>5, <1>6, <1>7, <1>8, <1>9 DEF Next

LEMMA InitImplements ==
    ASSUME Init
    PROVE  Views!Init
<1>1. Inv /\ Due = NoTorrents
  BY InitInv
<1>2. Session \in Table(Torrent)
  BY <1>1, SessionParts DEF Inv, Serialized
<1>3. Views!Table(Torrent) = Table(Torrent) /\ Views!NoTorrents = NoTorrents
  BY DEF Views!Table, Views!Row, Table, Row, Views!NoTorrents, NoTorrents
<1> QED BY <1>1, <1>2, <1>3 DEF Views!Init, Init

LEMMA StutterInv ==
    ASSUME Inv, UNCHANGED vars
    PROVE  Inv' /\ UNCHANGED Views!vars
<1>1. UNCHANGED <<mode, content, updated, removed, view, increments>>
      /\ UNCHANGED <<initialized, plain, primary, descriptive, status, lifecycle>>
  BY DEF vars, storeVars
<1>2. Due' = Due /\ Session' = Session
  BY <1>1, SessionSame DEF Due
<1>3. TypeOK' /\ Known' /\ Serialized(view)' /\ Serialized(Due)' /\ Disjoint(increments)'
  BY <1>1, <1>2 DEF Inv, TypeOK, Known, Serialized, Disjoint
<1>4. PrimaryFields' = PrimaryFields
  BY <1>1 DEF PrimaryFields, NumericOnDemand
<1>5. Held(primary, status, lifecycle, descriptive, Due)' <=>
          Held(primary, status, lifecycle, descriptive, Due)
  BY <1>1, <1>2, <1>4 DEF Held, Holds
<1>6. FormInv'
  BY <1>1, <1>2, <1>5 DEF Inv, FormInv
<1>7. CodecsFit'
  BY <1>1 DEF Inv, CodecsFit, CodecFits, RetainedPrimary, NumericOnDemand
<1> QED BY <1>1, <1>2, <1>3, <1>6, <1>7 DEF Inv, Views!vars

LEMMA InvConsistent ==
    ASSUME Inv, Sound
    PROVE  CompactConsistent
<1>1. TypeOK /\ CodecsFit /\ Serialized(Due) /\ FormInv /\ Known
  BY DEF Inv
<1>2. UnreportedAreKnown
  BY <1>1 DEF UnreportedAreKnown, Known, Serialized
<1>3. ASSUME initialized, NEW t \in Torrent
      PROVE  /\ Due[t] = Absent <=> FullResponse[t] = Absent
             /\ Due[t] # Absent => \A f \in KeptFields : SnapshotRow(t)[f] = Due[t][f]
  <2>1. Shows
    BY <1>1, <1>3, FormShows
  <2>2. CASE mode.compact
    <3>1. Held(primary, status, lifecycle, descriptive, Due) /\ Due \in Table(Torrent)
      BY <1>1, <1>3, <2>2 DEF FormInv, Serialized
    <3>2. SnapshotRow(t) = At(SnapshotRow(t))
      BY <1>1, <1>3, <2>2, FormShows
    <3>3. Due[t] # Absent => \A f \in KeptFields : SnapshotRow(t)[f] = Due[t][f]
      BY <2>1, <3>2 DEF Shows, At, KeptFields
    <3>4. t \in DOMAIN primary.rows <=> Due[t] # Absent
      BY <3>1 DEF Held, Holds
    <3>5. FullResponse = Expanded
      BY <1>1, <2>2, FullResponseIs DEF TypeOK
    <3>6. Kept(primary, status, lifecycle, descriptive, t) =
              [f \in Field |-> IF f \in KeptFields THEN At(Due[t])[f] ELSE NoValue]
      BY <2>2, <3>1, KeptRow
    <3>7. At(Due[t]) \in Row
      BY <3>1, AtType DEF Table
    <3>8. Kept(primary, status, lifecycle, descriptive, t) \in Row
      BY <3>6, <3>7 DEF Row
    <3>9. DescriptiveNumericRow(t) \in Row
      <4>1. Session \in Table(Torrent) /\ (content[t] # Absent => Session[t] \in Row)
        BY <1>1, SessionParts DEF Serialized, Table
      <4>2. Zero \in Value
        BY CompactAssumption
      <4> QED BY <4>1, <4>2 DEF DescriptiveNumericRow, Only, Statics, Row
    <3>10. Expanded[t] = Absent <=> t \notin DOMAIN primary.rows
      BY <3>8, <3>9, MergeRowType, RowIsNotAbsent DEF Expanded
    <3> QED BY <3>3, <3>4, <3>5, <3>10
  <2>3. CASE ~mode.compact
    BY <1>1, <1>3, <2>3 DEF FormInv, FullResponse, SnapshotRow
  <2> QED BY <2>2, <2>3
<1>4. SnapshotIsDue
  BY <1>3 DEF SnapshotIsDue
<1> QED BY <1>1, <1>2, <1>4 DEF CompactConsistent

-----------------------------------------------------------------------------
(* The settings under which nothing is lost: with a sidecar, neither rows  *)
(* of lifecycle fields nor numbers are taken on demand.                    *)
ModesAreSound ==
    \A m \in Modes : m.compact /\ m.sidecar =>
        ~m.numericOnDemand /\ (m.subgroups => ~m.lifecycleOnDemand)

LEMMA SoundModes == ModesAreSound /\ TypeOK => Sound
BY DEF ModesAreSound, TypeOK, Sound

LEMMA InvHolds == ModesAreSound => (Spec => []Inv)
<1> SUFFICES ASSUME ModesAreSound PROVE Spec => []Inv
  OBVIOUS
<1>1. Init => Inv
  BY InitInv
<1>2. Inv => Sound
  BY SoundModes DEF Inv
<1>3. Inv /\ [Next]_vars => Inv'
  BY <1>2, NextInv, StutterInv
<1> QED BY <1>1, <1>3, PTL DEF Spec

(* In every sound form, however many torrents there are, the snapshot      *)
(* holds what the tab was sent or will be sent.                            *)
THEOREM Consistent == ModesAreSound => (Spec => []CompactConsistent)
<1> SUFFICES ASSUME ModesAreSound PROVE Spec => []CompactConsistent
  OBVIOUS
<1>1. Inv => CompactConsistent
  BY InvConsistent, SoundModes DEF Inv
<1> QED BY <1>1, InvHolds, PTL

(* And it implements TorrentViews: the tab cannot tell the forms apart.    *)
THEOREM Implements == ModesAreSound => (Spec => ViewsKept)
<1> SUFFICES ASSUME ModesAreSound PROVE Spec => ViewsKept
  OBVIOUS
<1>1. Init => Views!Init
  BY InitImplements
<1>2. Inv /\ [Next]_vars => [Views!Next]_Views!vars
  BY NextImplements, StutterInv, SoundModes DEF Inv
<1> QED BY <1>1, <1>2, InvHolds, PTL DEF Spec, ViewsKept, Views!Spec
=============================================================================
