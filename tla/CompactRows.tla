----------------------------- MODULE CompactRows -----------------------------
(***************************************************************************)
(* How a row of a torrent is packed into bytes and read back, for the      *)
(* experimental compact snapshot.  A packed row has no field names: its    *)
(* i-th entry belongs to the i-th field of a list (specs), and a field     *)
(* that has the default of its list is left out.  Texts that several       *)
(* torrents share are kept once, in a pool.                                *)
(***************************************************************************)
EXTENDS MaindataDelta, Naturals, Sequences, FiniteSets, SequencesExt

CONSTANTS
    FieldOrder,     \* compactTorrentFieldSpecs(): every field, in order
    TypeOf,         \* how a field is written: "text", "int", ...
    Garbled         \* what is read from bytes written as something else

(* The lists of fields are parts of the whole list, in its order.          *)
Specs(fields) == SelectSeq(FieldOrder, LAMBDA f : f \in fields)

ASSUME GarbledIsNoValue == Garbled \notin Value

(* The whole list has every field, so each list has what it is made for.   *)
ASSUME ListsAreComplete ==
    \A fields \in SUBSET Field :
        /\ Specs(fields) \in Seq(fields)
        /\ \A f \in fields : \E i \in DOMAIN Specs(fields) : Specs(fields)[i] = f

(* What is known of a set of rows: a default and a pool for each entry.    *)
NoCodec == [defaults |-> <<>>, pools |-> <<>>]

(* QList::value(): a list that is too short yields an empty item.          *)
DefaultAt(codec, i) ==
    IF i \in DOMAIN codec.defaults THEN codec.defaults[i] ELSE NoValue
PoolAt(codec, i) ==
    IF i \in DOMAIN codec.pools THEN codec.pools[i] ELSE <<>>

-----------------------------------------------------------------------------
(* How often the rows of a table have the value v in field f.              *)
Count(table, f, v) ==
    Cardinality({t \in DOMAIN table : table[t] # Absent /\ table[t][f] = v})

(* accumulateCompactTorrentFieldDefaults: a most frequent value; which one *)
(* of several depends on the order in which a hash lists the rows.         *)
Defaults(table, f) ==
    LET used == {v \in Value : Count(table, f, v) > 0}
    IN  IF used = {} THEN {NoValue}
        ELSE {v \in used : \A w \in used : Count(table, f, w) <= Count(table, f, v)}

(* accumulate- and finalizeCompactTorrentStringPools: the other texts that *)
(* occur at least twice.  Their order is by frequency, then by the text;   *)
(* only the same order at both ends matters.                               *)
Pool(table, f, default) ==
    IF TypeOf[f] # "text" THEN <<>>
    ELSE SetToSeq({v \in Value : v # default /\ Count(table, f, v) > 1})

(* buildCompactTorrentFieldDefaults and the pools of prepareCompactRowSet. *)
Codecs(table, specs, pooled) ==
    {[defaults |-> ds,
      pools    |-> IF pooled
                   THEN [i \in DOMAIN specs |-> Pool(table, specs[i], ds[i])]
                   ELSE <<>>] :
        ds \in {d \in [DOMAIN specs -> Value \union {NoValue}] :
                   \A i \in DOMAIN specs : d[i] \in Defaults(table, specs[i])}}

-----------------------------------------------------------------------------
Skipped == [kind |-> "skipped"]

PackField(v, default, pool, type) ==
    IF v = NoValue \/ v = default THEN Skipped
    ELSE IF type = "text" /\ v \in {pool[k] : k \in DOMAIN pool}
    THEN [kind |-> "pooled", type |-> type,
          index |-> CHOOSE k \in DOMAIN pool : pool[k] = v]
    ELSE [kind |-> "inline", type |-> type, value |-> v]

(* compactTorrentRow()                                                     *)
PackRow(row, specs, codec) ==
    [i \in DOMAIN specs |->
        PackField(row[specs[i]], DefaultAt(codec, i), PoolAt(codec, i), TypeOf[specs[i]])]

(* One mistake in the types shifts all that is read after it.              *)
ReadAsWritten(packed, specs, i) ==
    \A j \in 1 .. i : packed[j] = Skipped \/ packed[j].type = TypeOf[specs[j]]

UnpackField(entry, default, pool) ==
    CASE entry.kind = "skipped" -> default
      [] entry.kind = "inline"  -> entry.value
      [] entry.kind = "pooled"  -> IF entry.index \in DOMAIN pool
                                   THEN pool[entry.index] ELSE Garbled

(* expandCompactTorrentRow(): the longer of the row and the list is cut.   *)
UnpackRow(packed, specs, codec) ==
    LET entries == DOMAIN packed \intersect DOMAIN specs
        read(i) == IF ReadAsWritten(packed, specs, i)
                   THEN UnpackField(packed[i], DefaultAt(codec, i), PoolAt(codec, i))
                   ELSE Garbled
    IN  [f \in Field |-> IF \E i \in entries : specs[i] = f
                         THEN read(CHOOSE i \in entries : specs[i] = f)
                         ELSE NoValue]
=============================================================================
