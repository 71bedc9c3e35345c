------------------------------- MODULE Aggregator -------------------------------
(***************************************************************************)
(* The Aggregator of src/unnamed/part_000 (package aggregate), as pure     *)
(* operators over a record of its fields; the Op driver (AggregateOp.tla)  *)
(* calls them from the run goroutine, which alone touches this state.      *)
(* It keeps a hash table keyed by the flat key bytes followed by the id of *)
(* the key type vector, spills it as a sorted run when it holds Limit      *)
(* rows, and merges the runs (k-way, by the full key) to produce results;  *)
(* on sorted input it emits the groups whose primary key is complete.      *)
(*                                                                         *)
(* Data are abstracted to what the properties tell apart.  A grouping key  *)
(* is a pair <<primary, secondary>>: the primary is an integer (the first  *)
(* key, which orders a sorted input), the secondary is a typed value       *)
(* [t |-> type, b |-> bytes] and two secondaries may share their bytes     *)
(* under different types.  The aggregate function is count(): a row's     *)
(* state, a spilled partial and an output value are counts.                *)
(***************************************************************************)
EXTENDS Integers, Sequences, FiniteSets, SequencesExt

CONSTANTS
    Prims,             \* values of the primary key, ordered by <
    SecVals,           \* typed secondary key values, in comparator order
    QUIET,             \* the secondary key expression evaluates to quiet
    NIL,               \* a nil pointer, or no value
    Limit,             \* Aggregator.limit: table rows before a spill
    BatchLen,          \* op.BatchLen: records per batch read from spills
    InputDir,          \* Aggregator.inputDir: 0 unsorted, 1 ascending
    KeyRenamed,        \* keyExprs[0] does not read back the output field
    MaxValues,         \* values per upstream substream
    MaxBatchSize,      \* values per upstream batch
    MaxStreams,        \* EOS-delimited substreams sent by the upstream
    MaxBatches,        \* upstream batches in a behaviour
    MaxUpstreamErrors, \* errors returned by the upstream Pull
    MaxSpillFailures,  \* spiller.Spill calls that fail
    CanCancel          \* the query context may be cancelled at any time

ASSUME /\ InputDir \in {0, 1}
       /\ Limit \in Nat \ {0}
       /\ BatchLen \in Nat \ {0}
       /\ KeyRenamed \in BOOLEAN /\ CanCancel \in BOOLEAN

Secs == Range(SecVals)
Key == Prims \X Secs                   \* a typed key tuple
Input == Prims \X (Secs \cup {QUIET})  \* what the key expressions yield
SecRank(s) == CHOOSE i \in DOMAIN SecVals : SecVals[i] = s

\* keysComparator: all keys, ascending (NewAggregator builds it from keyRefs).
KeyLess(k1, k2) ==
    \/ k1[1] < k2[1]
    \/ k1[1] = k2[1] /\ SecRank(k1[2]) < SecRank(k2[2])

\* updateMaxTableKey / updateMaxSpillKey: keep the larger under valueCompare.
UpdateMax(m, v) == IF m = NIL \/ v > m THEN v ELSE m

\* keyExprs[0] evaluated against an output (spilled) record; NIL is an error
\* value, which is what a key expression that is not the bare output field
\* yields on a record that only has the output fields.
EvalKey0(rec) == IF KeyRenamed THEN NIL ELSE rec.key[1]

\* super.TypeVectorTable.Lookup: the id of a type vector, interned on a miss.
LookupType(kt, types) ==
    IF \E i \in DOMAIN kt : kt[i] = types
    THEN CHOOSE i \in DOMAIN kt : kt[i] = types
    ELSE Len(kt) + 1
InternType(kt, types) ==
    IF \E i \in DOMAIN kt : kt[i] = types THEN kt ELSE Append(kt, types)

KeyTypes(s) == <<"int", s.t>>

\* Mutant: the table key without the type-vector id.
EncodeKeyUntyped(p, s, id) == <<p, s.b, 0>>

\* The table key: each key's flat bytes, then uvarint(keyType).
EncodeKey(p, s, id) == <<p, s.b, id>>

EmptyTable == [ek \in {} |-> NIL]
AggInit == [keyTypes |-> <<>>, table |-> EmptyTable, maxTableKey |-> NIL,
            maxSpillKey |-> NIL, spiller |-> NIL]

\* readTable rebuilds a row's key from the table key bytes and the type
\* vector of row.keyType.
DecodeKey(a, ek) == <<ek[1], [t |-> a.keyTypes[a.table[ek].keyType][2], b |-> ek[2]]>>
TableRows(a, sel) == {[key |-> DecodeKey(a, ek), cnt |-> a.table[ek].cnt] : ek \in sel}

\* readTable: all rows when flushing, else the rows whose primary key is
\* below maxTableKey; the rows returned are deleted from the table.
ReadTable(a, flush) ==
    LET sel == {ek \in DOMAIN a.table :
                   flush \/ a.table[ek].groupval < a.maxTableKey}
    IN [agg  |-> [a EXCEPT !.table = Restrict(a.table, DOMAIN a.table \ sel)],
        rows |-> TableRows(a, sel)]

MaxRow(rows) == CHOOSE r \in rows : \A q \in rows : ~KeyLess(r.key, q.key)

\* spillTable: drain the table into a sorted run appended to the spiller
\* (created on first use); before end of input on sorted input, raise
\* maxSpillKey to keyExprs[0] of the run's last (largest) record.  A failed
\* Spill returns an error after the table has been drained.
SpillTable(a, eof, fail) ==
    LET rt == ReadTable(a, TRUE)
        sp == IF a.spiller = NIL THEN <<>> ELSE a.spiller
    IN IF rt.rows = {} THEN [agg |-> a, err |-> FALSE]
       ELSE LET v == EvalKey0(MaxRow(rt.rows))
            IN [agg |-> [rt.agg EXCEPT
                           !.spiller = IF fail THEN sp ELSE Append(sp, rt.rows),
                           !.maxSpillKey =
                               IF ~fail /\ ~eof /\ InputDir # 0 /\ v # NIL
                               THEN UpdateMax(@, v) ELSE @],
                err |-> fail]

\* Consume: evaluate the keys in order (the primary raises maxTableKey in
\* sorted mode before the secondary is evaluated), drop a quiet key, look the
\* encoded key up, spill a full table before inserting a new row, count.
Consume(a, v, fail) ==
    LET p    == v[1]
        s    == v[2]
        a1   == IF InputDir # 0
                THEN [a EXCEPT !.maxTableKey = UpdateMax(@, p)] ELSE a
        prim == IF InputDir # 0 THEN a1.maxTableKey ELSE NIL
    IN IF s = QUIET THEN [agg |-> a1, err |-> FALSE]
       ELSE LET kt == LookupType(a1.keyTypes, KeyTypes(s))
                a2 == [a1 EXCEPT !.keyTypes = InternType(@, KeyTypes(s))]
                ek == EncodeKey(p, s, kt)
                sp == IF ek \notin DOMAIN a2.table
                         /\ Cardinality(DOMAIN a2.table) >= Limit
                      THEN SpillTable(a2, FALSE, fail)
                      ELSE [agg |-> a2, err |-> FALSE]
                t  == sp.agg.table
            IN IF sp.err THEN sp
               ELSE [agg |-> [sp.agg EXCEPT !.table =
                        IF ek \in DOMAIN t
                        THEN [t EXCEPT ![ek].cnt = @ + 1]
                        ELSE (ek :> [keyType |-> kt, groupval |-> prim, cnt |-> 1]) @@ t],
                     err |-> FALSE]

\* The spiller's merged view: runs are sets of rows, one row per key.
SpillKeys(sp) == {r.key : r \in UNION Range(sp)}
MinSpillKey(sp) == CHOOSE k \in SpillKeys(sp) : \A j \in SpillKeys(sp) : ~KeyLess(j, k)
RunCount(run, k) == IF \E r \in run : r.key = k THEN (CHOOSE r \in run : r.key = k).cnt ELSE 0
\* nextResultFromSpills: consume the partials of every run for the smallest key.
SpillCount(sp, k) == SumFunction([i \in DOMAIN sp |-> RunCount(sp[i], k)])
DropKey(sp, k) == [i \in DOMAIN sp |-> {r \in sp[i] : r.key # k}]

\* readSpills: up to BatchLen merged records; before end of input stop at
\* the first record whose keyExprs[0] is not an error and is >= maxSpillKey.
RECURSIVE ReadSpillsLoop(_, _, _, _)
ReadSpillsLoop(a, eof, sp, recs) ==
    IF Len(recs) >= BatchLen \/ SpillKeys(sp) = {} THEN [sp |-> sp, recs |-> recs]
    ELSE LET k  == MinSpillKey(sp)
             kv == EvalKey0([key |-> k])
         IN IF ~eof /\ InputDir # 0 /\ kv # NIL /\ kv >= a.maxSpillKey
            THEN [sp |-> sp, recs |-> recs]
            ELSE ReadSpillsLoop(a, eof, DropKey(sp, k),
                                Append(recs, [key |-> k, cnt |-> SpillCount(sp, k)]))

\* A result is [agg, orders, err]: orders is the set of record sequences the
\* batch may hold (Go map iteration order is unspecified); {} is a nil batch.
ReadSpills(a, eof) ==
    IF ~eof /\ InputDir = 0 THEN [agg |-> a, orders |-> {}, err |-> FALSE]
    ELSE LET r == ReadSpillsLoop(a, eof, a.spiller, <<>>)
         IN [agg |-> [a EXCEPT !.spiller = r.sp],
             orders |-> IF r.recs = <<>> THEN {} ELSE {r.recs},
             err |-> FALSE]

\* Mutant: at end of input the spills are merged without first spilling the
\* table.
NextResultNoFinalSpill(a, eof, fail) ==
    IF a.spiller = NIL
    THEN LET rt == ReadTable(a, eof)
         IN [agg |-> rt.agg, err |-> FALSE,
             orders |-> IF rt.rows = {} THEN {} ELSE SetToSeqs(rt.rows)]
    ELSE ReadSpills(a, eof)

\* nextResult: the table alone until the first spill; then, at end of
\* input, spill the table and merge; before it, merge what is complete.
NextResult(a, eof, fail) ==
    IF a.spiller = NIL
    THEN LET rt == ReadTable(a, eof)
         IN [agg |-> rt.agg, err |-> FALSE,
             orders |-> IF rt.rows = {} THEN {} ELSE SetToSeqs(rt.rows)]
    ELSE IF ~eof THEN ReadSpills(a, FALSE)
    ELSE LET st == SpillTable(a, TRUE, fail)
         IN IF st.err THEN [agg |-> st.agg, orders |-> {}, err |-> TRUE]
            ELSE ReadSpills(st.agg, TRUE)
=============================================================================
