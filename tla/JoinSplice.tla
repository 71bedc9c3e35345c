------------------------------ MODULE JoinSplice ------------------------------
(***************************************************************************)
(* join.RecordSplicer (src/runtime/sam/op/join/join.go): the type of a    *)
(* joined record is the left record's fields followed by the right        *)
(* record's, a right field whose name the left record has being renamed   *)
(* name_2, name_3, ... (fmt.Sprintf("%s_%d")); combined types are cached   *)
(* per (left type, right type).  A field name is a sequence: a base name  *)
(* followed by the numbers Sprintf appends, so "a_2" is <<"a", 2>>.        *)
(* super.Context.LookupTypeRecord refuses a field list with a repeated    *)
(* name; that is an error of Splice, which ends the join's Pull.          *)
(***************************************************************************)
EXTENDS Integers, Sequences, SequencesExt

CONSTANTS
    Names,      \* base field names
    MaxFields,  \* fields of a record type
    ERROR       \* Splice returned an error

VARIABLES
    types,   \* RecordSplicer.types: (left, right) -> combined type
    result   \* the last Splice: its input types and its type, or ERROR

vars == <<types, result>>

FieldNames == {<<n>> : n \in Names} \cup {<<n, 2>> : n \in Names}
\* Record types: sequences of distinct field names.
RecordTypes == {t \in UNION {[1..m -> FieldNames] : m \in 1..MaxFields} : IsInjective(t)}

HasField(t, name) == name \in Range(t)

\* buildType's loop for one right field f: k counts up from 2 while the
\* left type has the current name.
RECURSIVE FreshName(_, _, _, _)
FreshName(left, f, name, k) ==
    IF HasField(left, name) THEN FreshName(left, f, Append(f, k), k + 1) ELSE name

BuildType(left, right) ==
    left \o [i \in DOMAIN right |-> FreshName(left, right[i], right[i], 2)]

\* LookupTypeRecord: a field list with a repeated name is an error.
LookupTypeRecord(fields) == IF IsInjective(fields) THEN fields ELSE ERROR

Init == types = <<>> /\ result = [in |-> <<>>, type |-> <<>>]

\* Splice: combinedType's cache lookup, else buildType and enterType (only
\* when LookupTypeRecord succeeds).
Splice(left, right) ==
    IF <<left, right>> \in DOMAIN types
    THEN /\ result' = [in |-> <<left, right>>, type |-> types[<<left, right>>]]
         /\ UNCHANGED types
    ELSE LET typ == LookupTypeRecord(BuildType(left, right)) IN
         /\ result' = [in |-> <<left, right>>, type |-> typ]
         /\ types' = IF typ = ERROR THEN types ELSE types @@ (<<left, right>> :> typ)

Next == \E l, r \in RecordTypes : Splice(l, r)

Spec == Init /\ [][Next]_vars

\* Splice joins any left record with any right record: every pair of record
\* types, each with distinct field names, has a combined type.
SpliceNeverFails == result.type # ERROR
=============================================================================
