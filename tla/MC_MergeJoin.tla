------------------------------ MODULE MC_MergeJoin ------------------------------
EXTENDS MergeJoin

\* An ascending merge with null keys and a descending one without.
MCOrdersChecked == {<<FALSE, TRUE>>, <<TRUE, FALSE>>}

\* A descending merge with null keys.
MCOrdersDescNulls == {<<TRUE, TRUE>>}
=============================================================================
