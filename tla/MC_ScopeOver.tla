----------------------------- MODULE MC_ScopeOver -----------------------------
(* Inputs of Over's parent: up to MaxItems items, each EOS or a batch of   *)
(* one or two rows, each expression of a row flattening to 0 or 1 values.  *)
EXTENDS ScopeOver

CONSTANT MaxItems

MCRows == [1 .. NExprs -> 0 .. 1]
MCBatches == UNION {[1 .. n -> MCRows] : n \in 1 .. 2}
MCItems == MCBatches \cup {EOS}
MCInputs == UNION {[1 .. n -> MCItems] : n \in 0 .. MaxItems}
\* Inputs whose first stream holds a slot with values.
MCInputsFirstNonEmpty ==
    {u \in MCInputs : \E i \in DOMAIN u :
        /\ \A j \in 1 .. i : u[j] # EOS
        /\ \E s \in DOMAIN u[i] : \A e \in 1 .. NExprs : u[i][s][e] > 0}
=============================================================================
