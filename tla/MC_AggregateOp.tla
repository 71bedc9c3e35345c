--------------------------- MODULE MC_AggregateOp ---------------------------
(* Model values for AggregateOp: an int and a string secondary key with the *)
(* same bytes, so that only the key type tells their groups apart.          *)
EXTENDS AggregateOp

MCSecVals == << [t |-> "int", b |-> "1"], [t |-> "string", b |-> "1"] >>
=============================================================================
