---------------------------- MODULE MC_ObjectScan ----------------------------
(* Model values for ObjectScan are given in the .cfg files.                *)
EXTENDS ObjectScan
=============================================================================
