---------------------------- MODULE MC_QueryRegistry ----------------------------
EXTENDS QueryRegistry
=============================================================================
