------------------------------- MODULE MC_VCache -------------------------------
EXTENDS VCache
=============================================================================
