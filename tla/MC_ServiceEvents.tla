---------------------------- MODULE MC_ServiceEvents ----------------------------
EXTENDS ServiceEvents
=============================================================================
