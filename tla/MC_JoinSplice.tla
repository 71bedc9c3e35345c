------------------------------ MODULE MC_JoinSplice ------------------------------
EXTENDS JoinSplice
=============================================================================
