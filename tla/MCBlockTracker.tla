-------------------------- MODULE MCBlockTracker --------------------------
EXTENDS BlockTracker, MCTree
=============================================================================
