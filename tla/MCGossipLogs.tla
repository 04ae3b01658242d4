---------------------------- MODULE MCGossipLogs ----------------------------
EXTENDS GossipLogs

\* Zero, one, and values on both sides of every threshold that is compared
\* with a count; with 100 and 1000 as wholes they reach every percentage
\* threshold from both sides.  U32Max saturates sums and wraps shares.
MCCounts == {0, 1, 9, 10, 24, 75, 100, 499, 500, 1000, U32Max}
MCFewCounts == {0, 15, 60, U32Max}
=============================================================================
