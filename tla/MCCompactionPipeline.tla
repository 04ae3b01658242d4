------------------------ MODULE MCCompactionPipeline ------------------------
EXTENDS CompactionPipeline

\* A log of n health entries, and one of n resonance entries.
Entries(n) == [i \in 1..n |-> i % 3]
Reports(n) == [i \in 1..n |-> <<i % 2 = 0, i % 3 = 0>>]

Prune(s, h, r, retain, chains_valid, cond) ==
    [spsf |-> Entries(s), health |-> Entries(h), resonance |-> Reports(r),
     retain |-> retain, chains_valid |-> chains_valid, cond |-> cond]

\* Every joint condition, with and without broken chains, below and above
\* each threshold, and both sides of the ceiling.
MCPruneInputs == {
    Prune(1, 1, 1, 2, TRUE, 0),      \* nothing to prune: optimal
    Prune(3, 2, 2, 1, TRUE, 1),      \* 4 pruned: nominal
    Prune(2, 1, 1, 0, FALSE, 1),     \* 4 pruned, chains broken: critical grade
    Prune(3, 1, 1, 1, FALSE, 3),     \* 2 pruned, chains broken: degraded
    Prune(4, 3, 2, 0, TRUE, 4) }     \* 9 pruned in an emergency: past the ceiling

MCGossipInputs == {
    [class |-> 0, delivered |-> 2, missed |-> 0, chains_valid |-> TRUE],
    [class |-> 0, delivered |-> 0, missed |-> 3, chains_valid |-> TRUE],
    [class |-> 1, delivered |-> 5, missed |-> 1, chains_valid |-> TRUE],
    [class |-> 0, delivered |-> 1, missed |-> 0, chains_valid |-> FALSE],
    [class |-> 2, delivered |-> 9, missed |-> 1, chains_valid |-> TRUE] }
=============================================================================
