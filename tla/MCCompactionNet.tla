--------------------------- MODULE MCCompactionNet --------------------------
(* The compaction side explores changes to two entries and one seal that     *)
(* travels to one peer, its gossip twin two frames under way to two peers.   *)
EXTENDS CompactionNet

SmallBound ==
    [compaction |-> [epochs |-> 2, seals |-> 1, tampers |-> 2, events |-> 2,
                    peers |-> {1}],
     gossip     |-> [epochs |-> 2, seals |-> 2, tampers |-> 0, events |-> 2,
                    peers |-> {1, 2}]]
=============================================================================
