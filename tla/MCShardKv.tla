----------------------------- MODULE MCShardKv -----------------------------
(* ShardKv for TLC. *)
EXTENDS ShardKv

MCKey == {<<>>, <<3>>}
MCServerName == (Gid \X (1..N)) \cup ({0} \X (1..NCtl))
MCServer == 1..MaxGen
\* No configuration, and shard 1 with either group
MCConfigs ==
    {[Shards |-> [s \in 0..(NShards - 1) |-> 0], Groups |-> {}]} \cup
    {[Shards |-> [s \in 0..(NShards - 1) |-> IF s = 1 THEN g ELSE 0], Groups |-> Gid] : g \in Gid}

=============================================================================
