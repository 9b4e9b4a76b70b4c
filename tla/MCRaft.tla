------------------------------- MODULE MCRaft -------------------------------
(* Instances of Raft for TLC: the peers, commands and calls are interchangeable. *)
EXTENDS Raft, TLC

CONSTANTS
    MaxVoteCalls,  \* bound on the RequestVote calls under way (an election makes N-1)
    MaxGoroutines  \* bound on the pairs of peers with a replication goroutine pending

Symmetry == Permutations(Server) \cup Permutations(Call) \cup Permutations(Command)

Bounds ==
    /\ Cardinality(rvReq) + Cardinality(rvRep) <= MaxVoteCalls
    /\ Cardinality({p \in Server \X Server : spawned[p[1]][p[2]] > 0}) <= MaxGoroutines

=============================================================================
