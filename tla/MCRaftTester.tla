---------------------------- MODULE MCRaftTester ----------------------------
(* RaftTester for TLC. *)
EXTENDS RaftTester

MCPeer == 0..(N - 1)
MCEndName == (0..(N - 1)) \X (1..MaxGen) \X (0..(N - 1))
MCServer == 1..MaxGen

=============================================================================
