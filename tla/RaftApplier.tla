---------------------------- MODULE RaftApplier ----------------------------
(***************************************************************************)
(* The applier goroutine of one peer in full: applyCommittedLogs of        *)
(* raft/raft.go with its condition variable, beside the handlers that move *)
(* committedIndex and Broadcast, and Kill.  Module Raft has the same loop  *)
(* as ApplyCopy and ApplySend, without the waiting.                        *)
(***************************************************************************)
EXTENDS Integers, FiniteSetsExt

CONSTANT MaxIndex \* bound on log indices

ASSUME MaxIndexAssumption == MaxIndex \in Nat

VARIABLES
    committedIndex, lastApplied,
    applyStart, applyEnd, \* local variables: the batch being sent
    sent,       \* how much of it has been sent
    delivered,  \* index of the last message read from applyCh
    pc,         \* where the goroutine is
    dead        \* set by Kill

batch == <<applyStart, applyEnd, sent>>
vars == <<committedIndex, lastApplied, batch, delivered, pc, dead>>

\* "top": before the killed() test of the loop; "lock": about to take rf.mu;
\* "wait": inside applyCond.Wait(), not woken; "send": outside the lock, sending
PC == {"top", "lock", "wait", "send", "done"}

Init ==
    /\ committedIndex = 0 /\ lastApplied = 0 /\ delivered = 0
    /\ applyStart = 1 /\ applyEnd = 0 /\ sent = 0
    /\ pc = "top"
    /\ dead = FALSE

\* Fault: no goroutine waiting on the condition is woken
NoBroadcast == UNCHANGED pc

\* applyCond.Broadcast()
Broadcast == pc' = IF pc = "wait" THEN "lock" ELSE pc

\* checkAndCommitLogs raises the index
LeaderCommits ==
    /\ \E n \in committedIndex + 1 .. MaxIndex : committedIndex' = n
    /\ Broadcast
    /\ UNCHANGED <<lastApplied, batch, delivered, dead>>

\* AppendEntries with leaderCommit past the index: the new index is cut to the last
\* entry, which a truncated log may have below the old index
FollowerCommits ==
    /\ \E leaderCommit \in committedIndex + 1 .. MaxIndex, lastEntry \in 0..MaxIndex :
         committedIndex' = Min({leaderCommit, lastEntry})
    /\ Broadcast
    /\ UNCHANGED <<lastApplied, batch, delivered, dead>>

\* for !rf.killed()
LoopTest ==
    /\ pc = "top"
    /\ pc' = IF dead THEN "done" ELSE "lock"
    /\ UNCHANGED <<committedIndex, lastApplied, batch, delivered, dead>>

\* The test of the inner loop
NothingToApply == lastApplied >= committedIndex

\* The inner loop: the test is made with the lock held, and repeated after a wake-up
WaitOrCopy ==
    /\ pc = "lock"
    /\ \/ NothingToApply /\ pc' = "wait" /\ UNCHANGED batch
       \/ /\ ~NothingToApply /\ pc' = "send"
          /\ applyStart' = lastApplied + 1 /\ applyEnd' = committedIndex /\ sent' = 0
    /\ UNCHANGED <<committedIndex, lastApplied, delivered, dead>>

\* Fault: the loop over the batch runs once too often
SendOnePast ==
    /\ pc = "send"
    /\ applyStart + sent <= applyEnd + 1
    /\ delivered' = applyStart + sent
    /\ sent' = sent + 1
    /\ UNCHANGED <<committedIndex, lastApplied, applyStart, applyEnd, pc, dead>>

\* One send on applyCh
Send ==
    /\ pc = "send"
    /\ applyStart + sent <= applyEnd
    /\ delivered' = applyStart + sent
    /\ sent' = sent + 1
    /\ UNCHANGED <<committedIndex, lastApplied, applyStart, applyEnd, pc, dead>>

\* Fault: lastApplied jumps to the commit index of now, not of the copy
AppliedToCommit ==
    /\ pc = "send"
    /\ applyStart + sent > applyEnd
    /\ lastApplied' = Max({lastApplied, committedIndex})
    /\ pc' = "top"
    /\ UNCHANGED <<committedIndex, batch, delivered, dead>>

\* After the last send
Applied ==
    /\ pc = "send"
    /\ applyStart + sent > applyEnd
    /\ lastApplied' = Max({lastApplied, applyEnd})
    /\ pc' = "top"
    /\ UNCHANGED <<committedIndex, batch, delivered, dead>>

Kill ==
    /\ dead' = TRUE
    /\ UNCHANGED <<committedIndex, lastApplied, batch, delivered, pc>>

Applier == LoopTest \/ WaitOrCopy \/ Send \/ Applied

Next == LeaderCommits \/ FollowerCommits \/ Applier \/ Kill

\* The goroutine runs whenever it is not blocked, and the tester reads applyCh
Spec == Init /\ [][Next]_vars /\ WF_vars(Applier)

-----------------------------------------------------------------------------
\* Type correctness.
TypeOK ==
    /\ {committedIndex, lastApplied, applyEnd, delivered, sent} \subseteq 0..MaxIndex
    /\ applyStart \in 1..MaxIndex + 1
    /\ pc \in PC
    /\ dead \in BOOLEAN

\* No lost wake-up: the goroutine sleeps only while there is nothing to apply, so
\* every way to raise committedIndex broadcasts.
NoLostWakeup == pc = "wait" => lastApplied >= committedIndex

\* The messages on applyCh have consecutive indices, although committedIndex moves,
\* backwards too, while a batch is being sent.
InOrder == [][delivered' \in {delivered, delivered + 1}]_vars

\* What is committed and stays committed is applied unless the peer is killed.
CommittedIsApplied ==
    \A n \in 1..MaxIndex :
        committedIndex >= n ~> lastApplied >= n \/ committedIndex < n \/ dead

=============================================================================
