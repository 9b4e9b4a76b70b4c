-------------------------- MODULE RaftApplierProofs --------------------------
(***************************************************************************)
(* The applier goroutine delivers in order and never sleeps through a      *)
(* commit, for every bound on the indices.                                 *)
(***************************************************************************)
EXTENDS RaftApplier, TLAPS

-----------------------------------------------------------------------------
(* The operators of the model.                                             *)

LEMMA MinOfTwo ==
    ASSUME NEW a \in Nat, NEW b \in Nat
    PROVE  Min({a, b}) = IF a <= b THEN a ELSE b
<1>1. \E x \in {a, b} : \A y \in {a, b} : x <= y
  OBVIOUS
<1>2. Min({a, b}) \in {a, b} /\ \A y \in {a, b} : Min({a, b}) <= y
  BY <1>1 DEF Min
<1> QED BY <1>2

LEMMA MaxOfTwo ==
    ASSUME NEW a \in Nat, NEW b \in Nat
    PROVE  Max({a, b}) = IF a >= b THEN a ELSE b
<1>1. \E x \in {a, b} : \A y \in {a, b} : x >= y
  OBVIOUS
<1>2. Max({a, b}) \in {a, b} /\ \A y \in {a, b} : Max({a, b}) >= y
  BY <1>1 DEF Max
<1> QED BY <1>2

-----------------------------------------------------------------------------
(* The inductive invariant.  committedIndex may move either way during a   *)
(* batch, so what is delivered is tied to the local copies the goroutine   *)
(* made under the lock, never to committedIndex.                           *)

BatchFollowsApplied ==
    IF pc = "send"
    THEN /\ applyStart = lastApplied + 1
         /\ lastApplied + sent <= applyEnd /\ lastApplied < applyEnd
         /\ delivered = lastApplied + sent
    ELSE delivered = lastApplied

AInv == TypeOK /\ NoLostWakeup /\ BatchFollowsApplied

\* TypeOK, one variable at a time
LEMMA TypeParts ==
    TypeOK <=> /\ committedIndex \in 0..MaxIndex /\ lastApplied \in 0..MaxIndex
               /\ applyEnd \in 0..MaxIndex /\ delivered \in 0..MaxIndex
               /\ sent \in 0..MaxIndex /\ applyStart \in 1..MaxIndex + 1
               /\ pc \in PC /\ dead \in BOOLEAN
BY DEF TypeOK

LEMMA AInit == Init => AInv
<1> SUFFICES ASSUME Init PROVE AInv
  OBVIOUS
<1>1. 0 \in 0..MaxIndex /\ 1 \in 1..MaxIndex + 1
  BY MaxIndexAssumption
<1>2. TypeOK
  BY <1>1, TypeParts DEF Init, PC
<1> QED BY <1>2 DEF Init, AInv, NoLostWakeup, BatchFollowsApplied

\* Both ways to move committedIndex: nobody waits afterwards.
LEMMA CommitStep ==
    ASSUME AInv, committedIndex' \in 0..MaxIndex, Broadcast,
           UNCHANGED <<lastApplied, batch, delivered, dead>>
    PROVE  AInv' /\ delivered' = delivered
<1>1. pc' # "wait" /\ (pc' = "send" <=> pc = "send") /\ pc' \in PC
  BY DEF AInv, TypeOK, PC, Broadcast
<1>2. TypeOK'
  BY <1>1 DEF AInv, TypeOK, batch
<1> QED BY <1>1, <1>2 DEF AInv, NoLostWakeup, BatchFollowsApplied, batch

LEMMA LeaderCommitsStep ==
    ASSUME AInv, LeaderCommits
    PROVE  AInv' /\ delivered' = delivered
<1>1. committedIndex' \in 0..MaxIndex
  BY MaxIndexAssumption, TypeParts DEF AInv, LeaderCommits
<1> QED BY <1>1, CommitStep DEF LeaderCommits

LEMMA FollowerCommitsStep ==
    ASSUME AInv, FollowerCommits
    PROVE  AInv' /\ delivered' = delivered
<1>1. PICK leaderCommit \in committedIndex + 1 .. MaxIndex, lastEntry \in 0..MaxIndex :
         committedIndex' = Min({leaderCommit, lastEntry})
  BY DEF FollowerCommits
<1>2. leaderCommit \in Nat /\ lastEntry \in Nat /\ leaderCommit <= MaxIndex
  BY <1>1, MaxIndexAssumption, TypeParts DEF AInv
<1>3. committedIndex' \in 0..MaxIndex
  BY <1>1, <1>2, MinOfTwo, MaxIndexAssumption
<1> QED BY <1>3, CommitStep DEF FollowerCommits

LEMMA LoopTestStep ==
    ASSUME AInv, LoopTest
    PROVE  AInv' /\ delivered' = delivered
BY DEF AInv, TypeOK, PC, NoLostWakeup, BatchFollowsApplied, LoopTest, batch

LEMMA WaitOrCopyStep ==
    ASSUME AInv, WaitOrCopy
    PROVE  AInv' /\ delivered' = delivered
<1>1. CASE NothingToApply /\ pc' = "wait" /\ UNCHANGED batch
  BY <1>1 DEF AInv, TypeOK, PC, NoLostWakeup, BatchFollowsApplied, WaitOrCopy, NothingToApply, batch
<1>2. CASE /\ ~NothingToApply /\ pc' = "send"
           /\ applyStart' = lastApplied + 1 /\ applyEnd' = committedIndex /\ sent' = 0
  <2>1. lastApplied < committedIndex
    BY <1>2, TypeParts, MaxIndexAssumption DEF NothingToApply, AInv
  <2>2. TypeOK'
    BY <1>2, MaxIndexAssumption DEF AInv, TypeOK, PC, WaitOrCopy
  <2>3. BatchFollowsApplied'
    BY <1>2, <2>1, TypeParts, MaxIndexAssumption DEF AInv, BatchFollowsApplied, WaitOrCopy
  <2> QED BY <1>2, <2>2, <2>3 DEF AInv, NoLostWakeup, WaitOrCopy
<1> QED BY <1>1, <1>2 DEF WaitOrCopy

\* A send delivers the index after the last one.
LEMMA SendStep ==
    ASSUME AInv, Send
    PROVE  AInv' /\ delivered' = delivered + 1
<1>1. /\ applyStart = lastApplied + 1 /\ lastApplied + 1 + sent <= applyEnd
      /\ delivered = lastApplied + sent /\ lastApplied < applyEnd
  BY DEF AInv, BatchFollowsApplied, Send
<1>2. lastApplied \in Nat /\ sent \in Nat /\ applyEnd \in 0..MaxIndex
  BY TypeParts, MaxIndexAssumption DEF AInv
<1>3. delivered' \in 0..MaxIndex /\ sent' \in 0..MaxIndex /\ delivered' = delivered + 1
  BY <1>1, <1>2, MaxIndexAssumption DEF Send
<1>4. TypeOK'
  BY <1>3 DEF AInv, TypeOK, Send
<1>5. BatchFollowsApplied'
  BY <1>1, <1>2 DEF BatchFollowsApplied, Send
<1> QED BY <1>3, <1>4, <1>5 DEF AInv, NoLostWakeup, Send

LEMMA AppliedStep ==
    ASSUME AInv, Applied
    PROVE  AInv' /\ delivered' = delivered
<1>1. /\ applyStart = lastApplied + 1 /\ lastApplied + sent <= applyEnd /\ lastApplied < applyEnd
      /\ delivered = lastApplied + sent /\ lastApplied + 1 + sent > applyEnd
  BY DEF AInv, BatchFollowsApplied, Applied
<1>2. lastApplied \in Nat /\ sent \in Nat /\ applyEnd \in 0..MaxIndex /\ applyEnd \in Nat
  BY TypeParts, MaxIndexAssumption DEF AInv
<1>3. lastApplied' = applyEnd /\ delivered = applyEnd
  BY <1>1, <1>2, MaxOfTwo DEF Applied
<1>4. TypeOK'
  BY <1>2, <1>3 DEF AInv, TypeOK, PC, Applied, batch
<1> QED BY <1>3, <1>4 DEF AInv, NoLostWakeup, BatchFollowsApplied, Applied, batch

LEMMA KillStep ==
    ASSUME AInv, Kill
    PROVE  AInv' /\ delivered' = delivered
BY DEF AInv, TypeOK, NoLostWakeup, BatchFollowsApplied, Kill, batch

LEMMA ANext ==
    ASSUME AInv, [Next]_vars
    PROVE  AInv' /\ (delivered' = delivered \/ delivered' = delivered + 1)
<1>1. CASE UNCHANGED vars
  BY <1>1 DEF vars, AInv, TypeOK, NoLostWakeup, BatchFollowsApplied, batch
<1> QED BY <1>1, LeaderCommitsStep, FollowerCommitsStep, LoopTestStep, WaitOrCopyStep,
           SendStep, AppliedStep, KillStep DEF Next, Applier

LEMMA AInvariant == Spec => []AInv
<1>1. AInv /\ [Next]_vars => AInv'
  BY ANext
<1> QED BY AInit, <1>1, PTL DEF Spec

-----------------------------------------------------------------------------
\* The local indices of the goroutine stay within the log: neither a commit index that
\* moves backwards nor a commit during a batch takes them past MaxIndex.
THEOREM TypeCorrect == Spec => []TypeOK
<1>1. AInv => TypeOK
  BY DEF AInv
<1> QED BY <1>1, AInvariant, PTL

\* The goroutine never waits on applyCond while something is committed and not applied:
\* each way to move committedIndex broadcasts under the lock under which the goroutine
\* tests it (raft.go, applyCommittedLogs).
THEOREM WakeupKept == Spec => []NoLostWakeup
<1>1. AInv => NoLostWakeup
  BY DEF AInv
<1> QED BY <1>1, AInvariant, PTL

\* Every message on applyCh has the index after that of the message before it.
THEOREM DeliversInOrder == Spec => InOrder
<1>1. AInv /\ [Next]_vars => [delivered' \in {delivered, delivered + 1}]_vars
  BY ANext
<1> QED BY <1>1, AInvariant, PTL DEF Spec, InOrder

=============================================================================
