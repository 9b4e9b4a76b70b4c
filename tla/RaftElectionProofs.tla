------------------------- MODULE RaftElectionProofs -------------------------
(***************************************************************************)
(* Election safety of Raft for every number of peers, terms, crashes and   *)
(* calls, the terms of log entries, and the logs under one leader.         *)
(*                                                                         *)
(* A vote is held by the candidate from the moment the voter decides on it *)
(* until the candidate leaves the election: first in a granted reply on    *)
(* its way, then in voteCounts.  The argument: the voter's saved state     *)
(* agrees with its memory (DurableState), so it never takes a vote back    *)
(* (VoteStep); therefore one voter's vote of one term is held by one       *)
(* candidate (HoldsUnique), each voter is counted once (NotCounted), and   *)
(* two leaders of one term would share a voter.                            *)
(*                                                                         *)
(* An entry is written by a leader and its term has therefore been reached *)
(* by a majority, wherever the entry is copied to afterwards.              *)
(*                                                                         *)
(* The last section is about the behaviours in which only one peer ever    *)
(* leads, in any number of terms and lives: every entry that is logged,    *)
(* sent or applied anywhere is in its log.                                 *)
(***************************************************************************)
EXTENDS RaftProofs

-----------------------------------------------------------------------------
(* Durability: a crash brings back exactly the state in memory.            *)

\* A peer that calls persist() in a step, the others keeping still, is durable.
LEMMA PersistDurable ==
    ASSUME TypeOK, DurableState, NEW s \in Server, persist(s),
           \A t \in Server \ {s} : /\ currentTerm'[t] = currentTerm[t]
                                   /\ votedFor'[t] = votedFor[t]
                                   /\ log'[t] = log[t]
    PROVE  DurableState'
<1> SUFFICES ASSUME NEW t \in Server
             PROVE  ReadPersist(raftstate'[t]) =
                      [currentTerm |-> currentTerm'[t], votedFor |-> votedFor'[t], log |-> log'[t]]
  BY DEF DurableState
<1> DEFINE x == [currentTerm |-> currentTerm'[s], votedFor |-> votedFor'[s], log |-> log'[s]]
<1>1. raftstate' = [raftstate EXCEPT ![s] = <<x>>]
  BY DEF persist
<1>2. CASE t = s
  <2>1. raftstate'[t] = <<x>>
    BY <1>1, <1>2 DEF TypeOK
  <2>2. ReadPersist(<<x>>) = x
    BY DEF ReadPersist
  <2> QED BY <1>2, <2>1, <2>2
<1>3. CASE t # s
  <2>1. raftstate'[t] = raftstate[t]
    BY <1>1, <1>3 DEF TypeOK
  <2> QED BY <1>3, <2>1 DEF DurableState
<1> QED BY <1>2, <1>3

LEMMA UnchangedDurable ==
    ASSUME DurableState, UNCHANGED <<currentTerm, votedFor, log, raftstate>>
    PROVE  DurableState'
BY DEF DurableState

\* A peer that starts again from data holds what data says.
LEMMA RebootDurable ==
    ASSUME TypeOK, DurableState, NEW s \in Server, NEW data \in Seq(Saved), NEW done,
           Reboot(s, data, done)
    PROVE  DurableState'
<1> SUFFICES ASSUME NEW t \in Server
             PROVE  ReadPersist(raftstate'[t]) =
                      [currentTerm |-> currentTerm'[t], votedFor |-> votedFor'[t], log |-> log'[t]]
  BY DEF DurableState
<1> DEFINE x == ReadPersist(data)
<1>1. x \in Saved
  BY ReadPersistType
<1>2. /\ raftstate' = [raftstate EXCEPT ![s] = data]
      /\ currentTerm' = [currentTerm EXCEPT ![s] = x.currentTerm]
      /\ votedFor' = [votedFor EXCEPT ![s] = x.votedFor]
      /\ log' = [log EXCEPT ![s] = x.log]
  BY DEF Reboot
<1>3. CASE t = s
  <2>1. ReadPersist(raftstate'[t]) = x
    BY <1>2, <1>3 DEF TypeOK
  <2> HIDE DEF x
  <2>2. /\ currentTerm'[t] = x.currentTerm /\ votedFor'[t] = x.votedFor /\ log'[t] = x.log
    BY <1>2, <1>3 DEF TypeOK
  <2>3. x = [currentTerm |-> x.currentTerm, votedFor |-> x.votedFor, log |-> x.log]
    BY <1>1 DEF Saved
  <2> QED BY <2>1, <2>2, <2>3
<1>4. CASE t # s
  BY <1>2, <1>4 DEF DurableState, TypeOK
<1> QED BY <1>3, <1>4

LEMMA DurableInit == Init => DurableState
BY DEF Init, DurableState, ReadPersist

LEMMA DurableNext == TInv /\ DurableState /\ [Next]_vars => DurableState'
<1> SUFFICES ASSUME TInv, DurableState, [Next]_vars PROVE DurableState'
  OBVIOUS
<1>0. TypeOK
  BY DEF TInv
<1>1. ASSUME NEW s \in Server, StartElection(s) PROVE DurableState'
  <2>1. persist(s) /\ UNCHANGED log
    BY <1>1 DEF StartElection, logVars
  <2>2. \A t \in Server \ {s} : currentTerm'[t] = currentTerm[t] /\ votedFor'[t] = votedFor[t]
    BY <1>0, <1>1 DEF StartElection, TypeOK
  <2> QED BY <1>0, <2>1, <2>2, PersistDurable
<1>2. ASSUME NEW m \in rvReq, RequestVote(m) PROVE DurableState'
  <2>0. m.dst \in Server
    BY <1>0 DEF TypeOK, RVArgs
  <2>1. UNCHANGED log
    BY <1>2 DEF RequestVote, logVars
  <2>2. \A t \in Server \ {m.dst} : currentTerm'[t] = currentTerm[t] /\ votedFor'[t] = votedFor[t]
    BY <1>0, <1>2 DEF RequestVote, TypeOK
  <2>3. CASE persist(m.dst)
    BY <1>0, <2>0, <2>1, <2>2, <2>3, PersistDurable
  <2>4. CASE UNCHANGED <<currentTerm, votedFor, raftstate>>
    BY <2>1, <2>4, UnchangedDurable
  <2>5. persist(m.dst) \/ UNCHANGED <<currentTerm, votedFor, raftstate>>
    BY <1>0, <1>2, <2>0 DEF RequestVote, TypeOK
  <2> QED BY <2>3, <2>4, <2>5
<1>3. ASSUME NEW s \in Server, NEW term, convertToFollower(s, term), persist(s),
             \A t \in Server \ {s} : log'[t] = log[t]
      PROVE  DurableState'
  <2>1. \A t \in Server \ {s} : currentTerm'[t] = currentTerm[t] /\ votedFor'[t] = votedFor[t]
    BY <1>0, <1>3 DEF convertToFollower, TypeOK
  <2> QED BY <1>0, <1>3, <2>1, PersistDurable
<1>4. ASSUME NEW r \in rvRep, HandleRequestVoteReply(r) PROVE DurableState'
  <2> DEFINE s == r.args.CandidateId
  <2>0. s \in Server
    BY <1>0 DEF TypeOK, RVReply, RVArgs
  <2>1. UNCHANGED log
    BY <1>4 DEF HandleRequestVoteReply, logVars
  <2>2. CASE VoteReplyNewerTerm(s, r)
    BY <1>3, <2>0, <2>1, <2>2 DEF VoteReplyNewerTerm
  <2>3. CASE VoteReplyIgnored(s, r) \/ VoteReplyGranted(s, r)
    BY <2>1, <2>3, UnchangedDurable DEF VoteReplyIgnored, VoteReplyGranted, electionVars
  <2> QED BY <1>4, <2>2, <2>3 DEF HandleRequestVoteReply
<1>5. ASSUME NEW s \in Server, NEW c \in Command, Start(s, c) PROVE DurableState'
  <2>1. persist(s) /\ UNCHANGED <<currentTerm, votedFor>>
    BY <1>5 DEF Start, electionVars
  <2>2. \A t \in Server \ {s} : log'[t] = log[t]
    BY <1>0, <1>5 DEF Start, TypeOK
  <2> QED BY <1>0, <2>1, <2>2, PersistDurable
<1>6. ASSUME NEW m \in aeReq, AppendEntries(m) PROVE DurableState'
  <2> DEFINE s == m.dst
  <2>0. s \in Server /\ m.Term \in Nat /\ currentTerm[s] \in Nat
    <3>1. m \in AEArgs
      BY <1>0 DEF TypeOK
    <3> QED BY <1>0, <3>1 DEF TypeOK, AEArgs
  <2>1. /\ \A t \in Server \ {s} : log'[t] = log[t]
        /\ \/ m.Term > currentTerm[s] /\ convertToFollower(s, m.Term) /\ persist(s)
           \/ UNCHANGED <<currentTerm, votedFor>> /\ persist(s)
           \/ UNCHANGED <<currentTerm, votedFor, log, raftstate>>
    <3>1. CASE AppendRejected(s, m)
      <4>1. UNCHANGED log
        BY <3>1 DEF AppendRejected, logVars
      <4>2. CASE m.Term > currentTerm[s]
        <5>1. ~(m.Term < currentTerm[s])
          BY <2>0, <4>2
        <5> QED BY <3>1, <4>1, <4>2, <5>1 DEF AppendRejected, AdoptTerm
      <4>3. CASE ~(m.Term > currentTerm[s])
        BY <3>1, <4>1, <4>3 DEF AppendRejected, AdoptTerm
      <4> QED BY <4>2, <4>3
    <3>2. CASE AppendAccepted(s, m)
      <4>1. \A t \in Server \ {s} : log'[t] = log[t]
        BY <1>0, <3>2 DEF AppendAccepted, TypeOK
      <4> QED BY <3>2, <4>1 DEF AppendAccepted, AdoptTerm
    <3> QED BY <1>6, <3>1, <3>2 DEF AppendEntries
  <2>2. CASE convertToFollower(s, m.Term) /\ persist(s)
    BY <1>3, <2>0, <2>1, <2>2
  <2>3. CASE UNCHANGED <<currentTerm, votedFor>> /\ persist(s)
    BY <1>0, <2>0, <2>1, <2>3, PersistDurable
  <2>4. CASE UNCHANGED <<currentTerm, votedFor, log, raftstate>>
    BY <2>4, UnchangedDurable
  <2> QED BY <2>1, <2>2, <2>3, <2>4
<1>7. ASSUME NEW r \in aeRep, HandleAppendEntriesReply(r) PROVE DurableState'
  <2> DEFINE s == r.args.LeaderId
  <2>0. s \in Server
    BY <1>0 DEF TypeOK, AEReply, AEArgs
  <2>1. \/ convertToFollower(s, r.Term) /\ UNCHANGED log /\ persist(s)
        \/ UNCHANGED <<currentTerm, votedFor, log, raftstate>>
    BY <1>7 DEF HandleAppendEntriesReply, AppendReplyObsolete, AppendReplyFailure, AppendReplySuccess
  <2> QED BY <1>3, <2>0, <2>1, UnchangedDurable
<1>8. ASSUME NEW s \in Server, Restart(s) PROVE DurableState'
  <2>1. raftstate[s] \in Seq(Saved)
    BY <1>0 DEF TypeOK
  <2> QED BY <1>0, <1>8, <2>1, RebootDurable DEF Restart
<1>9. ASSUME NEW m \in rvReq \cup aeReq, RestartInHandler(m) PROVE DurableState'
  <2> DEFINE x == [currentTerm |-> m.Term, votedFor |-> Nil, log |-> log[m.dst]]
  <2>1. m.dst \in Server /\ m.Term \in Nat
    BY <1>0 DEF TypeOK, RVArgs, AEArgs
  <2>2. x \in Saved
    BY <1>0, <2>1 DEF TypeOK, Saved
  <2>3. Reboot(m.dst, <<x>>, {m})
    BY <1>9 DEF RestartInHandler
  <2> HIDE DEF x
  <2>4. <<x>> \in Seq(Saved)
    BY <2>2
  <2> QED BY <1>0, <2>1, <2>3, <2>4, RebootDurable
<1>10. ASSUME \/ \E s \in Server : Heartbeat(s) \/ ApplyCopy(s) \/ ApplySend(s)
              \/ \E s \in Server : \E t \in Peers(s) : SendAppendEntries(s, t)
              \/ CallFails
              \/ UNCHANGED vars
       PROVE  DurableState'
  <2>1. UNCHANGED <<currentTerm, votedFor, log, raftstate>>
    BY <1>10 DEF Heartbeat, ApplyCopy, ApplySend, SendAppendEntries, CallFails, vars,
                 electionVars, logVars
  <2> QED BY <2>1, UnchangedDurable
<1> QED BY <1>1, <1>2, <1>4, <1>5, <1>6, <1>7, <1>8, <1>9, <1>10 DEF Next

\* Every step keeps memory and disk in agreement: no handler returns, and no reply
\* leaves, before persist().
THEOREM Durable == Spec => []DurableState
BY DurableInit, DurableNext, TypeInvariant, PTL DEF Spec

-----------------------------------------------------------------------------
(* Votes are never taken back.                                             *)

LEMMA RebootVote ==
    ASSUME TypeOK, DurableState, NEW s \in Server, NEW data, NEW done, Reboot(s, data, done),
           \/ data = raftstate[s]
           \/ ReadPersist(data).currentTerm \in Nat /\ ReadPersist(data).currentTerm > currentTerm[s]
    PROVE  VoteStep
<1> SUFFICES ASSUME NEW t \in Server
             PROVE  /\ currentTerm'[t] >= currentTerm[t]
                    /\ currentTerm'[t] = currentTerm[t] /\ votedFor[t] # Nil
                         => votedFor'[t] = votedFor[t]
  BY DEF VoteStep
<1> DEFINE x == ReadPersist(data)
<1>1. /\ currentTerm' = [currentTerm EXCEPT ![s] = x.currentTerm]
      /\ votedFor' = [votedFor EXCEPT ![s] = x.votedFor]
  BY DEF Reboot
<1>2. ASSUME data = raftstate[s] PROVE x.currentTerm = currentTerm[s] /\ x.votedFor = votedFor[s]
  <2>1. ReadPersist(raftstate[s]) =
          [currentTerm |-> currentTerm[s], votedFor |-> votedFor[s], log |-> log[s]]
    BY DEF DurableState
  <2>2. x = ReadPersist(raftstate[s])
    BY <1>2
  <2> HIDE DEF x
  <2> QED BY <2>1, <2>2
<1> HIDE DEF x
<1>3. CASE t = s
  <2>1. /\ currentTerm'[t] = x.currentTerm /\ votedFor'[t] = x.votedFor /\ currentTerm[t] \in Nat
    BY <1>1, <1>3 DEF TypeOK
  <2>2. CASE x.currentTerm = currentTerm[s] /\ x.votedFor = votedFor[s]
    BY <1>3, <2>1, <2>2
  <2>3. CASE x.currentTerm \in Nat /\ x.currentTerm > currentTerm[s]
    BY <1>3, <2>1, <2>3
  <2> QED BY <1>2, <2>2, <2>3 DEF x
<1>4. CASE t # s
  <2>1. currentTerm'[t] = currentTerm[t] /\ votedFor'[t] = votedFor[t] /\ currentTerm[t] \in Nat
    BY <1>1, <1>4 DEF TypeOK
  <2> QED BY <2>1
<1> QED BY <1>3, <1>4

\* The steps that leave a vote alone or move a peer to a new term are fine.
LEMMA VoteCases ==
    ASSUME TypeOK, NEW s \in Server, NEW term \in Nat, NEW vote,
           currentTerm' = [currentTerm EXCEPT ![s] = term],
           votedFor' = [votedFor EXCEPT ![s] = vote],
           \/ term > currentTerm[s]
           \/ term = currentTerm[s] /\ (votedFor[s] = Nil \/ vote = votedFor[s])
    PROVE  VoteStep
<1> SUFFICES ASSUME NEW t \in Server
             PROVE  /\ currentTerm'[t] >= currentTerm[t]
                    /\ currentTerm'[t] = currentTerm[t] /\ votedFor[t] # Nil
                         => votedFor'[t] = votedFor[t]
  BY DEF VoteStep
<1>0. currentTerm[t] \in Nat
  BY DEF TypeOK
<1>1. CASE t = s
  <2>1. currentTerm'[t] = term /\ votedFor'[t] = vote
    BY <1>1 DEF TypeOK
  <2> QED BY <1>0, <1>1, <2>1
<1>2. CASE t # s
  <2>1. currentTerm'[t] = currentTerm[t] /\ votedFor'[t] = votedFor[t]
    BY <1>2 DEF TypeOK
  <2> QED BY <1>0, <2>1
<1> QED BY <1>1, <1>2

LEMMA VoteNext == TInv /\ DurableState /\ [Next]_vars => VoteStep
<1> SUFFICES ASSUME TInv, DurableState, [Next]_vars PROVE VoteStep
  OBVIOUS
<1>0. TypeOK
  BY DEF TInv
<1>1. ASSUME NEW s \in Server, StartElection(s) PROVE VoteStep
  <2>1. currentTerm[s] + 1 \in Nat /\ currentTerm[s] + 1 > currentTerm[s]
    BY <1>0 DEF TypeOK
  <2>2. /\ currentTerm' = [currentTerm EXCEPT ![s] = currentTerm[s] + 1]
        /\ votedFor' = [votedFor EXCEPT ![s] = s]
    BY <1>1 DEF StartElection
  <2> QED BY <1>0, <2>1, <2>2, VoteCases
<1>2. ASSUME NEW m \in rvReq, RequestVote(m) PROVE VoteStep
  <2> DEFINE s == m.dst
             newer == m.Term > currentTerm[s]
             vote == IF newer THEN Nil ELSE votedFor[s]
             grant == m.Term >= currentTerm[s] /\ canVote(vote, m) /\ UpToDate(m, log[s])
             term == IF newer THEN m.Term ELSE currentTerm[s]
             new == IF grant THEN m.CandidateId ELSE vote
  <2>0. s \in Server /\ m.Term \in Nat /\ currentTerm[s] \in Nat
    BY <1>0 DEF TypeOK, RVArgs
  <2>1. /\ currentTerm' = [currentTerm EXCEPT ![s] = term]
        /\ votedFor' = [votedFor EXCEPT ![s] = new]
    BY <1>2 DEF RequestVote
  <2>2. term \in Nat /\ (newer => term > currentTerm[s]) /\ (~newer => term = currentTerm[s])
    BY <2>0
  <2>3. ~newer => votedFor[s] = Nil \/ new = votedFor[s]
    BY DEF canVote
  <2> HIDE DEF term, new, newer
  <2> QED BY <1>0, <2>0, <2>1, <2>2, <2>3, VoteCases
<1>3. ASSUME NEW s \in Server, NEW term \in Nat, term > currentTerm[s], convertToFollower(s, term)
      PROVE  VoteStep
  BY <1>0, <1>3, VoteCases DEF convertToFollower
<1>4. ASSUME UNCHANGED <<currentTerm, votedFor>> PROVE VoteStep
  BY <1>0, <1>4 DEF TypeOK, VoteStep
<1>5. ASSUME NEW r \in rvRep, HandleRequestVoteReply(r) PROVE VoteStep
  <2>0. r.args.CandidateId \in Server /\ r.Term \in Nat
    BY <1>0 DEF TypeOK, RVReply, RVArgs
  <2> QED BY <1>3, <1>4, <1>5, <2>0
      DEF HandleRequestVoteReply, VoteReplyIgnored, VoteReplyNewerTerm, VoteReplyGranted, electionVars
<1>6. ASSUME NEW m \in aeReq, AppendEntries(m) PROVE VoteStep
  <2>0. m.dst \in Server /\ m.Term \in Nat
    BY <1>0 DEF TypeOK, AEArgs
  <2> QED BY <1>3, <1>4, <1>6, <2>0 DEF AppendEntries, AppendRejected, AppendAccepted, AdoptTerm
<1>7. ASSUME NEW r \in aeRep, HandleAppendEntriesReply(r) PROVE VoteStep
  <2>0. r.args.LeaderId \in Server /\ r.Term \in Nat
    BY <1>0 DEF TypeOK, AEReply, AEArgs
  <2> QED BY <1>3, <1>4, <1>7, <2>0
      DEF HandleAppendEntriesReply, AppendReplyObsolete, AppendReplyFailure, AppendReplySuccess
<1>8. ASSUME NEW s \in Server, Restart(s) PROVE VoteStep
  BY <1>0, <1>8, RebootVote DEF Restart
<1>9. ASSUME NEW m \in rvReq \cup aeReq, RestartInHandler(m) PROVE VoteStep
  <2> DEFINE data == << [currentTerm |-> m.Term, votedFor |-> Nil, log |-> log[m.dst]] >>
  <2>1. m.dst \in Server /\ m.Term \in Nat /\ m.Term > currentTerm[m.dst]
    BY <1>0, <1>9 DEF TypeOK, RVArgs, AEArgs, RestartInHandler
  <2>2. ReadPersist(data).currentTerm = m.Term
    BY DEF ReadPersist
  <2>3. Reboot(m.dst, data, {m})
    BY <1>9 DEF RestartInHandler
  <2> HIDE DEF data
  <2> QED BY <1>0, <2>1, <2>2, <2>3, RebootVote
<1>10. ASSUME \/ \E s \in Server : Heartbeat(s) \/ ApplyCopy(s) \/ ApplySend(s)
              \/ \E s \in Server, c \in Command : Start(s, c)
              \/ \E s \in Server : \E t \in Peers(s) : SendAppendEntries(s, t)
              \/ CallFails
              \/ UNCHANGED vars
       PROVE  VoteStep
  <2>1. UNCHANGED <<currentTerm, votedFor>>
    BY <1>10 DEF Heartbeat, ApplyCopy, ApplySend, Start, SendAppendEntries, CallFails, vars,
                 electionVars
  <2> QED BY <1>4, <2>1
<1> QED BY <1>1, <1>2, <1>5, <1>6, <1>7, <1>8, <1>9, <1>10 DEF Next

\* A peer's term never decreases and its vote of a term never changes, across crashes,
\* in the middle of a handler too.
THEOREM VoteKept == Spec => VoteOncePerTerm
<1>1. TInv /\ DurableState /\ [Next]_vars => [VoteStep]_vars
  BY VoteNext
<1> QED BY <1>1, TypeInvariant, Durable, PTL DEF Spec, VoteOncePerTerm

-----------------------------------------------------------------------------
(* The inductive invariant of the election.                                *)

SameCall(a, b) == a.CandidateId = b.CandidateId /\ a.dst = b.dst /\ a.Term = b.Term

\* RequestVote calls are of a term their caller has reached, and one call is at one
\* place: a peer is asked once per term, and its answer is on its way once.
CallsInv ==
    /\ \A m \in rvReq : m.Term <= currentTerm[m.CandidateId] /\ m.dst # m.CandidateId
    /\ \A r \in rvRep : r.args.Term <= currentTerm[r.args.CandidateId] /\ r.args.dst # r.args.CandidateId
    /\ \A a, b \in rvReq : SameCall(a, b) => a = b
    /\ \A a, b \in rvRep : SameCall(a.args, b.args) => a = b
    /\ \A a \in rvReq, b \in rvRep : ~SameCall(a, b.args)

Uncounted(m) ==
    whoami[m.CandidateId] = Candidate /\ m.Term = currentTerm[m.CandidateId]
        => m.dst \notin voters[m.CandidateId]

\* A peer whose call of the election under way has not returned is not counted yet.
NotCounted == (\A m \in rvReq : Uncounted(m)) /\ (\A r \in rvRep : Uncounted(r.args))

LeaderQuorum == \A s \in Server : whoami[s] = Leader => WinsElection(voteCounts[s])

\* Candidate s holds the vote of v in term T: in a reply on its way, or counted
Holds(v, s, T) ==
    \/ \E r \in rvRep : r.VoteGranted /\ r.args.dst = v /\ r.args.CandidateId = s /\ r.args.Term = T
    \/ v \in voters[s] /\ currentTerm[s] = T /\ whoami[s] # Follower

Promised(v, s, T) == currentTerm[v] > T \/ (currentTerm[v] = T /\ votedFor[v] = s)

HoldsPromised == \A v, s \in Server : \A T \in Nat : Holds(v, s, T) => Promised(v, s, T)

HoldsUnique == \A v, s, t \in Server : \A T \in Nat : Holds(v, s, T) /\ Holds(v, t, T) => s = t

EInv == CallsInv /\ NotCounted /\ VoteCountExact /\ LeaderQuorum /\ HoldsPromised /\ HoldsUnique

LEMMA ElectionInit == Init => EInv
<1> SUFFICES ASSUME Init PROVE EInv
  OBVIOUS
<1> USE DEF Init
<1>1. CallsInv /\ NotCounted
  BY DEF CallsInv, NotCounted
<1>2. VoteCountExact
  BY FS_EmptySet DEF VoteCountExact
<1>3. LeaderQuorum
  BY DEF LeaderQuorum, Leader, Follower
<1>4. \A v, s \in Server : \A T \in Nat : ~Holds(v, s, T)
  BY DEF Holds
<1> QED BY <1>1, <1>2, <1>3, <1>4 DEF EInv, HoldsPromised, HoldsUnique

\* A promise outlives every step.
LEMMA PromiseKept ==
    ASSUME TypeOK, VoteStep, NEW v \in Server, NEW s \in Server, NEW T \in Nat,
           Promised(v, s, T), currentTerm'[v] \in Nat
    PROVE  Promised(v, s, T)'
<1>1. currentTerm[v] \in Nat /\ s # Nil
  BY ServerAssumption DEF TypeOK
<1> QED BY <1>1 DEF VoteStep, Promised

\* If a step makes one vote held, newly promised and held by nobody else, and no other,
\* the promises and their uniqueness survive.
LEMMA HoldsStep ==
    ASSUME TypeOK, TypeOK', VoteStep, HoldsPromised, HoldsUnique,
           NEW v0 \in Server, NEW s0 \in Server, NEW T0 \in Nat,
           \A v, s \in Server : \A T \in Nat :
               Holds(v, s, T)' => Holds(v, s, T) \/ (v = v0 /\ s = s0 /\ T = T0),
           Promised(v0, s0, T0)',
           \A t \in Server : Holds(v0, t, T0) => t = s0
    PROVE  HoldsPromised' /\ HoldsUnique'
<1>1. ASSUME NEW v \in Server, NEW s \in Server, NEW T \in Nat, Holds(v, s, T)'
      PROVE  Promised(v, s, T)'
  <2>1. CASE Holds(v, s, T)
    <3>1. Promised(v, s, T) /\ currentTerm'[v] \in Nat
      BY <2>1 DEF HoldsPromised, TypeOK
    <3> QED BY <3>1, PromiseKept
  <2>2. CASE v = v0 /\ s = s0 /\ T = T0
    BY <2>2
  <2> QED BY <1>1, <2>1, <2>2
<1>2. HoldsPromised'
  BY <1>1 DEF HoldsPromised
<1>3. ASSUME NEW v \in Server, NEW s \in Server, NEW t \in Server, NEW T \in Nat,
             Holds(v, s, T)', Holds(v, t, T)'
      PROVE  s = t
  <2>1. Holds(v, s, T) \/ (v = v0 /\ s = s0 /\ T = T0)
    BY <1>3
  <2>2. Holds(v, t, T) \/ (v = v0 /\ t = s0 /\ T = T0)
    BY <1>3
  <2> QED BY <2>1, <2>2 DEF HoldsUnique
<1> QED BY <1>2, <1>3 DEF HoldsUnique

LEMMA HoldsShrink ==
    ASSUME TypeOK, TypeOK', VoteStep, HoldsPromised, HoldsUnique,
           \A v, s \in Server : \A T \in Nat : Holds(v, s, T)' => Holds(v, s, T)
    PROVE  HoldsPromised' /\ HoldsUnique'
<1>1. ASSUME NEW v \in Server, NEW s \in Server, NEW T \in Nat, Holds(v, s, T)'
      PROVE  Promised(v, s, T)'
  <2>1. Promised(v, s, T) /\ currentTerm'[v] \in Nat
    BY <1>1 DEF HoldsPromised, TypeOK
  <2> QED BY <2>1, PromiseKept
<1> QED BY <1>1 DEF HoldsPromised, HoldsUnique

\* Every step but the three of an election: no call and no answer appears, and a peer
\* keeps its role, or becomes a follower.
LEMMA ElectionFewer ==
    ASSUME TypeOK, TypeOK', VoteStep, EInv,
           \A a \in rvReq' : \E b \in rvReq : SameCall(a, b),
           \A a, b \in rvReq' : SameCall(a, b) => a = b,
           rvRep' \subseteq rvRep,
           \A s \in Server :
               \/ /\ whoami'[s] = whoami[s] /\ currentTerm'[s] = currentTerm[s]
                  /\ voters'[s] = voters[s] /\ voteCounts'[s] = voteCounts[s]
               \/ whoami'[s] = Follower /\ voteCounts'[s] = Cardinality(voters'[s])
    PROVE  EInv'
<1>0. /\ rvReq \subseteq RVArgs /\ rvReq' \subseteq RVArgs /\ rvRep \subseteq RVReply
      /\ \A s \in Server : currentTerm[s] \in Nat /\ currentTerm'[s] \in Nat
      /\ \A s \in Server : currentTerm'[s] >= currentTerm[s]
  BY DEF TypeOK, VoteStep
<1>1. CallsInv'
  <2>1. ASSUME NEW m \in rvReq' PROVE m.Term <= currentTerm'[m.CandidateId] /\ m.dst # m.CandidateId
    <3>1. PICK b \in rvReq : SameCall(m, b)
      OBVIOUS
    <3>2. b.Term <= currentTerm[b.CandidateId] /\ b.dst # b.CandidateId
      BY DEF EInv, CallsInv
    <3>3. b.CandidateId \in Server /\ b.Term \in Nat
      BY <1>0 DEF RVArgs
    <3> QED BY <1>0, <3>1, <3>2, <3>3 DEF SameCall
  <2>2. ASSUME NEW r \in rvRep'
        PROVE  r.args.Term <= currentTerm'[r.args.CandidateId] /\ r.args.dst # r.args.CandidateId
    <3>1. r.args.Term <= currentTerm[r.args.CandidateId] /\ r.args.dst # r.args.CandidateId
      BY DEF EInv, CallsInv
    <3>2. r.args.CandidateId \in Server /\ r.args.Term \in Nat
      BY <1>0 DEF RVReply, RVArgs
    <3> QED BY <1>0, <3>1, <3>2
  <2>3. \A a, b \in rvRep' : SameCall(a.args, b.args) => a = b
    BY DEF EInv, CallsInv
  <2>4. ASSUME NEW a \in rvReq', NEW b \in rvRep' PROVE ~SameCall(a, b.args)
    <3>1. PICK c \in rvReq : SameCall(a, c)
      OBVIOUS
    <3>2. b \in rvRep /\ ~SameCall(c, b.args)
      BY DEF EInv, CallsInv
    <3> QED BY <3>1, <3>2 DEF SameCall
  <2> QED BY <2>1, <2>2, <2>3, <2>4 DEF CallsInv
<1>2. ASSUME NEW m \in RVArgs, Uncounted(m) PROVE Uncounted(m)'
  <2>1. m.CandidateId \in Server
    BY DEF RVArgs
  <2> QED BY <1>2, <2>1 DEF Uncounted, Candidate, Follower
<1>3. NotCounted'
  <2>1. ASSUME NEW m \in rvReq' PROVE Uncounted(m)'
    <3>1. PICK b \in rvReq : SameCall(m, b)
      OBVIOUS
    <3>2. Uncounted(b)
      BY DEF EInv, NotCounted
    <3>3. m \in RVArgs /\ Uncounted(m)
      BY <1>0, <3>1, <3>2 DEF Uncounted, SameCall
    <3> QED BY <1>2, <3>3
  <2>2. ASSUME NEW r \in rvRep' PROVE Uncounted(r.args)'
    <3>1. Uncounted(r.args) /\ r.args \in RVArgs
      BY <1>0 DEF EInv, NotCounted, RVReply
    <3> QED BY <1>2, <3>1
  <2> QED BY <2>1, <2>2 DEF NotCounted
<1>4. VoteCountExact' /\ LeaderQuorum'
  BY DEF EInv, VoteCountExact, LeaderQuorum, WinsElection, Leader, Follower
<1>5. \A v, s \in Server : \A T \in Nat : Holds(v, s, T)' => Holds(v, s, T)
  BY DEF Holds
<1>6. HoldsPromised' /\ HoldsUnique'
  BY <1>5, HoldsShrink DEF EInv
<1> QED BY <1>1, <1>3, <1>4, <1>6 DEF EInv

LEMMA ElectionStart ==
    ASSUME TypeOK, TypeOK', VoteStep, EInv, NEW s \in Server, StartElection(s)
    PROVE  EInv'
<1>t. currentTerm[s] \in Nat
  BY DEF TypeOK
<1>T. PICK T0 \in Nat : T0 = currentTerm[s] + 1
  BY <1>t
<1> DEFINE Ask(t) == [CandidateId |-> s, dst |-> t, Term |-> T0,
                      LastLogIndex |-> Len(log[s]), LastLogTerm |-> LogTerm(log[s], Len(log[s])),
                      live |-> TRUE]
<1>0. /\ rvReq \subseteq RVArgs /\ rvRep \subseteq RVReply
      /\ \A t \in Server : currentTerm[t] \in Nat
      /\ T0 > currentTerm[s]
  <2>1. T0 > currentTerm[s]
    BY <1>t, <1>T
  <2> QED BY <2>1 DEF TypeOK
<1>1. /\ rvReq' = rvReq \cup {Ask(t) : t \in Server \ {s}}
      /\ rvRep' = rvRep
      /\ whoami'[s] = Candidate /\ currentTerm'[s] = T0 /\ votedFor'[s] = s
      /\ voters'[s] = {s} /\ voteCounts'[s] = 1
      /\ \A t \in Server \ {s} :
           /\ whoami'[t] = whoami[t] /\ currentTerm'[t] = currentTerm[t]
           /\ voters'[t] = voters[t] /\ voteCounts'[t] = voteCounts[t]
  BY <1>T DEF StartElection, Peers, TypeOK
<1>2. \A t \in Server : Ask(t).CandidateId = s /\ Ask(t).dst = t /\ Ask(t).Term = T0
  OBVIOUS
<1> HIDE DEF Ask
\* no call or answer of s is of the new term yet
<1>3. ASSUME NEW m \in RVArgs, m.Term <= currentTerm[m.CandidateId]
      PROVE  m.Term <= currentTerm'[m.CandidateId] /\ (m.CandidateId = s => m.Term # T0)
  <2>1. m.CandidateId \in Server /\ m.Term \in Nat
    BY DEF RVArgs
  <2>2. CASE m.CandidateId = s
    BY <1>0, <1>1, <1>3, <2>1, <2>2
  <2>3. CASE m.CandidateId # s
    BY <1>0, <1>1, <1>3, <2>1, <2>3
  <2> QED BY <2>2, <2>3
<1>4. \A m \in rvReq : m \in RVArgs /\ m.Term <= currentTerm[m.CandidateId]
  BY <1>0 DEF EInv, CallsInv
<1>5. \A r \in rvRep : r.args \in RVArgs /\ r.args.Term <= currentTerm[r.args.CandidateId]
  BY <1>0 DEF EInv, CallsInv, RVReply
<1>6. CallsInv'
  <2>1. ASSUME NEW m \in rvReq' PROVE m.Term <= currentTerm'[m.CandidateId] /\ m.dst # m.CandidateId
    <3>1. CASE m \in rvReq
      BY <1>3, <1>4, <3>1 DEF EInv, CallsInv
    <3>2. CASE \E t \in Server \ {s} : m = Ask(t)
      BY <1>0, <1>1, <1>2, <3>2
    <3> QED BY <1>1, <3>1, <3>2
  <2>2. \A r \in rvRep' : r.args.Term <= currentTerm'[r.args.CandidateId] /\ r.args.dst # r.args.CandidateId
    BY <1>1, <1>3, <1>5 DEF EInv, CallsInv
  <2>3. ASSUME NEW a \in rvReq', NEW b \in rvReq', SameCall(a, b) PROVE a = b
    <3>1. CASE a \in rvReq /\ b \in rvReq
      BY <2>3, <3>1 DEF EInv, CallsInv
    <3>2. CASE a \in rvReq /\ \E t \in Server \ {s} : b = Ask(t)
      BY <1>2, <1>3, <1>4, <2>3, <3>2 DEF SameCall
    <3>3. CASE b \in rvReq /\ \E t \in Server \ {s} : a = Ask(t)
      BY <1>2, <1>3, <1>4, <2>3, <3>3 DEF SameCall
    <3>4. CASE (\E t \in Server \ {s} : a = Ask(t)) /\ (\E t \in Server \ {s} : b = Ask(t))
      BY <1>2, <2>3, <3>4 DEF SameCall
    <3> QED BY <1>1, <3>1, <3>2, <3>3, <3>4
  <2>4. \A a, b \in rvRep' : SameCall(a.args, b.args) => a = b
    BY <1>1 DEF EInv, CallsInv
  <2>5. ASSUME NEW a \in rvReq', NEW b \in rvRep' PROVE ~SameCall(a, b.args)
    <3>1. CASE a \in rvReq
      BY <1>1, <3>1 DEF EInv, CallsInv
    <3>2. CASE \E t \in Server \ {s} : a = Ask(t)
      BY <1>1, <1>2, <1>3, <1>5, <3>2 DEF SameCall
    <3> QED BY <1>1, <3>1, <3>2
  <2> QED BY <2>1, <2>2, <2>3, <2>4, <2>5 DEF CallsInv
<1>7. NotCounted'
  <2>1. ASSUME NEW m \in RVArgs, m.Term <= currentTerm[m.CandidateId], Uncounted(m)
        PROVE  Uncounted(m)'
    <3>1. m.CandidateId \in Server
      BY DEF RVArgs
    <3> QED BY <1>1, <1>3, <2>1, <3>1 DEF Uncounted
  <2>2. ASSUME NEW t \in Server \ {s}, NEW m, m = Ask(t) PROVE Uncounted(m)'
    BY <1>1, <1>2, <2>2 DEF Uncounted
  <2>3. \A m \in rvReq' : Uncounted(m)'
    BY <1>1, <1>4, <2>1, <2>2 DEF EInv, NotCounted
  <2>4. \A r \in rvRep' : Uncounted(r.args)'
    BY <1>1, <1>5, <2>1 DEF EInv, NotCounted
  <2> QED BY <2>3, <2>4 DEF NotCounted
<1>8. VoteCountExact' /\ LeaderQuorum'
  <2>1. Cardinality({s}) = 1
    BY FS_Singleton
  <2>2. ASSUME NEW t \in Server
        PROVE  /\ voteCounts'[t] = Cardinality(voters'[t])
               /\ whoami'[t] = Leader => WinsElection(voteCounts'[t])
    BY <1>1, <2>1 DEF EInv, VoteCountExact, LeaderQuorum, Leader, Candidate
  <2> QED BY <2>2 DEF VoteCountExact, LeaderQuorum, WinsElection
<1>9. ASSUME NEW v \in Server, NEW t \in Server, NEW T \in Nat, Holds(v, t, T)'
      PROVE  Holds(v, t, T) \/ (v = s /\ t = s /\ T = T0)
  BY <1>1, <1>9 DEF Holds
<1>10. Promised(s, s, T0)'
  BY <1>1 DEF Promised
<1>11. ASSUME NEW t \in Server, Holds(s, t, T0) PROVE FALSE
  <2>1. Promised(s, t, T0)
    BY <1>0, <1>11 DEF EInv, HoldsPromised
  <2> QED BY <1>0, <2>1 DEF Promised
<1>12. HoldsPromised' /\ HoldsUnique'
  BY <1>0, <1>9, <1>10, <1>11, HoldsStep DEF EInv
<1> QED BY <1>6, <1>7, <1>8, <1>12 DEF EInv

LEMMA ElectionVote ==
    ASSUME TypeOK, TypeOK', VoteStep, EInv, NEW m \in rvReq, RequestVote(m)
    PROVE  EInv'
<1> DEFINE v0 == m.dst
           s0 == m.CandidateId
           T0 == m.Term
           newer == T0 > currentTerm[v0]
           vote == IF newer THEN Nil ELSE votedFor[v0]
           grant == T0 >= currentTerm[v0] /\ canVote(vote, m) /\ UpToDate(m, log[v0])
           ans == [args |-> m, Term |-> currentTerm[v0], VoteGranted |-> grant]
<1>0. /\ v0 \in Server /\ s0 \in Server /\ T0 \in Nat /\ m \in RVArgs
      /\ rvReq \subseteq RVArgs /\ rvRep \subseteq RVReply
      /\ \A t \in Server : currentTerm[t] \in Nat /\ currentTerm'[t] \in Nat
      /\ \A t \in Server : currentTerm'[t] >= currentTerm[t]
  BY DEF TypeOK, RVArgs, VoteStep
<1>1. /\ rvReq' = rvReq \ {m}
      /\ \A r \in rvRep' : r \in rvRep \/ r = ans
  BY DEF RequestVote, ReplyTo
<1>2. \A t \in Server :
        /\ voters'[t] = voters[t] /\ voteCounts'[t] = voteCounts[t]
        /\ \/ whoami'[t] = whoami[t] /\ currentTerm'[t] = currentTerm[t]
           \/ whoami'[t] = Follower
  BY DEF RequestVote, TypeOK
<1>3. ans.args = m /\ ans.VoteGranted = grant
  OBVIOUS
<1>4. grant => Promised(v0, s0, T0)'
  <2>1. currentTerm'[v0] = (IF newer THEN T0 ELSE currentTerm[v0])
    <3>1. /\ currentTerm \in [Server -> Nat]
          /\ currentTerm' = [currentTerm EXCEPT ![v0] = IF newer THEN T0 ELSE @]
      BY DEF RequestVote, TypeOK
    <3> HIDE DEF newer
    <3> QED BY <1>0, <3>1
  <2>2. grant => votedFor'[v0] = s0
    <3>1. /\ votedFor \in [Server -> Server \cup {Nil}]
          /\ votedFor' = [votedFor EXCEPT ![v0] = IF grant THEN s0 ELSE vote]
      BY DEF RequestVote, TypeOK
    <3> HIDE DEF grant, vote
    <3> QED BY <1>0, <3>1
  <2>3. grant => T0 >= currentTerm[v0]
    OBVIOUS
  <2> HIDE DEF grant
  <2> QED BY <1>0, <2>1, <2>2, <2>3 DEF Promised
<1>5. ASSUME grant, NEW t \in Server, Holds(v0, t, T0) PROVE t = s0
  <2>1. Promised(v0, t, T0)
    BY <1>0, <1>5 DEF EInv, HoldsPromised
  <2>2. currentTerm[v0] = T0 /\ votedFor[v0] = t
    BY <1>0, <1>5, <2>1 DEF Promised
  <2>3. ~newer
    BY <1>0, <2>2
  <2>4. canVote(votedFor[v0], m)
    BY <1>5, <2>3
  <2> QED BY <2>2, <2>4, ServerAssumption DEF canVote
<1> HIDE DEF grant, ans, newer, vote
<1>6. CallsInv'
  <2>1. ASSUME NEW a \in RVArgs, a.Term <= currentTerm[a.CandidateId]
        PROVE  a.Term <= currentTerm'[a.CandidateId]
    <3>1. a.CandidateId \in Server /\ a.Term \in Nat
      BY DEF RVArgs
    <3> QED BY <1>0, <2>1, <3>1
  <2>2. \A a \in rvReq' : a.Term <= currentTerm'[a.CandidateId] /\ a.dst # a.CandidateId
    BY <1>0, <1>1, <2>1 DEF EInv, CallsInv
  <2>3. ASSUME NEW r \in rvRep'
        PROVE  r.args.Term <= currentTerm'[r.args.CandidateId] /\ r.args.dst # r.args.CandidateId
    <3>1. r.args \in RVArgs
      BY <1>0, <1>1, <1>3 DEF RVReply
    <3>2. r.args.Term <= currentTerm[r.args.CandidateId] /\ r.args.dst # r.args.CandidateId
      BY <1>1, <1>3 DEF EInv, CallsInv
    <3> QED BY <2>1, <3>1, <3>2
  <2>4. \A a, b \in rvReq' : SameCall(a, b) => a = b
    BY <1>1 DEF EInv, CallsInv
  <2>5. ASSUME NEW a \in rvRep', NEW b \in rvRep', SameCall(a.args, b.args) PROVE a = b
    <3>1. \A r \in rvRep : ~SameCall(m, r.args) /\ ~SameCall(r.args, m)
      BY DEF EInv, CallsInv, SameCall
    <3>2. a \in rvRep /\ b \in rvRep => a = b
      BY <2>5 DEF EInv, CallsInv
    <3> QED BY <1>1, <1>3, <2>5, <3>1, <3>2
  <2>6. ASSUME NEW a \in rvReq', NEW b \in rvRep' PROVE ~SameCall(a, b.args)
    <3>1. a \in rvReq /\ a # m
      BY <1>1
    <3>2. CASE b \in rvRep
      BY <3>1, <3>2 DEF EInv, CallsInv
    <3>3. CASE b = ans
      BY <1>3, <3>1, <3>3 DEF EInv, CallsInv
    <3> QED BY <1>1, <3>2, <3>3
  <2> QED BY <2>2, <2>3, <2>4, <2>5, <2>6 DEF CallsInv
<1>7. NotCounted'
  <2>1. ASSUME NEW a \in RVArgs, Uncounted(a) PROVE Uncounted(a)'
    <3>1. a.CandidateId \in Server
      BY DEF RVArgs
    <3> QED BY <1>2, <2>1, <3>1 DEF Uncounted, Candidate, Follower
  <2>2. \A a \in rvReq' : Uncounted(a)'
    BY <1>0, <1>1, <2>1 DEF EInv, NotCounted
  <2>3. ASSUME NEW r \in rvRep' PROVE Uncounted(r.args)'
    <3>1. r.args \in RVArgs /\ Uncounted(r.args)
      BY <1>0, <1>1, <1>3 DEF EInv, NotCounted, RVReply
    <3> QED BY <2>1, <3>1
  <2> QED BY <2>2, <2>3 DEF NotCounted
<1>8. VoteCountExact' /\ LeaderQuorum'
  BY <1>2 DEF EInv, VoteCountExact, LeaderQuorum, WinsElection, Leader, Follower
<1>9. ASSUME NEW v \in Server, NEW t \in Server, NEW T \in Nat, Holds(v, t, T)'
      PROVE  Holds(v, t, T) \/ (grant /\ v = v0 /\ t = s0 /\ T = T0)
  <2>1. CASE \E r \in rvRep' : r.VoteGranted /\ r.args.dst = v /\ r.args.CandidateId = t
                              /\ r.args.Term = T
    BY <1>1, <1>3, <2>1 DEF Holds
  <2>2. CASE v \in voters'[t] /\ currentTerm'[t] = T /\ whoami'[t] # Follower
    BY <1>2, <2>2 DEF Holds
  <2> QED BY <1>9, <2>1, <2>2 DEF Holds
<1>10. HoldsPromised' /\ HoldsUnique'
  <2>1. CASE grant
    BY <1>0, <1>4, <1>5, <1>9, <2>1, HoldsStep DEF EInv
  <2>2. CASE ~grant
    BY <1>9, <2>2, HoldsShrink DEF EInv
  <2> QED BY <2>1, <2>2
<1> QED BY <1>6, <1>7, <1>8, <1>10 DEF EInv

\* A granted vote is counted: it was held in the reply, and its sender was not counted.
LEMMA ElectionCount ==
    ASSUME TypeOK, TypeOK', VoteStep, EInv, NEW r \in rvRep,
           HandleRequestVoteReply(r), VoteReplyGranted(r.args.CandidateId, r)
    PROVE  EInv'
<1> DEFINE s == r.args.CandidateId
           d == r.args.dst
<1>0. /\ s \in Server /\ d \in Server /\ r.args.Term \in Nat /\ r.args \in RVArgs
      /\ rvReq \subseteq RVArgs /\ rvRep \subseteq RVReply
      /\ voters[s] \subseteq Server /\ voteCounts[s] \in Nat
  BY DEF TypeOK, RVReply, RVArgs
<1>1. /\ rvReq' = rvReq /\ rvRep' = rvRep \ {r}
      /\ currentTerm' = currentTerm
      /\ r.args.Term = currentTerm[s] /\ whoami[s] = Candidate /\ r.VoteGranted
      /\ voters'[s] = voters[s] \cup {d} /\ voteCounts'[s] = voteCounts[s] + 1
      /\ \A t \in Server \ {s} : voters'[t] = voters[t] /\ voteCounts'[t] = voteCounts[t]
  <2>1. /\ voters \in [Server -> SUBSET Server] /\ voteCounts \in [Server -> Nat]
        /\ voters' = [voters EXCEPT ![s] = voters[s] \cup {d}]
        /\ voteCounts' = [voteCounts EXCEPT ![s] = voteCounts[s] + 1]
    BY DEF VoteReplyGranted, TypeOK
  <2>2. /\ rvReq' = rvReq /\ rvRep' = rvRep \ {r}
        /\ currentTerm' = currentTerm
        /\ r.args.Term = currentTerm[s] /\ whoami[s] = Candidate /\ r.VoteGranted
    BY DEF HandleRequestVoteReply, VoteReplyGranted
  <2> HIDE DEF s, d
  <2> QED BY <1>0, <2>1, <2>2
<1>2. /\ \A t \in Server \ {s} : whoami'[t] = whoami[t]
      /\ whoami'[s] = Candidate \/ (whoami'[s] = Leader /\ WinsElection(voteCounts[s] + 1))
  <2>1. /\ whoami \in [Server -> {Leader, Candidate, Follower}]
        /\ \/ whoami' = [whoami EXCEPT ![s] = Leader] /\ WinsElection(voteCounts[s] + 1)
           \/ whoami' = whoami
    BY DEF VoteReplyGranted, convertToLeader, TypeOK
  <2> HIDE DEF s, d
  <2> QED BY <1>0, <1>1, <2>1
<1>3. d \notin voters[s]
  BY <1>1 DEF EInv, NotCounted, Uncounted
<1> HIDE DEF s, d
<1>4. CallsInv'
  BY <1>1 DEF EInv, CallsInv
<1>5. ASSUME NEW m \in RVArgs, Uncounted(m), ~SameCall(m, r.args) PROVE Uncounted(m)'
  <2>1. m.CandidateId \in Server
    BY DEF RVArgs
  <2>2. CASE m.CandidateId = s
    BY <1>1, <1>2, <1>5, <2>2 DEF Uncounted, SameCall, s, d
  <2>3. CASE m.CandidateId # s
    BY <1>1, <1>2, <1>5, <2>1, <2>3 DEF Uncounted
  <2> QED BY <2>2, <2>3
<1>6. NotCounted'
  <2>1. \A m \in rvReq' : Uncounted(m)'
    <3>1. \A m \in rvReq : m \in RVArgs /\ Uncounted(m) /\ ~SameCall(m, r.args)
      BY <1>0 DEF EInv, NotCounted, CallsInv
    <3> QED BY <1>1, <1>5, <3>1
  <2>2. \A q \in rvRep' : Uncounted(q.args)'
    <3>1. \A q \in rvRep \ {r} : q.args \in RVArgs /\ Uncounted(q.args) /\ ~SameCall(q.args, r.args)
      BY <1>0 DEF EInv, NotCounted, CallsInv, RVReply
    <3> QED BY <1>1, <1>5, <3>1
  <2> QED BY <2>1, <2>2 DEF NotCounted
<1>7. VoteCountExact' /\ LeaderQuorum'
  <2>1. IsFiniteSet(voters[s])
    BY <1>0, FS_Subset, ServerAssumption
  <2>2. Cardinality(voters[s] \cup {d}) = Cardinality(voters[s]) + 1
    BY <1>3, <2>1, FS_AddElement
  <2>3. ASSUME NEW t \in Server
        PROVE  /\ voteCounts'[t] = Cardinality(voters'[t])
               /\ whoami'[t] = Leader => WinsElection(voteCounts'[t])
    BY <1>0, <1>1, <1>2, <2>2 DEF EInv, VoteCountExact, LeaderQuorum, Leader, Candidate
  <2> QED BY <2>3 DEF VoteCountExact, LeaderQuorum, WinsElection
<1>8. ASSUME NEW v \in Server, NEW t \in Server, NEW T \in Nat, Holds(v, t, T)'
      PROVE  Holds(v, t, T)
  <2>1. CASE \E q \in rvRep' : q.VoteGranted /\ q.args.dst = v /\ q.args.CandidateId = t
                              /\ q.args.Term = T
    BY <1>1, <2>1 DEF Holds
  <2>2. CASE v \in voters'[t] /\ currentTerm'[t] = T /\ whoami'[t] # Follower
    <3>1. CASE t = s /\ v = d
      BY <1>1, <2>2, <3>1 DEF Holds, s, d
    <3>2. CASE t = s /\ v # d
      BY <1>1, <2>2, <3>2 DEF Holds, Candidate, Follower
    <3>3. CASE t # s
      BY <1>1, <1>2, <2>2, <3>3 DEF Holds
    <3> QED BY <3>1, <3>2, <3>3
  <2> QED BY <1>8, <2>1, <2>2 DEF Holds
<1>9. HoldsPromised' /\ HoldsUnique'
  BY <1>8, HoldsShrink DEF EInv
<1> QED BY <1>4, <1>6, <1>7, <1>9 DEF EInv

LEMMA ElectionReboot ==
    ASSUME TypeOK, TypeOK', VoteStep, EInv, NEW s \in Server, NEW data, NEW done,
           Reboot(s, data, done)
    PROVE  EInv'
<1> DEFINE F(m) == IF m.CandidateId = s THEN Orphaned(m) ELSE m
<1>1. rvReq' = {F(m) : m \in rvReq \ done} /\ rvRep' \subseteq rvRep
  BY DEF Reboot
<1>2. ASSUME NEW m \in rvReq PROVE SameCall(F(m), m)
  <2>1. m \in RVArgs
    BY DEF TypeOK
  <2> QED BY <2>1 DEF SameCall, Orphaned, RVArgs
<1> HIDE DEF F
<1>3. \A a \in rvReq' : \E b \in rvReq : SameCall(a, b)
  BY <1>1, <1>2
<1>4. ASSUME NEW a \in rvReq', NEW b \in rvReq', SameCall(a, b) PROVE a = b
  <2>1. PICK m \in rvReq : a = F(m)
    BY <1>1
  <2>2. PICK n \in rvReq : b = F(n)
    BY <1>1
  <2>3. SameCall(m, n)
    BY <1>2, <1>4, <2>1, <2>2 DEF SameCall
  <2> QED BY <2>1, <2>2, <2>3 DEF EInv, CallsInv
<1>5. ASSUME NEW t \in Server
      PROVE  \/ /\ whoami'[t] = whoami[t] /\ currentTerm'[t] = currentTerm[t]
                /\ voters'[t] = voters[t] /\ voteCounts'[t] = voteCounts[t]
             \/ whoami'[t] = Follower /\ voteCounts'[t] = Cardinality(voters'[t])
  <2>1. CASE t = s
    <3>1. whoami'[t] = Follower /\ voters'[t] = {} /\ voteCounts'[t] = 0
      BY <2>1 DEF Reboot, TypeOK
    <3> QED BY <3>1, FS_EmptySet
  <2>2. CASE t # s
    BY <2>2 DEF Reboot, TypeOK
  <2> QED BY <2>1, <2>2
<1> QED BY <1>1, <1>3, <1>4, <1>5, ElectionFewer

LEMMA ElectionNext == TypeOK /\ TypeOK' /\ VoteStep /\ EInv /\ [Next]_vars => EInv'
<1> SUFFICES ASSUME TypeOK, TypeOK', VoteStep, EInv, [Next]_vars PROVE EInv'
  OBVIOUS
\* a peer becomes a follower, or nothing that elections look at changes
<1>1. ASSUME NEW s \in Server, NEW term, convertToFollower(s, term),
             UNCHANGED <<voters, voteCounts, rvReq>>, rvRep' \subseteq rvRep
      PROVE  EInv'
  <2>1. \A a \in rvReq' : \E b \in rvReq : SameCall(a, b)
    BY <1>1 DEF SameCall
  <2>2. \A a, b \in rvReq' : SameCall(a, b) => a = b
    BY <1>1 DEF EInv, CallsInv
  <2>3. ASSUME NEW t \in Server
        PROVE  \/ /\ whoami'[t] = whoami[t] /\ currentTerm'[t] = currentTerm[t]
                  /\ voters'[t] = voters[t] /\ voteCounts'[t] = voteCounts[t]
               \/ whoami'[t] = Follower /\ voteCounts'[t] = Cardinality(voters'[t])
    <3>1. voteCounts'[t] = Cardinality(voters'[t])
      BY <1>1 DEF EInv, VoteCountExact
    <3>2. CASE t = s
      BY <1>1, <3>1, <3>2 DEF convertToFollower, TypeOK
    <3>3. CASE t # s
      BY <1>1, <3>3 DEF convertToFollower, TypeOK
    <3> QED BY <3>2, <3>3
  <2> QED BY <1>1, <2>1, <2>2, <2>3, ElectionFewer
<1>2. ASSUME UNCHANGED <<whoami, currentTerm, voters, voteCounts, rvReq>>, rvRep' \subseteq rvRep
      PROVE  EInv'
  <2>1. \A a \in rvReq' : \E b \in rvReq : SameCall(a, b)
    BY <1>2 DEF SameCall
  <2>2. \A a, b \in rvReq' : SameCall(a, b) => a = b
    BY <1>2 DEF EInv, CallsInv
  <2> QED BY <1>2, <2>1, <2>2, ElectionFewer
<1>3. ASSUME NEW r \in rvRep, HandleRequestVoteReply(r) PROVE EInv'
  <2> DEFINE s == r.args.CandidateId
  <2>0. s \in Server /\ rvRep' \subseteq rvRep /\ rvReq' = rvReq
    BY <1>3 DEF TypeOK, RVReply, RVArgs, HandleRequestVoteReply
  <2>1. CASE VoteReplyIgnored(s, r)
    BY <1>2, <2>0, <2>1 DEF VoteReplyIgnored, electionVars
  <2>2. CASE VoteReplyNewerTerm(s, r)
    BY <1>1, <2>0, <2>2 DEF VoteReplyNewerTerm
  <2>3. CASE VoteReplyGranted(s, r)
    BY <1>3, <2>3, ElectionCount
  <2> QED BY <1>3, <2>1, <2>2, <2>3 DEF HandleRequestVoteReply
<1>4. ASSUME NEW m \in aeReq, AppendEntries(m) PROVE EInv'
  <2>0. m.dst \in Server /\ UNCHANGED <<voters, voteCounts, rvReq>> /\ rvRep' \subseteq rvRep
    BY <1>4 DEF TypeOK, AEArgs, AppendEntries, rvVars
  <2>1. convertToFollower(m.dst, m.Term) \/ UNCHANGED <<currentTerm, whoami>>
    BY <1>4 DEF AppendEntries, AppendRejected, AppendAccepted, AdoptTerm
  <2> QED BY <1>1, <1>2, <2>0, <2>1
<1>5. ASSUME NEW r \in aeRep, HandleAppendEntriesReply(r) PROVE EInv'
  <2>0. /\ r.args.LeaderId \in Server
        /\ UNCHANGED <<voters, voteCounts, rvReq>> /\ rvRep' \subseteq rvRep
    BY <1>5 DEF TypeOK, AEReply, AEArgs, HandleAppendEntriesReply, rvVars
  <2>1. convertToFollower(r.args.LeaderId, r.Term) \/ UNCHANGED <<currentTerm, whoami>>
    BY <1>5 DEF HandleAppendEntriesReply, AppendReplyObsolete, AppendReplyFailure,
                AppendReplySuccess
  <2> QED BY <1>1, <1>2, <2>0, <2>1
<1>6. ASSUME NEW s \in Server, Restart(s) PROVE EInv'
  BY <1>6, ElectionReboot DEF Restart
<1>7. ASSUME NEW m \in rvReq \cup aeReq, RestartInHandler(m) PROVE EInv'
  <2>1. m.dst \in Server
    BY DEF TypeOK, RVArgs, AEArgs
  <2> QED BY <1>7, <2>1, ElectionReboot DEF RestartInHandler
<1>8. ASSUME \/ \E s \in Server : Heartbeat(s) \/ ApplyCopy(s) \/ ApplySend(s)
             \/ \E s \in Server, c \in Command : Start(s, c)
             \/ \E s \in Server : \E t \in Peers(s) : SendAppendEntries(s, t)
             \/ CallFails
             \/ UNCHANGED vars
      PROVE  EInv'
  <2>1. UNCHANGED <<electionVars, rvVars>>
    BY <1>8 DEF Heartbeat, ApplyCopy, ApplySend, Start, SendAppendEntries, CallFails, vars
  <2> QED BY <1>2, <2>1 DEF electionVars, rvVars
<1> QED BY <1>3, <1>4, <1>5, <1>6, <1>7, <1>8, ElectionStart, ElectionVote DEF Next

\* Two majorities of the peers share a peer
LEMMA MajoritiesMeet ==
    ASSUME NEW A \in SUBSET Server, NEW B \in SUBSET Server,
           WinsElection(Cardinality(A)), WinsElection(Cardinality(B))
    PROVE  A \cap B # {}
<1> DEFINE n == Cardinality(Server)
<1>1. Cardinality(A) > n \div 2 /\ Cardinality(B) > n \div 2
  BY DEF WinsElection
<1>2. IsFiniteSet(A) /\ IsFiniteSet(B)
  BY FS_Subset, ServerAssumption
<1>3. n \in Nat /\ Cardinality(A) \in Nat /\ Cardinality(B) \in Nat
  BY <1>2, FS_CardinalityType, ServerAssumption
<1> SUFFICES ASSUME A \cap B = {} PROVE FALSE
  OBVIOUS
<1>4. Cardinality(A \cup B) = Cardinality(A) + Cardinality(B) - Cardinality(A \cap B)
  BY <1>2, FS_Union
<1>5. Cardinality(A \cap B) = 0
  BY FS_EmptySet
<1>6. Cardinality(A \cup B) <= n
  BY FS_Subset, ServerAssumption
<1> DEFINE a == Cardinality(A)
           b == Cardinality(B)
           u == Cardinality(A \cup B)
<1>7. u = a + b /\ u <= n
  BY <1>3, <1>4, <1>5, <1>6
<1>8. a > n \div 2 /\ b > n \div 2 /\ a \in Nat /\ b \in Nat /\ n \in Nat
  BY <1>1, <1>3
<1> HIDE DEF a, b, u, n
<1> QED BY <1>7, <1>8

\* A peer's vote of a term is held by one candidate.
LEMMA QuorumsMeet == TypeOK /\ EInv => ElectionSafety
<1> SUFFICES ASSUME TypeOK, EInv, NEW s \in Server, NEW t \in Server,
                    whoami[s] = Leader, whoami[t] = Leader, currentTerm[s] = currentTerm[t]
             PROVE  s = t
  BY DEF ElectionSafety
<1> DEFINE A == voters[s]
           B == voters[t]
<1>1. A \in SUBSET Server /\ B \in SUBSET Server /\ currentTerm[s] \in Nat
  BY DEF TypeOK
<1>2. WinsElection(Cardinality(A)) /\ WinsElection(Cardinality(B))
  BY DEF EInv, VoteCountExact, LeaderQuorum, WinsElection
<1>3. A \cap B # {}
  <2> HIDE DEF A, B
  <2> QED BY <1>1, <1>2, MajoritiesMeet
<1>4. PICK v \in Server : v \in A /\ v \in B
  BY <1>1, <1>3
<1>5. Holds(v, s, currentTerm[s]) /\ Holds(v, t, currentTerm[s])
  BY <1>4 DEF Holds, A, B, Leader, Follower
<1> QED BY <1>1, <1>5 DEF EInv, HoldsUnique

LEMMA ElectionInvariant == Spec => []EInv
<1>1. TInv => TypeOK
  BY DEF TInv
<1>2. TInv /\ TInv' /\ DurableState /\ EInv /\ [Next]_vars => EInv'
  BY <1>1, VoteNext, ElectionNext DEF TInv
<1> QED BY <1>2, ElectionInit, TypeInvariant, Durable, PTL DEF Spec

\* At most one peer leads a term, for any number of peers, under lost, delayed and
\* reordered calls and under crashes, also inside a handler.
THEOREM ElectionSafe == Spec => []ElectionSafety
<1>1. TInv /\ EInv => ElectionSafety
  BY QuorumsMeet DEF TInv
<1> QED BY <1>1, ElectionInvariant, TypeInvariant, PTL

\* The counter of an election is the number of peers that granted it their vote.
THEOREM VotesCounted == Spec => []VoteCountExact
<1>1. EInv => VoteCountExact
  BY DEF EInv
<1> QED BY <1>1, ElectionInvariant, PTL

-----------------------------------------------------------------------------
(* The terms of log entries.  Logs are cut, overwritten and sent again by  *)
(* peers that lead no more; what stays is that a majority of the peers has *)
(* reached the term of every entry, and so has every peer that holds it.   *)

\* The terms a majority of the peers has reached
ReachedTerms ==
    {T \in Nat : 2 * Cardinality({v \in Server : currentTerm[v] >= T}) > Cardinality(Server)}

\* The terms of the entries of x are in R, none is past T
Bounded(x, T, R) == \A i \in 1..Len(x) : x[i].Term <= T /\ x[i].Term \in R

LogsReached == \A s \in Server : Bounded(log[s], currentTerm[s], ReachedTerms)

CallsReached == \A m \in aeReq : Bounded(m.Entries, m.Term, ReachedTerms)

LEMMA BoundedMore ==
    ASSUME NEW x \in Seq(Entry), NEW T \in Nat, NEW U \in Nat, T <= U,
           NEW R, NEW S, R \subseteq S, Bounded(x, T, R)
    PROVE  Bounded(x, U, S)
<1> SUFFICES ASSUME NEW i \in 1..Len(x) PROVE x[i].Term <= U /\ x[i].Term \in S
  BY DEF Bounded
<1>1. x[i].Term <= T /\ x[i].Term \in R
  BY DEF Bounded
<1>2. x[i] \in Entry
  BY ElementOfSeq
<1>3. x[i].Term \in Nat
  BY <1>2 DEF Entry
<1> QED BY <1>1, <1>3

LEMMA BoundedConcat ==
    ASSUME NEW x \in Seq(Entry), NEW y \in Seq(Entry), NEW T, NEW R,
           Bounded(x, T, R), Bounded(y, T, R)
    PROVE  Bounded(x \o y, T, R)
<1>0. Len(x) \in Nat /\ Len(y) \in Nat
  BY LenProperties
<1>1. Len(x \o y) = Len(x) + Len(y)
  BY ConcatProperties
<1> SUFFICES ASSUME NEW i \in 1..(Len(x) + Len(y))
             PROVE  (x \o y)[i].Term <= T /\ (x \o y)[i].Term \in R
  BY <1>1 DEF Bounded
<1>2. (x \o y)[i] = IF i <= Len(x) THEN x[i] ELSE y[i - Len(x)]
  BY ConcatProperties
<1>3. CASE i <= Len(x)
  BY <1>0, <1>2, <1>3 DEF Bounded
<1>4. CASE i > Len(x)
  <2>1. i - Len(x) \in 1..Len(y) /\ ~(i <= Len(x))
    BY <1>0, <1>4
  <2> QED BY <1>2, <2>1 DEF Bounded
<1> QED BY <1>0, <1>3, <1>4

LEMMA BoundedSubSeq ==
    ASSUME NEW x \in Seq(Entry), NEW T, NEW R, Bounded(x, T, R),
           NEW a \in Nat, a >= 1, NEW b \in Nat, b <= Len(x)
    PROVE  Bounded(SubSeq(x, a, b), T, R) /\ SubSeq(x, a, b) \in Seq(Entry)
<1>0. Len(x) \in Nat
  BY LenProperties
<1>1. \A i \in a..b : x[i] \in Entry
  BY <1>0, ElementOfSeq
<1>2. /\ Len(SubSeq(x, a, b)) = IF a <= b THEN b - a + 1 ELSE 0
      /\ \A i \in 1..(b - a + 1) : SubSeq(x, a, b)[i] = x[a + i - 1]
      /\ SubSeq(x, a, b) \in Seq(Entry)
  BY <1>1, SubSeqProperties
<1>3. ASSUME NEW i \in 1..Len(SubSeq(x, a, b))
      PROVE  SubSeq(x, a, b)[i].Term <= T /\ SubSeq(x, a, b)[i].Term \in R
  <2>1. i \in 1..(b - a + 1) /\ a + i - 1 \in 1..Len(x)
    BY <1>0, <1>2
  <2> QED BY <1>2, <2>1 DEF Bounded
<1> QED BY <1>2, <1>3 DEF Bounded

LEMMA BoundedNewLog ==
    ASSUME NEW x \in Seq(Entry), NEW es \in Seq(Entry), NEW prev \in 0..Len(x), NEW T, NEW R,
           Bounded(x, T, R), Bounded(es, T, R)
    PROVE  Bounded(NewLog(x, prev, es), T, R)
<1> DEFINE C == Conflicts(x, prev, es)
           n == IF C = {} THEN prev ELSE prev + Min(C) - 1
<1>0. Len(x) \in Nat /\ Len(es) \in Nat /\ prev \in Nat /\ prev <= Len(x)
  BY LenProperties
<1>1. n \in Nat /\ n <= Len(x)
  <2>1. CASE C = {}
    BY <1>0, <2>1
  <2>2. CASE C # {}
    <3>1. C \subseteq Nat /\ \A i \in C : i \in 1..Len(es) /\ prev + i < Len(x)
      BY <1>0 DEF Conflicts
    <3>2. Min(C) \in C
      BY <2>2, <3>1, MinNat
    <3>3. Min(C) \in 1..Len(es) /\ prev + Min(C) < Len(x)
      BY <3>1, <3>2
    <3> QED BY <1>0, <2>2, <3>3
  <2> QED BY <2>1, <2>2
<1>2. NewLog(x, prev, es) = SubSeq(x, 1, n) \o es
  BY DEF NewLog
<1> HIDE DEF n
<1>3. Bounded(SubSeq(x, 1, n), T, R) /\ SubSeq(x, 1, n) \in Seq(Entry)
  BY <1>1, BoundedSubSeq
<1> QED BY <1>2, <1>3, BoundedConcat

\* Terms never decrease, so a term that was reached stays so.
LEMMA ReachedKept ==
    ASSUME TypeOK, TypeOK', VoteStep
    PROVE  ReachedTerms \subseteq ReachedTerms'
<1> SUFFICES ASSUME NEW T \in ReachedTerms PROVE T \in ReachedTerms'
  OBVIOUS
<1> DEFINE A == {v \in Server : currentTerm[v] >= T}
           B == {v \in Server : currentTerm'[v] >= T}
<1>1. T \in Nat /\ 2 * Cardinality(A) > Cardinality(Server)
  BY DEF ReachedTerms
<1>2. A \subseteq B
  <2> SUFFICES ASSUME NEW v \in Server, currentTerm[v] >= T PROVE currentTerm'[v] >= T
    OBVIOUS
  <2>1. currentTerm[v] \in Nat /\ currentTerm'[v] \in Nat /\ currentTerm'[v] >= currentTerm[v]
    BY DEF TypeOK, VoteStep
  <2> QED BY <1>1, <2>1
<1>3. B \subseteq Server
  OBVIOUS
<1> DEFINE goal == 2 * Cardinality(B) > Cardinality(Server)
<1>4. goal => T \in ReachedTerms'
  BY <1>1 DEF ReachedTerms
<1> HIDE DEF A, B
<1>5. IsFiniteSet(B) /\ IsFiniteSet(Server)
  BY <1>3, FS_Subset, ServerAssumption
<1>6. IsFiniteSet(A) /\ Cardinality(A) <= Cardinality(B)
  BY <1>2, <1>5, FS_Subset
<1>7. Cardinality(A) \in Nat /\ Cardinality(B) \in Nat /\ Cardinality(Server) \in Nat
  BY <1>5, <1>6, FS_CardinalityType
<1>8. goal
  BY <1>1, <1>6, <1>7
<1> QED BY <1>4, <1>8

\* A leader's term has been reached by those that voted for it.
LEMMA LeaderReached ==
    ASSUME TypeOK, EInv, NEW s \in Server, whoami[s] = Leader
    PROVE  currentTerm[s] \in ReachedTerms
<1> DEFINE T == currentTerm[s]
           Q == voters[s]
           B == {v \in Server : currentTerm[v] >= T}
<1>1. Q \in SUBSET Server /\ T \in Nat /\ B \subseteq Server
  BY DEF TypeOK
<1>2. Cardinality(Q) > Cardinality(Server) \div 2
  BY DEF EInv, VoteCountExact, LeaderQuorum, WinsElection
<1>3. Q \subseteq B
  <2> SUFFICES ASSUME NEW v \in Q PROVE v \in Server /\ currentTerm[v] >= T
    OBVIOUS
  <2>1. v \in Server /\ Holds(v, s, T)
    BY <1>1 DEF Holds, Leader, Follower
  <2>2. Promised(v, s, T)
    BY <1>1, <2>1 DEF EInv, HoldsPromised
  <2>3. currentTerm[v] \in Nat
    BY <2>1 DEF TypeOK
  <2> QED BY <1>1, <2>1, <2>2, <2>3 DEF Promised
<1> DEFINE goal == 2 * Cardinality(B) > Cardinality(Server)
<1>4. goal => T \in ReachedTerms
  BY <1>1 DEF ReachedTerms
<1> HIDE DEF B, Q
<1>5. IsFiniteSet(B) /\ IsFiniteSet(Server)
  BY <1>1, FS_Subset, ServerAssumption
<1>6. IsFiniteSet(Q) /\ Cardinality(Q) <= Cardinality(B)
  BY <1>3, <1>5, FS_Subset
<1>7. Cardinality(Q) \in Nat /\ Cardinality(B) \in Nat /\ Cardinality(Server) \in Nat
  BY <1>5, <1>6, FS_CardinalityType
<1>8. goal
  BY <1>2, <1>6, <1>7
<1> QED BY <1>4, <1>8

\* What the steps that change no log do to the two parts
LEMMA ReachedSame ==
    ASSUME TypeOK, TypeOK', VoteStep, LogsReached, log' = log
    PROVE  LogsReached'
<1> SUFFICES ASSUME NEW s \in Server PROVE Bounded(log'[s], currentTerm'[s], ReachedTerms')
  BY DEF LogsReached
<1>1. Bounded(log[s], currentTerm[s], ReachedTerms)
  BY DEF LogsReached
<1>2. /\ log[s] \in Seq(Entry) /\ currentTerm[s] \in Nat /\ currentTerm'[s] \in Nat
      /\ currentTerm[s] <= currentTerm'[s]
  BY DEF TypeOK, VoteStep
<1>3. ReachedTerms \subseteq ReachedTerms'
  BY ReachedKept
<1> QED BY <1>1, <1>2, <1>3, BoundedMore

LEMMA ReachedCalls ==
    ASSUME TypeOK, TypeOK', VoteStep, CallsReached,
           \A m \in aeReq' : \E n \in aeReq : m.Term = n.Term /\ m.Entries = n.Entries
    PROVE  CallsReached'
<1> SUFFICES ASSUME NEW m \in aeReq' PROVE Bounded(m.Entries, m.Term, ReachedTerms')
  BY DEF CallsReached
<1>1. PICK n \in aeReq : m.Term = n.Term /\ m.Entries = n.Entries
  OBVIOUS
<1>2. Bounded(n.Entries, n.Term, ReachedTerms) /\ n.Entries \in Seq(Entry) /\ n.Term \in Nat
  BY DEF CallsReached, TypeOK, AEArgs
<1>3. ReachedTerms \subseteq ReachedTerms' /\ n.Term <= n.Term
  BY <1>2, ReachedKept
<1>4. Bounded(n.Entries, n.Term, ReachedTerms')
  BY <1>2, <1>3, BoundedMore
<1> QED BY <1>1, <1>4

LEMMA ReachedStart ==
    ASSUME TypeOK, TypeOK', VoteStep, EInv, LogsReached, CallsReached,
           NEW s \in Server, NEW c \in Command, Start(s, c)
    PROVE  LogsReached' /\ CallsReached'
<1> DEFINE e == [Term |-> currentTerm[s], Command |-> c]
<1>1. /\ whoami[s] = Leader /\ log' = [log EXCEPT ![s] = Append(log[s], e)]
      /\ UNCHANGED <<currentTerm, aeReq>>
  BY DEF Start, electionVars, aeVars
<1>2. /\ log[s] \in Seq(Entry) /\ currentTerm[s] \in Nat /\ e \in Entry /\ e.Term = currentTerm[s]
      /\ ReachedTerms' = ReachedTerms
  BY <1>1 DEF TypeOK, Entry, ReachedTerms
<1>3. e.Term \in ReachedTerms /\ e.Term <= currentTerm[s]
  BY <1>1, <1>2, LeaderReached
<1> HIDE DEF e
<1>4. Bounded(Append(log[s], e), currentTerm[s], ReachedTerms)
  <2>1. Bounded(log[s], currentTerm[s], ReachedTerms)
    BY DEF LogsReached
  <2>2. /\ Len(Append(log[s], e)) = Len(log[s]) + 1 /\ Append(log[s], e)[Len(log[s]) + 1] = e
        /\ \A i \in 1..Len(log[s]) : Append(log[s], e)[i] = log[s][i]
    BY <1>2, AppendProperties
  <2>3. Len(log[s]) \in Nat
    BY <1>2, LenProperties
  <2> SUFFICES ASSUME NEW i \in 1..(Len(log[s]) + 1)
               PROVE  /\ Append(log[s], e)[i].Term <= currentTerm[s]
                      /\ Append(log[s], e)[i].Term \in ReachedTerms
    BY <2>2 DEF Bounded
  <2>4. i \in 1..Len(log[s]) \/ i = Len(log[s]) + 1
    BY <2>3
  <2> QED BY <1>3, <2>1, <2>2, <2>4 DEF Bounded
<1>5. ASSUME NEW t \in Server PROVE Bounded(log'[t], currentTerm'[t], ReachedTerms')
  <2>1. CASE t = s
    <3>1. log'[t] = Append(log[s], e)
      BY <1>1, <2>1 DEF TypeOK
    <3> QED BY <1>1, <1>2, <1>4, <2>1, <3>1
  <2>2. CASE t # s
    <3>1. log'[t] = log[t]
      BY <1>1, <2>2 DEF TypeOK
    <3> QED BY <1>1, <1>2, <3>1 DEF LogsReached
  <2> QED BY <2>1, <2>2
<1>6. CallsReached'
  BY <1>1, <1>2 DEF CallsReached
<1> QED BY <1>5, <1>6 DEF LogsReached

\* A call carries entries of its sender's log under its sender's term.
LEMMA ReachedSend ==
    ASSUME TInv, TypeOK', VoteStep, LogsReached, CallsReached, NEW s \in Server, NEW t \in Server,
           SendAppendEntries(s, t)
    PROVE  LogsReached' /\ CallsReached'
<1> DEFINE next == nextIndex[s][t]
<1>0. TypeOK
  BY DEF TInv
<1>1. /\ next \in Nat /\ next >= 1 /\ log[s] \in Seq(Entry) /\ Len(log[s]) \in Nat
      /\ Bounded(log[s], currentTerm[s], ReachedTerms)
  BY <1>0, LenProperties DEF TInv, TypeOK, NextIndexAtLeastOne, LogsReached
<1>2. UNCHANGED <<log, currentTerm>>
  BY DEF SendAppendEntries, logVars, electionVars
<1>3. ReachedTerms' = ReachedTerms
  BY <1>2 DEF ReachedTerms
<1>4. Bounded(EntriesFrom(log[s], next), currentTerm[s], ReachedTerms)
  <2> HIDE DEF next
  <2>1. Bounded(SubSeq(log[s], next, Len(log[s])), currentTerm[s], ReachedTerms)
    BY <1>1, BoundedSubSeq
  <2> QED BY <2>1 DEF EntriesFrom
<1>5. ASSUME NEW m \in aeReq' PROVE Bounded(m.Entries, m.Term, ReachedTerms)
  <2>1. m \in aeReq \/ (m.Term = currentTerm[s] /\ m.Entries = EntriesFrom(log[s], next))
    BY DEF SendAppendEntries
  <2> QED BY <1>4, <2>1 DEF CallsReached
<1>6. CallsReached'
  BY <1>3, <1>5 DEF CallsReached
<1> QED BY <1>0, <1>2, <1>6, ReachedSame

LEMMA ReachedAppend ==
    ASSUME TypeOK, TypeOK', VoteStep, LogsReached, CallsReached, NEW m \in aeReq, AppendEntries(m)
    PROVE  LogsReached' /\ CallsReached'
<1> DEFINE s == m.dst
           p == m.PrevLogIndex
           x == log[s]
           new == NewLog(x, p, m.Entries)
<1>1. /\ s \in Server /\ p \in Nat /\ m.Entries \in Seq(Entry) /\ m.Term \in Nat
      /\ Bounded(m.Entries, m.Term, ReachedTerms)
  BY DEF TypeOK, AEArgs, CallsReached
<1>2. aeReq' \subseteq aeReq
  BY DEF AppendEntries
<1>3. CallsReached'
  BY <1>2, ReachedCalls
<1>4. CASE AppendRejected(s, m)
  <2>1. log' = log
    BY <1>4 DEF AppendRejected, logVars
  <2> QED BY <1>3, <2>1, ReachedSame
<1>5. CASE AppendAccepted(s, m)
  <2>1. log' = [log EXCEPT ![s] = new] /\ p <= Len(x) /\ m.Term >= currentTerm[s] /\ AdoptTerm(s, m)
    BY <1>5 DEF AppendAccepted
  <2>2. x \in Seq(Entry) /\ Len(x) \in Nat /\ currentTerm[s] \in Nat /\ Bounded(x, currentTerm[s], ReachedTerms)
    BY <1>1, LenProperties DEF TypeOK, LogsReached
  <2>3. currentTerm'[s] = m.Term
    <3>1. CASE m.Term > currentTerm[s]
      <4>1. currentTerm' = [currentTerm EXCEPT ![s] = m.Term]
        BY <2>1, <3>1 DEF AdoptTerm, convertToFollower
      <4> QED BY <1>1, <4>1 DEF TypeOK
    <3>2. CASE ~(m.Term > currentTerm[s])
      <4>1. currentTerm' = currentTerm
        BY <2>1, <3>2 DEF AdoptTerm
      <4>2. m.Term = currentTerm[s]
        BY <1>1, <2>1, <2>2, <3>2
      <4> QED BY <4>1, <4>2
    <3> QED BY <3>1, <3>2
  <2>4. p \in 0..Len(x)
    BY <1>1, <2>1, <2>2
  <2> HIDE DEF x, p
  <2>5. ReachedTerms \subseteq ReachedTerms'
    BY ReachedKept
  <2>6. Bounded(x, m.Term, ReachedTerms') /\ Bounded(m.Entries, m.Term, ReachedTerms')
    <3>1. currentTerm[s] <= m.Term /\ m.Term <= m.Term
      BY <1>1, <2>1, <2>2
    <3> HIDE DEF s
    <3>2. Bounded(x, m.Term, ReachedTerms')
      BY <1>1, <2>2, <2>5, <3>1, BoundedMore
    <3>3. Bounded(m.Entries, m.Term, ReachedTerms')
      BY <1>1, <2>5, <3>1, BoundedMore
    <3> QED BY <3>2, <3>3
  <2>7. Bounded(new, m.Term, ReachedTerms')
    BY <1>1, <2>2, <2>4, <2>6, BoundedNewLog
  <2> HIDE DEF new
  <2>8. ASSUME NEW t \in Server PROVE Bounded(log'[t], currentTerm'[t], ReachedTerms')
    <3>1. CASE t = s
      <4>1. log'[t] = new
        BY <2>1, <3>1 DEF TypeOK
      <4> QED BY <2>3, <2>7, <3>1, <4>1
    <3>2. CASE t # s
      <4>1. log'[t] = log[t]
        BY <2>1, <3>2 DEF TypeOK
      <4>2. /\ log[t] \in Seq(Entry) /\ currentTerm[t] \in Nat /\ currentTerm'[t] \in Nat
            /\ currentTerm[t] <= currentTerm'[t] /\ Bounded(log[t], currentTerm[t], ReachedTerms)
        BY DEF TypeOK, VoteStep, LogsReached
      <4>3. Bounded(log[t], currentTerm'[t], ReachedTerms')
        BY <2>5, <4>2, BoundedMore
      <4> QED BY <4>1, <4>3
    <3> QED BY <3>1, <3>2
  <2> QED BY <1>3, <2>8 DEF LogsReached
<1> QED BY <1>4, <1>5 DEF AppendEntries

\* Both kinds of restart bring back the log of the peer.
LEMMA RebootKeepsLog ==
    ASSUME TypeOK, DurableState,
           \/ \E s \in Server : Restart(s)
           \/ \E m \in rvReq \cup aeReq : RestartInHandler(m)
    PROVE  \E s \in Server : \E data, done : Reboot(s, data, done) /\ log' = log
<1>1. ASSUME NEW s \in Server, NEW data, NEW done, Reboot(s, data, done), ReadPersist(data).log = log[s]
      PROVE  log' = log
  BY <1>1 DEF Reboot, TypeOK
<1>2. ASSUME NEW s \in Server, Restart(s)
      PROVE  \E data, done : Reboot(s, data, done) /\ log' = log
  <2>1. ReadPersist(raftstate[s]) =
          [currentTerm |-> currentTerm[s], votedFor |-> votedFor[s], log |-> log[s]]
    BY DEF DurableState
  <2>2. ReadPersist(raftstate[s]).log = log[s]
    BY <2>1
  <2> QED BY <1>1, <1>2, <2>2 DEF Restart
<1>3. ASSUME NEW m \in rvReq \cup aeReq, RestartInHandler(m)
      PROVE  m.dst \in Server /\ \E data, done : Reboot(m.dst, data, done) /\ log' = log
  <2> DEFINE data == << [currentTerm |-> m.Term, votedFor |-> Nil, log |-> log[m.dst]] >>
  <2>1. m.dst \in Server
    BY DEF TypeOK, RVArgs, AEArgs
  <2>2. ReadPersist(data).log = log[m.dst]
    BY DEF ReadPersist
  <2>3. Reboot(m.dst, data, {m})
    BY <1>3 DEF RestartInHandler
  <2> HIDE DEF data
  <2> QED BY <1>1, <2>1, <2>2, <2>3
<1> QED BY <1>2, <1>3

LEMMA ReachedReboot ==
    ASSUME TypeOK, TypeOK', VoteStep, LogsReached, CallsReached,
           NEW s \in Server, NEW data, NEW done, Reboot(s, data, done), log' = log
    PROVE  LogsReached' /\ CallsReached'
<1>1. LogsReached'
  BY ReachedSame
<1>2. ASSUME NEW m \in aeReq'
      PROVE  \E n \in aeReq : m.Term = n.Term /\ m.Entries = n.Entries
  <2>1. PICK n \in aeReq : m = IF n.LeaderId = s THEN Orphaned(n) ELSE n
    BY DEF Reboot
  <2>2. n \in AEArgs
    BY DEF TypeOK
  <2>3. m.Term = n.Term /\ m.Entries = n.Entries
    BY <2>1, <2>2 DEF Orphaned, AEArgs
  <2> QED BY <2>3
<1>3. CallsReached'
  BY <1>2, ReachedCalls
<1> QED BY <1>1, <1>3

\* The steps no log, no call and no applier takes part in
QuietStep ==
    \/ \E s \in Server : StartElection(s)
    \/ \E m \in rvReq : RequestVote(m)
    \/ \E r \in rvRep : HandleRequestVoteReply(r)
    \/ \E r \in aeRep : HandleAppendEntriesReply(r)
    \/ CallFails
    \/ UNCHANGED vars

LEMMA QuietKeeps ==
    ASSUME QuietStep
    PROVE  UNCHANGED <<log, residue, spawned, applied, applyBuf>> /\ aeReq' \subseteq aeReq
<1>1. ASSUME NEW r \in aeRep, HandleAppendEntriesReply(r)
      PROVE  UNCHANGED <<log, residue, spawned, applied, applyBuf>> /\ aeReq' = aeReq
  BY <1>1 DEF HandleAppendEntriesReply, AppendReplyObsolete, AppendReplyFailure,
              AppendReplySuccess, applyVars
<1>2. ASSUME \/ \E s \in Server : StartElection(s)
             \/ \E m \in rvReq : RequestVote(m)
             \/ \E r \in rvRep : HandleRequestVoteReply(r)
             \/ CallFails
             \/ UNCHANGED vars
      PROVE  UNCHANGED <<log, residue, spawned, applied, applyBuf>> /\ aeReq' \subseteq aeReq
  BY <1>2 DEF StartElection, RequestVote, HandleRequestVoteReply, CallFails, vars, logVars,
              applyVars, aeVars
<1> QED BY <1>1, <1>2 DEF QuietStep

LEMMA ReachedInit == Init => LogsReached /\ CallsReached
BY DEF Init, LogsReached, CallsReached, Bounded

LEMMA ReachedNext ==
    ASSUME TInv, TInv', DurableState, EInv, LogsReached, CallsReached, [Next]_vars
    PROVE  LogsReached' /\ CallsReached'
<1>0. TypeOK /\ TypeOK' /\ VoteStep
  BY VoteNext DEF TInv
<1>1. CASE log' = log /\ aeReq' \subseteq aeReq
  <2>1. LogsReached'
    BY <1>0, <1>1, ReachedSame
  <2>2. CallsReached'
    BY <1>0, <1>1, ReachedCalls
  <2> QED BY <2>1, <2>2
<1>2. CASE QuietStep
  BY <1>1, <1>2, QuietKeeps
<1>3. CASE \E s \in Server, c \in Command : Start(s, c)
  BY <1>0, <1>3, ReachedStart
<1>4. CASE \E s \in Server : Heartbeat(s) \/ ApplyCopy(s) \/ ApplySend(s)
  <2>1. log' = log /\ aeReq' = aeReq
    BY <1>4 DEF Heartbeat, ApplyCopy, ApplySend, logVars, aeVars
  <2> QED BY <1>1, <2>1
<1>5. CASE \E s \in Server : \E t \in Peers(s) : SendAppendEntries(s, t)
  BY <1>0, <1>5, ReachedSend DEF Peers
<1>6. CASE \E m \in aeReq : AppendEntries(m)
  BY <1>0, <1>6, ReachedAppend
<1>7. CASE \/ \E s \in Server : Restart(s)
           \/ \E m \in rvReq \cup aeReq : RestartInHandler(m)
  BY <1>0, <1>7, RebootKeepsLog, ReachedReboot
<1>8. Next \/ UNCHANGED vars
  OBVIOUS
<1> QED BY <1>2, <1>3, <1>4, <1>5, <1>6, <1>7, <1>8 DEF Next, QuietStep

\* Every entry of every log is of a term that its holder and a majority of the peers have
\* reached, for any number of peers, terms, deposed leaders, late calls and crashes.
THEOREM EntriesElected == Spec => []EntryTermsElected
<1>1. TInv /\ TInv' /\ DurableState /\ EInv /\ LogsReached /\ CallsReached /\ [Next]_vars
        => LogsReached' /\ CallsReached'
  BY ReachedNext
<1>2. LogsReached => EntryTermsElected
  BY DEF LogsReached, Bounded, ReachedTerms, EntryTermsElected
<1> QED BY <1>1, <1>2, ReachedInit, TypeInvariant, Durable, ElectionInvariant, PTL DEF Spec

-----------------------------------------------------------------------------
(* The logs under one leader.  When two peers lead, one after the other,   *)
(* the properties below fail: a goroutine of the deposed leader sends its  *)
(* old log under the new term, also to the new leader.  They hold in every *)
(* behaviour in which a single peer o ever leads, over any number of terms *)
(* and elections, deposed by candidates that do not win and elected again, *)
(* with lost, repeated and late calls of its earlier terms and lives, and  *)
(* restarts: nobody calls o, so its log only grows, and everything that is *)
(* logged, on its way, or applied is in it.                                *)

\* Nobody but o is the leader
OnlyLeads(o) == \A s \in Server : whoami[s] = Leader => s = o

\* The elements of x are those of l from index k + 1 on
Within(l, k, x) == \A i \in 1..Len(x) : k + i \in 1..Len(l) /\ x[i] = l[k + i]

\* Log l2 begins with log l1
Extends(l1, l2) == \A i \in 1..Len(l1) : i \in 1..Len(l2) /\ l2[i] = l1[i]

LEMMA WithinSelf == ASSUME NEW l \in Seq(Entry) PROVE Within(l, 0, l) /\ Extends(l, l)
BY LenProperties DEF Within, Extends

LEMMA WithinEmpty == ASSUME NEW l, NEW k PROVE Within(l, k, <<>>)
BY DEF Within

LEMMA WithinExtends ==
    ASSUME NEW l1 \in Seq(Entry), NEW l2 \in Seq(Entry), Extends(l1, l2),
           NEW k \in Nat, NEW x, Within(l1, k, x)
    PROVE  Within(l2, k, x)
BY DEF Within, Extends

LEMMA WithinConcat ==
    ASSUME NEW l \in Seq(Entry), NEW k \in Nat, NEW x \in Seq(Entry), NEW y \in Seq(Entry),
           Within(l, k, x), Within(l, k + Len(x), y)
    PROVE  Within(l, k, x \o y)
<1>0. Len(x) \in Nat /\ Len(y) \in Nat
  BY LenProperties
<1>1. Len(x \o y) = Len(x) + Len(y)
  BY ConcatProperties
<1> SUFFICES ASSUME NEW i \in 1..(Len(x) + Len(y))
             PROVE  k + i \in 1..Len(l) /\ (x \o y)[i] = l[k + i]
  BY <1>1 DEF Within
<1>2. (x \o y)[i] = IF i <= Len(x) THEN x[i] ELSE y[i - Len(x)]
  BY ConcatProperties
<1>3. CASE i <= Len(x)
  BY <1>0, <1>2, <1>3 DEF Within
<1>4. CASE i > Len(x)
  <2>1. i - Len(x) \in 1..Len(y) /\ (k + Len(x)) + (i - Len(x)) = k + i
    BY <1>0, <1>4
  <2> QED BY <1>0, <1>2, <1>4, <2>1 DEF Within
<1> QED BY <1>0, <1>3, <1>4

LEMMA WithinSubSeq ==
    ASSUME NEW l \in Seq(Entry), NEW k \in Nat, NEW x \in Seq(Entry), Within(l, k, x),
           NEW a \in Nat, a >= 1, NEW b \in Nat, b <= Len(x) \/ b < a
    PROVE  Within(l, k + a - 1, SubSeq(x, a, b))
<1>0. Len(x) \in Nat
  BY LenProperties
<1>1. \A i \in a..b : x[i] \in Entry
  BY <1>0, ElementOfSeq
<1>2. /\ Len(SubSeq(x, a, b)) = IF a <= b THEN b - a + 1 ELSE 0
      /\ \A i \in 1..(b - a + 1) : SubSeq(x, a, b)[i] = x[a + i - 1]
  BY <1>1, SubSeqProperties
<1> SUFFICES ASSUME NEW i \in 1..Len(SubSeq(x, a, b))
             PROVE  /\ (k + a - 1) + i \in 1..Len(l)
                    /\ SubSeq(x, a, b)[i] = l[(k + a - 1) + i]
  BY DEF Within
<1>3. a <= b /\ i \in 1..(b - a + 1) /\ a + i - 1 \in 1..Len(x)
      /\ k + (a + i - 1) = (k + a - 1) + i
  BY <1>0, <1>2
<1> QED BY <1>2, <1>3 DEF Within

\* Logs that lie within one log agree as far as both go.
LEMMA WithinAgree ==
    ASSUME NEW l \in Seq(Entry), NEW x \in Seq(Entry), NEW y \in Seq(Entry),
           Within(l, 0, x), Within(l, 0, y),
           NEW n \in Nat, n <= Len(x), n <= Len(y)
    PROVE  SubSeq(x, 1, n) = SubSeq(y, 1, n)
<1>0. Len(x) \in Nat /\ Len(y) \in Nat
  BY LenProperties
<1>1. ASSUME NEW i \in 1..n PROVE x[i] = y[i] /\ x[i] \in Entry /\ y[i] \in Entry
  <2>1. i \in 1..Len(x) /\ i \in 1..Len(y) /\ 0 + i = i
    BY <1>0
  <2>2. x[i] = l[0 + i] /\ y[i] = l[0 + i]
    BY <2>1 DEF Within
  <2> QED BY <2>1, <2>2, ElementOfSeq
<1>2. /\ SubSeq(x, 1, n) \in Seq(Entry) /\ SubSeq(y, 1, n) \in Seq(Entry)
      /\ Len(SubSeq(x, 1, n)) = Len(SubSeq(y, 1, n))
      /\ Len(SubSeq(x, 1, n)) = n
      /\ \A i \in 1..n : SubSeq(x, 1, n)[i] = x[i] /\ SubSeq(y, 1, n)[i] = y[i]
  BY <1>1, SubSeqProperties
<1> QED BY <1>1, <1>2, SeqEqual

\* The entries of a call that lie where the call says find no conflict in a log of
\* the same entries, and the new log is again within the leader's.
LEMMA NewLogWithin ==
    ASSUME NEW l \in Seq(Entry), NEW x \in Seq(Entry), NEW es \in Seq(Entry),
           NEW prev \in 0..Len(x), Within(l, 0, x), Within(l, prev, es)
    PROVE  Within(l, 0, NewLog(x, prev, es))
<1>0. Len(x) \in Nat /\ Len(es) \in Nat /\ prev \in Nat /\ prev <= Len(x)
  BY LenProperties
<1>1. ASSUME NEW i \in Conflicts(x, prev, es) PROVE FALSE
  <2>1. i \in 1..Len(es) /\ prev + i < Len(x) /\ LogTerm(x, prev + i) # es[i].Term
    BY DEF Conflicts
  <2>2. prev + i \in 1..Len(x) /\ 0 + (prev + i) = prev + i
    BY <1>0, <2>1
  <2>3. es[i] = l[prev + i] /\ x[prev + i] = l[prev + i]
    BY <2>1, <2>2 DEF Within
  <2>4. LogTerm(x, prev + i) = x[prev + i].Term
    BY <2>2 DEF LogTerm
  <2> QED BY <2>1, <2>3, <2>4
<1>2. NewLog(x, prev, es) = SubSeq(x, 1, prev) \o es
  BY <1>1 DEF NewLog
<1>3. Within(l, 0, SubSeq(x, 1, prev))
  <2>1. Within(l, 0 + 1 - 1, SubSeq(x, 1, prev))
    BY <1>0, WithinSubSeq
  <2> QED BY <2>1
<1>4. SubSeq(x, 1, prev) \in Seq(Entry) /\ Len(SubSeq(x, 1, prev)) = prev
  <2>1. \A i \in 1..prev : x[i] \in Entry
    BY <1>0, ElementOfSeq
  <2> QED BY <1>0, <2>1, SubSeqProperties
<1>5. Within(l, 0 + Len(SubSeq(x, 1, prev)), es)
  BY <1>0, <1>4
<1> QED BY <1>2, <1>3, <1>4, <1>5, WithinConcat

LEMMA ResidueWithin ==
    ASSUME NEW l \in Seq(Entry), NEW x \in Seq(Entry), NEW r \in Seq(Entry),
           Within(l, 0, x), Within(l, Len(x), r),
           NEW n \in Nat, NEW c \in Nat, c <= n \/ c <= Len(x) + Len(r)
    PROVE  Within(l, n, Residue(x, r, n, c))
<1>0. Len(x) \in Nat /\ Len(r) \in Nat
  BY LenProperties
<1>1. x \o r \in Seq(Entry) /\ Len(x \o r) = Len(x) + Len(r)
  BY ConcatProperties
<1>2. Within(l, 0, x \o r)
  <2>1. Within(l, 0 + Len(x), r)
    BY <1>0
  <2> QED BY <2>1, WithinConcat
<1>3. Within(l, 0 + (n + 1) - 1, SubSeq(x \o r, n + 1, c))
  <2>1. n + 1 \in Nat /\ n + 1 >= 1 /\ (c <= Len(x \o r) \/ c < n + 1)
    BY <1>0, <1>1
  <2> HIDE DEF Within
  <2> QED BY <1>1, <1>2, <2>1, WithinSubSeq
<1>4. 0 + (n + 1) - 1 = n
  OBVIOUS
<1> QED BY <1>3, <1>4 DEF Residue

\* Everything in the system comes from the log of o
LogsFollow(o) ==
    \A t \in Server : Within(log[o], 0, log[t]) /\ Within(log[o], Len(log[t]), residue[t])

CallsFollow(o) == \A m \in aeReq : m.dst # o /\ Within(log[o], m.PrevLogIndex, m.Entries)

SpawnedFollow(o) == \A s, t \in Server : spawned[s][t] > 0 => s = o /\ t # o

CommandAt(l, e) == e.CommandIndex \in 1..Len(l) /\ l[e.CommandIndex].Command = e.Command

AppliedFollow(o) ==
    \A t \in Server :
        /\ \A e \in applied[t] : CommandAt(log[o], e)
        /\ \A k \in 1..Len(applyBuf[t]) : CommandAt(log[o], applyBuf[t][k])

Follows(o) == LogsFollow(o) /\ CallsFollow(o) /\ SpawnedFollow(o) /\ AppliedFollow(o)

\* What the steps that touch no log do to Follows
LEMMA CallsFewer ==
    ASSUME TypeOK, TypeOK', NEW o \in Server, CallsFollow(o), Extends(log[o], log'[o]),
           \A m \in aeReq' : \E n \in aeReq :
               m.dst = n.dst /\ m.PrevLogIndex = n.PrevLogIndex /\ m.Entries = n.Entries
    PROVE  CallsFollow(o)'
<1> SUFFICES ASSUME NEW m \in aeReq' PROVE m.dst # o /\ Within(log'[o], m.PrevLogIndex, m.Entries)
  BY DEF CallsFollow
<1>1. PICK n \in aeReq : m.dst = n.dst /\ m.PrevLogIndex = n.PrevLogIndex /\ m.Entries = n.Entries
  OBVIOUS
<1>2. n.dst # o /\ Within(log[o], n.PrevLogIndex, n.Entries)
  BY DEF CallsFollow
<1>3. n.PrevLogIndex \in Nat /\ log[o] \in Seq(Entry) /\ log'[o] \in Seq(Entry)
  BY DEF TypeOK, AEArgs
<1>4. Within(log'[o], n.PrevLogIndex, n.Entries)
  BY <1>2, <1>3, WithinExtends
<1> QED BY <1>1, <1>2, <1>4

LEMMA AppliedFewer ==
    ASSUME TypeOK, TypeOK', NEW o \in Server, AppliedFollow(o), Extends(log[o], log'[o]),
           applied' = applied,
           \A t \in Server : applyBuf'[t] = applyBuf[t] \/ applyBuf'[t] = <<>>
    PROVE  AppliedFollow(o)'
<1>1. ASSUME NEW e, CommandAt(log[o], e) PROVE CommandAt(log'[o], e)
  BY <1>1 DEF CommandAt, Extends
<1>2. ASSUME NEW t \in Server PROVE \A e \in applied'[t] : CommandAt(log'[o], e)
  BY <1>1 DEF AppliedFollow
<1>3. ASSUME NEW t \in Server, NEW k \in 1..Len(applyBuf'[t])
      PROVE  CommandAt(log'[o], applyBuf'[t][k])
  <2>1. applyBuf'[t] = applyBuf[t]
    OBVIOUS
  <2>2. CommandAt(log[o], applyBuf[t][k])
    BY <2>1 DEF AppliedFollow
  <2> QED BY <1>1, <2>1, <2>2
<1> QED BY <1>2, <1>3 DEF AppliedFollow

LEMMA FollowsQuiet ==
    ASSUME TypeOK, TypeOK', NEW o \in Server, Follows(o),
           UNCHANGED <<log, residue, spawned, applied, applyBuf>>, aeReq' \subseteq aeReq
    PROVE  Extends(log[o], log'[o]) /\ Follows(o)'
<1>1. log[o] \in Seq(Entry) /\ log'[o] = log[o]
  BY DEF TypeOK
<1>2. Extends(log[o], log'[o])
  BY <1>1, WithinSelf
<1>3. LogsFollow(o)' /\ SpawnedFollow(o)'
  BY DEF Follows, LogsFollow, SpawnedFollow
<1>4. CallsFollow(o)'
  BY <1>2, CallsFewer DEF Follows
<1>5. AppliedFollow(o)'
  BY <1>2, AppliedFewer DEF Follows
<1> QED BY <1>2, <1>3, <1>4, <1>5 DEF Follows

LEMMA FollowsStart ==
    ASSUME TInv, TInv', NEW o \in Server, Follows(o), NEW c \in Command, Start(o, c)
    PROVE  Extends(log[o], log'[o]) /\ Follows(o)'
<1> DEFINE l == log[o]
           r == residue[o]
           e == [Term |-> currentTerm[o], Command |-> c]
<1>0. TypeOK /\ TypeOK' /\ committedIndex[o] <= Len(l) + Len(r)
  BY DEF TInv, ApplyReadsEntries
<1>1. /\ l \in Seq(Entry) /\ r \in Seq(Entry) /\ e \in Entry /\ committedIndex[o] \in Nat
  BY <1>0 DEF TypeOK, Entry
<1>2. /\ log' = [log EXCEPT ![o] = Append(l, e)]
      /\ residue' = [residue EXCEPT ![o] = Residue(l, r, Len(l) + 1, committedIndex[o])]
      /\ UNCHANGED <<spawned, aeReq, applied, applyBuf>>
  BY DEF Start, aeVars, applyVars
<1> HIDE DEF e
<1>3. /\ log'[o] = Append(l, e)
      /\ residue'[o] = Residue(l, r, Len(l) + 1, committedIndex[o])
      /\ \A t \in Server \ {o} : log'[t] = log[t] /\ residue'[t] = residue[t]
  BY <1>0, <1>2 DEF TypeOK
<1>4. Append(l, e) \in Seq(Entry) /\ Extends(l, Append(l, e))
  <2>1. /\ Append(l, e) \in Seq(Entry) /\ Len(Append(l, e)) = Len(l) + 1
        /\ \A i \in 1..Len(l) : Append(l, e)[i] = l[i]
    BY <1>1, AppendProperties
  <2>2. Len(l) \in Nat
    BY <1>1, LenProperties
  <2> QED BY <2>1, <2>2 DEF Extends
<1>5. Extends(log[o], log'[o])
  BY <1>3, <1>4
<1>6. LogsFollow(o)'
  <2>1. ASSUME NEW t \in Server \ {o}
        PROVE  Within(log'[o], 0, log'[t]) /\ Within(log'[o], Len(log'[t]), residue'[t])
    <3>1. Within(l, 0, log[t]) /\ Within(l, Len(log[t]), residue[t])
      BY DEF Follows, LogsFollow
    <3>2. Len(log[t]) \in Nat
      BY <1>0, LenProperties DEF TypeOK
    <3>3. Within(Append(l, e), 0, log[t]) /\ Within(Append(l, e), Len(log[t]), residue[t])
      BY <1>1, <1>4, <3>1, <3>2, WithinExtends
    <3> QED BY <1>3, <3>3
  <2>2. Within(log'[o], 0, log'[o])
    BY <1>3, <1>4, WithinSelf
  \* behind the log of o itself there is nothing left
  <2>3. residue'[o] = <<>>
    <3>1. Len(l) \in Nat /\ Len(r) \in Nat
      BY <1>1, LenProperties
    <3>2. Within(l, Len(l), r)
      BY DEF Follows, LogsFollow
    <3>3. Len(r) = 0
      <4>1. 1 \in 1..Len(r) => FALSE
        BY <3>1, <3>2 DEF Within
      <4> QED BY <3>1, <4>1
    <3>4. committedIndex[o] < Len(l) + 1
      BY <1>0, <1>1, <3>1, <3>3
    <3>5. /\ residue'[o] = SubSeq(l \o r, Len(l) + 1 + 1, committedIndex[o])
          /\ Len(l) + 1 + 1 > committedIndex[o]
      BY <1>1, <1>3, <3>1, <3>4 DEF Residue
    <3> QED BY <1>1, <3>1, <3>5, SubSeqEmpty
  <2>4. Within(log'[o], Len(log'[o]), residue'[o])
    BY <2>3, WithinEmpty
  <2> QED BY <2>1, <2>2, <2>4 DEF LogsFollow
<1>7. CallsFollow(o)'
  BY <1>0, <1>2, <1>5, CallsFewer DEF Follows
<1>8. SpawnedFollow(o)'
  BY <1>2 DEF Follows, SpawnedFollow
<1>9. AppliedFollow(o)'
  BY <1>0, <1>2, <1>5, AppliedFewer DEF Follows
<1> QED BY <1>5, <1>6, <1>7, <1>8, <1>9 DEF Follows

LEMMA FollowsHeartbeat ==
    ASSUME TypeOK, TypeOK', NEW o \in Server, Follows(o), Heartbeat(o)
    PROVE  Extends(log[o], log'[o]) /\ Follows(o)'
<1>1. /\ UNCHANGED <<log, residue, aeReq, applied, applyBuf>>
      /\ spawned' = [spawned EXCEPT ![o] =
           [t \in Server |-> IF t = o THEN spawned[o][t] ELSE spawned[o][t] + 1]]
  BY DEF Heartbeat, logVars, aeVars, applyVars
<1>2. log[o] \in Seq(Entry)
  BY DEF TypeOK
<1>3. Extends(log[o], log'[o])
  BY <1>1, <1>2, WithinSelf
<1>4. ASSUME NEW s \in Server, NEW t \in Server, spawned'[s][t] > 0 PROVE s = o /\ t # o
  <2>1. CASE s # o
    <3>1. spawned'[s] = spawned[s]
      BY <1>1, <2>1 DEF TypeOK
    <3> QED BY <1>4, <2>1, <3>1 DEF Follows, SpawnedFollow
  <2>2. CASE s = o /\ t = o
    <3>1. spawned'[o][o] = spawned[o][o]
      BY <1>1 DEF TypeOK
    <3> QED BY <1>4, <2>2, <3>1 DEF Follows, SpawnedFollow
  <2> QED BY <2>1, <2>2
<1>5. SpawnedFollow(o)'
  BY <1>4 DEF SpawnedFollow
<1>6. LogsFollow(o)' /\ CallsFollow(o)'
  BY <1>1 DEF Follows, LogsFollow, CallsFollow
<1>7. AppliedFollow(o)'
  BY <1>1, <1>3, AppliedFewer DEF Follows
<1> QED BY <1>3, <1>5, <1>6, <1>7 DEF Follows

LEMMA FollowsSend ==
    ASSUME TInv, TInv', NEW o \in Server, Follows(o), NEW s \in Server, NEW t \in Server,
           SendAppendEntries(s, t)
    PROVE  Extends(log[o], log'[o]) /\ Follows(o)'
<1>0. TypeOK /\ TypeOK'
  BY DEF TInv
<1>1. s = o /\ t # o
  BY DEF SendAppendEntries, Follows, SpawnedFollow
<1> DEFINE next == nextIndex[s][t]
<1>2. next \in Nat /\ next >= 1 /\ log[o] \in Seq(Entry) /\ Len(log[o]) \in Nat
  BY <1>0, LenProperties DEF TInv, TypeOK, NextIndexAtLeastOne
<1>3. /\ UNCHANGED <<log, residue, applied, applyBuf>>
      /\ spawned' = [spawned EXCEPT ![s][t] = spawned[s][t] - 1]
  BY DEF SendAppendEntries, logVars, applyVars
<1>4. Extends(log[o], log'[o])
  BY <1>2, <1>3, WithinSelf
<1>5. LogsFollow(o)'
  BY <1>3 DEF Follows, LogsFollow
<1>6. AppliedFollow(o)'
  BY <1>0, <1>3, <1>4, AppliedFewer DEF Follows
<1>7. SpawnedFollow(o)'
  <2>1. ASSUME NEW p \in Server, NEW q \in Server, spawned'[p][q] > 0 PROVE spawned[p][q] > 0
    <3>1. spawned[p][q] \in Nat
      BY <1>0 DEF TypeOK
    <3>2. spawned'[p][q] = spawned[p][q] \/ spawned'[p][q] = spawned[p][q] - 1
      BY <1>0, <1>3 DEF TypeOK
    <3> QED BY <2>1, <3>1, <3>2
  <2> QED BY <2>1 DEF Follows, SpawnedFollow
<1>8. CallsFollow(o)'
  <2>1. ASSUME NEW m \in aeReq' PROVE m.dst # o /\ Within(log[o], m.PrevLogIndex, m.Entries)
    <3>1. CASE m \in aeReq
      BY <3>1 DEF Follows, CallsFollow
    <3>2. CASE m.dst = t /\ m.PrevLogIndex = next - 1 /\ m.Entries = EntriesFrom(log[o], next)
      <4>1. Within(log[o], 0 + next - 1, SubSeq(log[o], next, Len(log[o])))
        <5>1. Within(log[o], 0, log[o])
          BY <1>2, WithinSelf
        <5> HIDE DEF next
        <5> QED BY <1>2, <5>1, WithinSubSeq
      <4>2. 0 + next - 1 = next - 1
        BY <1>2
      <4> QED BY <1>1, <3>2, <4>1, <4>2 DEF EntriesFrom
    <3>3. \/ m \in aeReq
          \/ m.dst = t /\ m.PrevLogIndex = next - 1 /\ m.Entries = EntriesFrom(log[o], next)
      BY <1>1 DEF SendAppendEntries
    <3> QED BY <3>1, <3>2, <3>3
  <2> QED BY <1>3, <2>1 DEF CallsFollow
<1> QED BY <1>4, <1>5, <1>6, <1>7, <1>8 DEF Follows

LEMMA FollowsAppend ==
    ASSUME TInv, TInv', NEW o \in Server, Follows(o), NEW m \in aeReq, AppendEntries(m)
    PROVE  Extends(log[o], log'[o]) /\ Follows(o)'
<1> DEFINE s == m.dst
           p == m.PrevLogIndex
           x == log[s]
           r == residue[s]
           new == NewLog(x, p, m.Entries)
           commit == NewCommit(committedIndex[s], m.LeaderCommit, Len(new))
<1>0. TypeOK /\ TypeOK'
  BY DEF TInv
<1>1. /\ m \in AEArgs /\ s \in Server /\ p \in Nat /\ m.Entries \in Seq(Entry)
      /\ m.LeaderCommit \in Nat /\ log[o] \in Seq(Entry)
  BY <1>0 DEF TypeOK, AEArgs
<1>2. s # o /\ Within(log[o], p, m.Entries)
  BY DEF Follows, CallsFollow
<1>3. UNCHANGED <<spawned, applied, applyBuf>> /\ aeReq' \subseteq aeReq
  BY DEF AppendEntries, applyVars
<1>4. CASE AppendRejected(s, m)
  <2>1. UNCHANGED <<log, residue>>
    BY <1>4 DEF AppendRejected, logVars
  <2> QED BY <1>0, <1>3, <2>1, FollowsQuiet
<1>5. CASE AppendAccepted(s, m)
  <2>1. /\ log' = [log EXCEPT ![s] = new]
        /\ residue' = [residue EXCEPT ![s] = Residue(x, r, Len(new), commit)]
        /\ p <= Len(x)
    BY <1>5 DEF AppendAccepted
  <2>2. /\ x \in Seq(Entry) /\ r \in Seq(Entry) /\ committedIndex[s] \in Nat
        /\ committedIndex[s] <= Len(x) + Len(r)
    BY <1>0, <1>1 DEF TInv, TypeOK, ApplyReadsEntries
  <2>3. p \in 0..Len(x)
    BY <1>1, <2>1, <2>2, LenProperties
  <2>4. Within(log[o], 0, x) /\ Within(log[o], Len(x), r)
    BY <1>1 DEF Follows, LogsFollow
  <2> HIDE DEF x, r, p, s
  <2>5. Within(log[o], 0, new) /\ new \in Seq(Entry)
    BY <1>1, <1>2, <2>2, <2>3, <2>4, NewLogWithin, NewLogType
  <2> HIDE DEF new
  <2>6. Len(new) \in Nat
    BY <2>5, LenProperties
  <2>7. commit \in Nat /\ (commit <= Len(new) \/ commit = committedIndex[s])
    BY <1>1, <2>2, <2>6, NewCommitBound
  <2> HIDE DEF commit
  <2>8. Within(log[o], Len(new), Residue(x, r, Len(new), commit))
    BY <1>1, <2>2, <2>4, <2>6, <2>7, ResidueWithin
  <2>9. /\ log'[s] = new /\ residue'[s] = Residue(x, r, Len(new), commit)
        /\ \A t \in Server \ {s} : log'[t] = log[t] /\ residue'[t] = residue[t]
    BY <1>0, <1>1, <2>1 DEF TypeOK
  <2>10. log'[o] = log[o] /\ Extends(log[o], log'[o])
    BY <1>1, <1>2, <2>9, WithinSelf
  <2>11. LogsFollow(o)'
    <3>1. ASSUME NEW t \in Server
          PROVE  Within(log[o], 0, log'[t]) /\ Within(log[o], Len(log'[t]), residue'[t])
      <4>1. CASE t = s
        BY <2>5, <2>8, <2>9, <4>1
      <4>2. CASE t # s
        BY <2>9, <4>2 DEF Follows, LogsFollow
      <4> QED BY <4>1, <4>2
    <3> QED BY <2>10, <3>1 DEF LogsFollow
  <2>12. CallsFollow(o)'
    BY <1>0, <1>3, <2>10, CallsFewer DEF Follows
  <2>13. SpawnedFollow(o)'
    BY <1>3 DEF Follows, SpawnedFollow
  <2>14. AppliedFollow(o)'
    BY <1>0, <1>3, <2>10, AppliedFewer DEF Follows
  <2> QED BY <2>10, <2>11, <2>12, <2>13, <2>14 DEF Follows
<1> QED BY <1>4, <1>5 DEF AppendEntries

LEMMA FollowsCopy ==
    ASSUME TInv, TInv', NEW o \in Server, Follows(o), NEW s \in Server, ApplyCopy(s)
    PROVE  Extends(log[o], log'[o]) /\ Follows(o)'
<1> DEFINE n == committedIndex[s] - lastApplied[s]
           a == lastApplied[s]
           x == log[s]
           r == residue[s]
           msg(i) == [CommandIndex |-> a + i, Command |-> (x \o r)[a + i].Command]
           b == [i \in 1..n |-> msg(i)]
<1>0. TypeOK /\ TypeOK'
  BY DEF TInv
<1>1. /\ applyBuf' = [applyBuf EXCEPT ![s] = b]
      /\ UNCHANGED <<log, residue, spawned, aeReq, applied>>
  BY DEF ApplyCopy, logVars, aeVars
<1>2. /\ a \in Nat /\ n \in Nat /\ x \in Seq(Entry) /\ r \in Seq(Entry) /\ log[o] \in Seq(Entry)
      /\ a + n <= Len(x) + Len(r)
  <2>1. /\ a \in Nat /\ committedIndex[s] \in Nat /\ a < committedIndex[s]
        /\ committedIndex[s] <= Len(x) + Len(r)
    BY <1>0 DEF TInv, TypeOK, ApplyReadsEntries, ApplyCopy
  <2>2. n \in Nat /\ a + n = committedIndex[s]
    BY <2>1
  <2>3. x \in Seq(Entry) /\ r \in Seq(Entry) /\ log[o] \in Seq(Entry)
    BY <1>0 DEF TypeOK
  <2> QED BY <2>1, <2>2, <2>3
<1>3. Within(log[o], 0, x \o r) /\ Len(x \o r) = Len(x) + Len(r)
  <2>1. Within(log[o], 0, x) /\ Within(log[o], Len(x), r) /\ 0 + Len(x) = Len(x)
    BY <1>2, LenProperties DEF Follows, LogsFollow
  <2> HIDE DEF x, r
  <2> QED BY <1>2, <2>1, WithinConcat, ConcatProperties
<1>4. ASSUME NEW i \in 1..n PROVE CommandAt(log[o], msg(i))
  <2>1. a + i \in 1..Len(x \o r) /\ 0 + (a + i) = a + i
    <3>1. Len(x) \in Nat /\ Len(r) \in Nat
      BY <1>2, LenProperties
    <3> HIDE DEF a, n, x, r
    <3> QED BY <1>2, <1>3, <3>1
  <2>2. a + i \in 1..Len(log[o]) /\ (x \o r)[a + i] = log[o][a + i]
    BY <1>3, <2>1 DEF Within
  <2> QED BY <2>2 DEF CommandAt
<1> HIDE DEF msg, n, x, r
<1>5. Len(b) = n /\ \A i \in 1..n : b[i] = msg(i)
  BY <1>2
<1> HIDE DEF b
<1>6. applyBuf'[s] = b /\ \A t \in Server : t # s => applyBuf'[t] = applyBuf[t]
  BY <1>0, <1>1 DEF TypeOK
<1>7. AppliedFollow(o)'
  <2>1. ASSUME NEW t \in Server, NEW k \in 1..Len(applyBuf'[t])
        PROVE  CommandAt(log[o], applyBuf'[t][k])
    <3>1. CASE t = s
      BY <1>4, <1>5, <1>6, <3>1
    <3>2. CASE t # s
      BY <1>6, <3>2 DEF Follows, AppliedFollow
    <3> QED BY <3>1, <3>2
  <2>2. \A t \in Server : \A e \in applied[t] : CommandAt(log[o], e)
    BY DEF Follows, AppliedFollow
  <2> QED BY <1>1, <2>1, <2>2 DEF AppliedFollow
<1>8. Extends(log[o], log'[o])
  BY <1>1, <1>2, WithinSelf
<1>9. LogsFollow(o)' /\ CallsFollow(o)' /\ SpawnedFollow(o)'
  BY <1>1 DEF Follows, LogsFollow, CallsFollow, SpawnedFollow
<1> QED BY <1>7, <1>8, <1>9 DEF Follows

LEMMA FollowsApply ==
    ASSUME TypeOK, TypeOK', NEW o \in Server, Follows(o), NEW s \in Server, ApplySend(s)
    PROVE  Extends(log[o], log'[o]) /\ Follows(o)'
<1> DEFINE b == applyBuf[s]
<1>1. /\ b # <<>> /\ b \in Seq(ApplyMsg) /\ log[o] \in Seq(Entry)
      /\ applied' = [applied EXCEPT ![s] = applied[s] \cup {Head(b)}]
      /\ applyBuf' = [applyBuf EXCEPT ![s] = Tail(b)]
      /\ UNCHANGED <<log, residue, spawned, aeReq>>
  BY DEF ApplySend, TypeOK, logVars, aeVars
<1>2. /\ Head(b) = b[1] /\ Len(b) \in Nat /\ Len(b) >= 1 /\ Len(Tail(b)) = Len(b) - 1
      /\ \A k \in 1..Len(Tail(b)) : Tail(b)[k] = b[k + 1]
  <2> HIDE DEF b
  <2>1. Len(b) \in Nat /\ Len(b) # 0
    BY <1>1, LenProperties, EmptySeq
  <2> QED BY <1>1, <2>1, HeadTailProperties
<1>3. ASSUME NEW k \in 1..Len(b) PROVE CommandAt(log[o], b[k])
  BY DEF Follows, AppliedFollow
<1>4. /\ applied'[s] = applied[s] \cup {Head(b)} /\ applyBuf'[s] = Tail(b)
      /\ \A t \in Server \ {s} : applied'[t] = applied[t] /\ applyBuf'[t] = applyBuf[t]
  BY <1>1 DEF TypeOK
<1> HIDE DEF b
<1>5. ASSUME NEW t \in Server
      PROVE  /\ \A e \in applied'[t] : CommandAt(log[o], e)
             /\ \A k \in 1..Len(applyBuf'[t]) : CommandAt(log[o], applyBuf'[t][k])
  <2>0. /\ \A e \in applied[t] : CommandAt(log[o], e)
        /\ \A k \in 1..Len(applyBuf[t]) : CommandAt(log[o], applyBuf[t][k])
    BY DEF Follows, AppliedFollow
  <2>1. CASE t = s
    <3>1. CommandAt(log[o], Head(b))
      BY <1>2, <1>3
    <3>2. \A k \in 1..Len(Tail(b)) : CommandAt(log[o], Tail(b)[k])
      BY <1>2, <1>3
    <3> QED BY <1>4, <2>0, <2>1, <3>1, <3>2
  <2>2. CASE t # s
    BY <1>4, <2>0, <2>2
  <2> QED BY <2>1, <2>2
<1>6. AppliedFollow(o)'
  BY <1>1, <1>5 DEF AppliedFollow
<1>7. Extends(log[o], log'[o])
  BY <1>1, WithinSelf
<1>8. LogsFollow(o)' /\ CallsFollow(o)' /\ SpawnedFollow(o)'
  BY <1>1 DEF Follows, LogsFollow, CallsFollow, SpawnedFollow
<1> QED BY <1>6, <1>7, <1>8 DEF Follows

LEMMA FollowsReboot ==
    ASSUME TypeOK, TypeOK', NEW o \in Server, Follows(o),
           NEW s \in Server, NEW data, NEW done, Reboot(s, data, done), log' = log
    PROVE  Extends(log[o], log'[o]) /\ Follows(o)'
<1>1. /\ applied' = applied
      /\ \A t \in Server : residue'[t] = residue[t] \/ residue'[t] = <<>>
      /\ \A t \in Server : applyBuf'[t] = applyBuf[t] \/ applyBuf'[t] = <<>>
  BY DEF Reboot, TypeOK
<1>2. log[o] \in Seq(Entry)
  BY DEF TypeOK
<1>3. Extends(log[o], log'[o])
  BY <1>2, WithinSelf
<1>4. LogsFollow(o)'
  BY <1>1, WithinEmpty DEF Follows, LogsFollow
<1>5. CallsFollow(o)'
  <2>1. ASSUME NEW m \in aeReq'
        PROVE  \E n \in aeReq :
                 m.dst = n.dst /\ m.PrevLogIndex = n.PrevLogIndex /\ m.Entries = n.Entries
    <3>1. PICK n \in aeReq : m = IF n.LeaderId = s THEN Orphaned(n) ELSE n
      BY DEF Reboot
    <3>2. n \in AEArgs
      BY DEF TypeOK
    <3>3. m.dst = n.dst /\ m.PrevLogIndex = n.PrevLogIndex /\ m.Entries = n.Entries
      BY <3>1, <3>2 DEF Orphaned, AEArgs
    <3> QED BY <3>3
  <2> QED BY <1>3, <2>1, CallsFewer DEF Follows
<1>6. SpawnedFollow(o)'
  <2>1. ASSUME NEW p \in Server, NEW q \in Server, spawned'[p][q] > 0 PROVE spawned[p][q] > 0
    <3>1. spawned'[p] = spawned[p] \/ spawned'[p] = [t \in Server |-> 0]
      BY DEF Reboot, TypeOK
    <3> QED BY <2>1, <3>1
  <2> QED BY <2>1 DEF Follows, SpawnedFollow
<1>7. AppliedFollow(o)'
  BY <1>1, <1>3, AppliedFewer DEF Follows
<1> QED BY <1>3, <1>4, <1>5, <1>6, <1>7 DEF Follows

\* Everything goes on coming from the log of o, and that log only grows.
LEMMA FollowsNext ==
    ASSUME TInv, TInv', DurableState, NEW o \in Server, OnlyLeads(o), Follows(o), [Next]_vars
    PROVE  Extends(log[o], log'[o]) /\ Follows(o)'
<1>0. TypeOK /\ TypeOK'
  BY DEF TInv
<1>1. \A s \in Server : whoami[s] = Leader => s = o
  BY DEF OnlyLeads
<1>2. CASE QuietStep
  BY <1>0, <1>2, QuietKeeps, FollowsQuiet
<1>3. CASE \E s \in Server, c \in Command : Start(s, c)
  <2>1. PICK s \in Server, c \in Command : Start(s, c)
    BY <1>3
  <2>2. s = o
    BY <1>1, <2>1 DEF Start
  <2> QED BY <2>1, <2>2, FollowsStart
<1>4. CASE \E s \in Server : Heartbeat(s)
  <2>1. PICK s \in Server : Heartbeat(s)
    BY <1>4
  <2>2. s = o
    BY <1>1, <2>1 DEF Heartbeat
  <2> QED BY <1>0, <2>1, <2>2, FollowsHeartbeat
<1>5. CASE \E s \in Server : \E t \in Peers(s) : SendAppendEntries(s, t)
  BY <1>5, FollowsSend DEF Peers
<1>6. CASE \E m \in aeReq : AppendEntries(m)
  BY <1>6, FollowsAppend
<1>7. CASE \E s \in Server : ApplyCopy(s)
  BY <1>7, FollowsCopy
<1>8. CASE \E s \in Server : ApplySend(s)
  BY <1>0, <1>8, FollowsApply
<1>9. CASE \/ \E s \in Server : Restart(s)
           \/ \E m \in rvReq \cup aeReq : RestartInHandler(m)
  BY <1>0, <1>9, RebootKeepsLog, FollowsReboot
<1>10. Next \/ UNCHANGED vars
  OBVIOUS
<1> QED BY <1>2, <1>3, <1>4, <1>5, <1>6, <1>7, <1>8, <1>9, <1>10 DEF Next, QuietStep

LEMMA FollowsInit ==
    ASSUME NEW o \in Server, Init
    PROVE  Follows(o)
<1>1. LogsFollow(o) /\ CallsFollow(o) /\ AppliedFollow(o)
  BY WithinEmpty DEF Init, LogsFollow, CallsFollow, AppliedFollow
<1>2. SpawnedFollow(o)
  BY DEF Init, SpawnedFollow
<1> QED BY <1>1, <1>2 DEF Follows

LEMMA FollowsAgree ==
    ASSUME NEW o \in Server, TInv, Follows(o)
    PROVE  LogMatching /\ StateMachineSafety
<1>1. ASSUME NEW s \in Server, NEW t \in Server, NEW i \in 1..Min({Len(log[s]), Len(log[t])})
      PROVE  SubSeq(log[s], 1, i) = SubSeq(log[t], 1, i)
  <2>0. /\ log[s] \in Seq(Entry) /\ log[t] \in Seq(Entry)
        /\ Len(log[s]) \in Nat /\ Len(log[t]) \in Nat
    BY LenProperties DEF TInv, TypeOK
  <2>1. i \in Nat /\ i <= Len(log[s]) /\ i <= Len(log[t])
    <3> DEFINE M == {Len(log[s]), Len(log[t])}
    <3>1. Min(M) \in M /\ \A y \in M : Min(M) <= y
      BY <2>0, MinNat
    <3> QED BY <2>0, <3>1
  <2>2. log[o] \in Seq(Entry) /\ Within(log[o], 0, log[s]) /\ Within(log[o], 0, log[t])
    BY DEF TInv, TypeOK, Follows, LogsFollow
  <2> QED BY <2>0, <2>1, <2>2, WithinAgree
<1>2. StateMachineSafety
  BY DEF StateMachineSafety, Follows, AppliedFollow, CommandAt
<1> QED BY <1>1, <1>2 DEF LogMatching

\* As long as one peer alone leads, in however many terms, lives and elections, logs that
\* hold the same term at an index are equal up to it, although its late and repeated calls
\* cut the followers' logs back (rpc.go:88-111).
THEOREM OneLeaderLogMatching ==
    ASSUME NEW o \in Server
    PROVE  Spec /\ []OnlyLeads(o) => []LogMatching
<1>1. Init => Follows(o)
  BY FollowsInit
<1>2. TInv /\ TInv' /\ DurableState /\ OnlyLeads(o) /\ Follows(o) /\ [Next]_vars => Follows(o)'
  BY FollowsNext
<1>3. TInv /\ Follows(o) => LogMatching
  BY FollowsAgree
<1> QED BY <1>1, <1>2, <1>3, TypeInvariant, Durable, PTL DEF Spec

\* As long as one peer alone leads, no two peers apply different commands at one index,
\* also when a late call cuts a follower's log, the applier reads what the array still
\* holds (raft.go:374), and peers that crash apply everything again.
THEOREM OneLeaderStateMachine ==
    ASSUME NEW o \in Server
    PROVE  Spec /\ []OnlyLeads(o) => []StateMachineSafety
<1>1. Init => Follows(o)
  BY FollowsInit
<1>2. TInv /\ TInv' /\ DurableState /\ OnlyLeads(o) /\ Follows(o) /\ [Next]_vars => Follows(o)'
  BY FollowsNext
<1>3. TInv /\ Follows(o) => StateMachineSafety
  BY FollowsAgree
<1> QED BY <1>1, <1>2, <1>3, TypeInvariant, Durable, PTL DEF Spec

=============================================================================
