----------------------------- MODULE RaftProofs -----------------------------
(***************************************************************************)
(* Type correctness of Raft and the index invariants it rests on, proved   *)
(* for every set of peers and every bound.                                 *)
(***************************************************************************)
EXTENDS Raft, TLAPS, FiniteSetTheorems, SequenceTheorems, WellFoundedInduction

-----------------------------------------------------------------------------
(* The operators of the model.                                             *)

\* Min of FiniteSetsExt is what it says for every nonempty set of naturals.
LEMMA MinNat ==
    ASSUME NEW S, S \subseteq Nat, S # {}
    PROVE  Min(S) \in S /\ \A y \in S : Min(S) <= y
<1> DEFINE R == OpToRel(<, Nat)
<1>1. IsWellFoundedOn(R, Nat)
  BY NatLessThanWellFounded
<1>2. PICK x \in S : \A y \in S : ~(<<y, x>> \in R)
  <2> HIDE DEF R
  <2> QED BY <1>1, WFMin, Zenon
<1>3. \A y \in S : x <= y
  <2> SUFFICES ASSUME NEW y \in S, ~(x <= y) PROVE FALSE
    OBVIOUS
  <2>1. y \in Nat /\ x \in Nat /\ y < x
    OBVIOUS
  <2>2. <<y, x>> \in R
    BY <2>1 DEF OpToRel
  <2> QED BY <1>2, <2>2
<1> QED BY <1>3 DEF Min

\* Max, for a nonempty set of naturals with an upper bound.
LEMMA MaxNat ==
    ASSUME NEW b \in Nat, NEW S, S \subseteq 0..b, S # {}
    PROVE  Max(S) \in S /\ \A y \in S : Max(S) >= y
<1> DEFINE T == {k \in Nat : b - k \in S}
<1>1. T # {}
  <2>1. PICK x \in S : TRUE OBVIOUS
  <2>2. b - x \in T OBVIOUS
  <2> QED BY <2>2
<1>2. Min(T) \in T /\ \A y \in T : Min(T) <= y
  BY <1>1, MinNat
<1>3. b - Min(T) \in S
  BY <1>2
<1>4. \A y \in S : b - Min(T) >= y
  <2> TAKE y \in S
  <2>1. b - y \in T OBVIOUS
  <2> HIDE DEF T
  <2>2. Min(T) \in Nat BY <1>2 DEF T
  <2> QED BY <2>1, <2>2, <1>2
<1> HIDE DEF T
<1> QED BY <1>3, <1>4 DEF Max

\* getLogTerm returns a term whatever the index.
LEMMA LogTermNat ==
    ASSUME NEW l \in Seq(Entry), NEW i
    PROVE  LogTerm(l, i) \in Nat
<1>1. CASE i \in 1..Len(l)
  <2>1. l[i] \in Entry
    BY <1>1, ElementOfSeq
  <2> QED BY <1>1, <2>1 DEF LogTerm, Entry
<1>2. CASE i \notin 1..Len(l)
  BY <1>2 DEF LogTerm
<1> QED BY <1>1, <1>2

\* The scan back from a mismatching index i >= 1 ends between 1 and i.
LEMMA FirstOfTermRange ==
    ASSUME NEW l, NEW i \in Nat, i >= 1
    PROVE  FirstOfTerm(l, i) \in 1..i
<1> DEFINE S == {j \in 1..i : \A k \in j..i : LogTerm(l, k) = LogTerm(l, i)}
<1>1. i \in S
  <2>1. \A k \in i..i : k = i
    OBVIOUS
  <2> QED BY <2>1
<1>2. S \subseteq Nat /\ S \subseteq 1..i
  OBVIOUS
<1>3. FirstOfTerm(l, i) = Min(S)
  BY DEF FirstOfTerm
<1> HIDE DEF S
<1>4. Min(S) \in S
  BY <1>1, <1>2, MinNat
<1> QED BY <1>2, <1>3, <1>4

\* The append of AppendEntries, with and without a conflict, leaves a log.
LEMMA NewLogType ==
    ASSUME NEW l \in Seq(Entry), NEW es \in Seq(Entry), NEW prev \in 0..Len(l)
    PROVE  NewLog(l, prev, es) \in Seq(Entry)
<1>0. Len(l) \in Nat /\ Len(es) \in Nat /\ prev \in Nat /\ prev <= Len(l)
  BY LenProperties
<1>1. ASSUME NEW n \in 0..Len(l)
      PROVE  SubSeq(l, 1, n) \o es \in Seq(Entry)
  <2>1. \A i \in 1..n : l[i] \in Entry
    BY <1>0, LenProperties
  <2>2. SubSeq(l, 1, n) \in Seq(Entry)
    BY <1>0, <2>1, SubSeqProperties
  <2> QED BY <2>2, ConcatProperties
<1>2. CASE Conflicts(l, prev, es) = {}
  BY <1>1, <1>2 DEF NewLog
<1>3. CASE Conflicts(l, prev, es) # {}
  <2> DEFINE k == Min(Conflicts(l, prev, es))
  <2>1. Conflicts(l, prev, es) \subseteq {i \in 1..Len(es) : prev + i < Len(l)}
    BY DEF Conflicts
  <2>2. k \in Conflicts(l, prev, es)
    BY <1>0, <1>3, <2>1, MinNat
  <2>3. k \in Nat /\ k >= 1 /\ prev + k < Len(l)
    BY <1>0, <2>1, <2>2
  <2>4. prev + k - 1 \in 0..Len(l)
    BY <1>0, <2>3
  <2> QED BY <1>1, <1>3, <2>4 DEF NewLog
<1> QED BY <1>2, <1>3

\* The commit index a follower takes is an index of its new log, or it is the old one.
LEMMA NewCommitBound ==
    ASSUME NEW ci \in Nat, NEW lc \in Nat, NEW len \in Nat
    PROVE  /\ NewCommit(ci, lc, len) \in Nat
           /\ NewCommit(ci, lc, len) <= len \/ NewCommit(ci, lc, len) = ci
<1>1. Min({lc, len}) \in {lc, len} /\ \A y \in {lc, len} : Min({lc, len}) <= y
  BY MinNat
<1> QED BY <1>1 DEF NewCommit

\* What a truncation to length n leaves in the backing array, up to a commit index c
\* that was readable before, keeps c readable.
LEMMA ResidueBound ==
    ASSUME NEW l \in Seq(Entry), NEW res \in Seq(Entry), NEW n \in Nat, NEW c \in Nat,
           c <= n \/ c <= Len(l) + Len(res)
    PROVE  /\ Residue(l, res, n, c) \in Seq(Entry)
           /\ c <= n + Len(Residue(l, res, n, c))
<1>0. Len(l) \in Nat /\ Len(res) \in Nat
  BY LenProperties
<1>1. l \o res \in Seq(Entry) /\ Len(l \o res) = Len(l) + Len(res)
  BY ConcatProperties
<1>2. \A i \in n + 1 .. c : (l \o res)[i] \in Entry
  BY <1>0, <1>1, LenProperties
<1>3. /\ SubSeq(l \o res, n + 1, c) \in Seq(Entry)
      /\ Len(SubSeq(l \o res, n + 1, c)) = IF n + 1 <= c THEN c - (n + 1) + 1 ELSE 0
  BY <1>2, SubSeqProperties
<1> QED BY <1>3 DEF Residue

\* A rejection that names an index past the dummy entry, or is the zero reply, never
\* takes nextIndex below 1.
LEMMA NextAfterConflictBound ==
    ASSUME NEW l \in Seq(Entry), NEW r, r.ConflictIndex \in Nat,
           r.ConflictTerm = 0 \/ r.ConflictIndex >= 1
    PROVE  NextAfterConflict(l, r) \in Nat /\ NextAfterConflict(l, r) >= 1
<1> DEFINE S == {i \in 0..Len(l) : LogTerm(l, i) = r.ConflictTerm}
<1>0. Len(l) \in Nat
  BY LenProperties
<1>1. S \subseteq 0..Len(l)
  OBVIOUS
<1>2. r.ConflictTerm = 0 => 0 \in S
  BY <1>0 DEF LogTerm
<1>3. NextAfterConflict(l, r) =
        IF r.ConflictTerm = -1 \/ S = {} THEN r.ConflictIndex ELSE Max(S) + 1
  BY DEF NextAfterConflict
<1> HIDE DEF S
<1>4. S # {} => Max(S) \in S
  BY <1>0, <1>1, MaxNat
<1>5. S # {} => Max(S) \in Nat
  <2>1. \A x \in 0..Len(l) : x \in Nat
    BY <1>0
  <2> QED BY <1>1, <1>4, <2>1
<1> QED BY <1>2, <1>3, <1>5

\* The index checkAndCommitLogs picks is in the log.
LEMMA CommittableBound ==
    ASSUME NEW s \in Server, NEW match, committedIndex[s] \in Nat,
           log[s] \in Seq(Entry), Committable(s, match) # {}
    PROVE  Max(Committable(s, match)) \in 0..Len(log[s])
<1>0. Len(log[s]) \in Nat
  BY LenProperties
<1>1. Committable(s, match) \subseteq 0..Len(log[s])
  BY <1>0 DEF Committable
<1> QED BY <1>0, <1>1, MaxNat

-----------------------------------------------------------------------------
(* Type correctness.  It is not inductive alone: PrevLogIndex is a natural  *)
(* only because nextIndex is at least 1, and the applier copies entries     *)
(* only because committedIndex stays readable.                              *)

\* A call that starts at the dummy entry says so, and a rejection names an index past
\* it unless it is the zero reply to an old term.
CallIndices ==
    /\ \A m \in aeReq : m.PrevLogIndex = 0 => m.PrevLogTerm = 0
    /\ \A r \in aeRep : ~r.Success => r.ConflictTerm = 0 \/ r.ConflictIndex >= 1

TInv == TypeOK /\ NextIndexAtLeastOne /\ ApplyReadsEntries /\ CallIndices

LEMMA TypeInit == Init => TInv
<1> SUFFICES ASSUME Init PROVE TInv
  OBVIOUS
<1> USE ServerAssumption DEF Init
<1>1. TypeOK
  BY EmptySeq DEF TypeOK, Leader, Candidate, Follower
<1>2. NextIndexAtLeastOne /\ CallIndices
  BY DEF NextIndexAtLeastOne, CallIndices
<1>3. ApplyReadsEntries
  BY EmptySeq DEF ApplyReadsEntries
<1> QED BY <1>1, <1>2, <1>3 DEF TInv

\* A saved state is what persist() is given.
LEMMA PersistType ==
    ASSUME TypeOK, NEW s \in Server, persist(s),
           currentTerm'[s] \in Nat, votedFor'[s] \in Server \cup {Nil}, log'[s] \in Seq(Entry)
    PROVE  raftstate' \in [Server -> Seq(Saved)]
<1> DEFINE x == [currentTerm |-> currentTerm'[s], votedFor |-> votedFor'[s], log |-> log'[s]]
<1>1. x \in Saved
  BY DEF Saved
<1>2. raftstate' = [raftstate EXCEPT ![s] = <<x>>]
  BY DEF persist
<1> HIDE DEF x
<1>3. <<x>> \in Seq(Saved)
  BY <1>1
<1> QED BY <1>2, <1>3 DEF TypeOK

LEMMA FollowerType ==
    ASSUME TypeOK, NEW s \in Server, NEW term \in Nat, convertToFollower(s, term)
    PROVE  /\ whoami' \in [Server -> {Leader, Candidate, Follower}]
           /\ currentTerm' \in [Server -> Nat]
           /\ votedFor' \in [Server -> Server \cup {Nil}]
<1>1. whoami' \in [Server -> {Leader, Candidate, Follower}]
  BY DEF convertToFollower, TypeOK
<1>2. currentTerm' \in [Server -> Nat]
  BY DEF convertToFollower, TypeOK
<1>3. votedFor' \in [Server -> Server \cup {Nil}]
  BY DEF convertToFollower, TypeOK
<1> QED BY <1>1, <1>2, <1>3

LEMMA StartElectionType ==
    ASSUME TInv, NEW s \in Server, StartElection(s)
    PROVE  TInv'
<1> USE DEF TInv
<1>1. /\ whoami' \in [Server -> {Leader, Candidate, Follower}]
      /\ currentTerm' \in [Server -> Nat] /\ votedFor' \in [Server -> Server \cup {Nil}]
      /\ voteCounts' \in [Server -> Nat] /\ voters' \in [Server -> SUBSET Server]
      /\ log' = log
  BY DEF StartElection, TypeOK, logVars
<1>2. raftstate' \in [Server -> Seq(Saved)]
  <2>1. persist(s)
    BY DEF StartElection
  <2> QED BY <1>1, <2>1, PersistType DEF TypeOK
<1>3. rvReq' \subseteq RVArgs
  <2>1. Len(log[s]) \in Nat /\ LogTerm(log[s], Len(log[s])) \in Nat
    BY LogTermNat, LenProperties DEF TypeOK
  <2>2. currentTerm[s] + 1 \in Nat
    BY DEF TypeOK
  <2> DEFINE call(t) == [CandidateId |-> s, dst |-> t, Term |-> currentTerm[s] + 1,
                         LastLogIndex |-> Len(log[s]),
                         LastLogTerm |-> LogTerm(log[s], Len(log[s])), live |-> TRUE]
  <2>3. ASSUME NEW t \in Peers(s) PROVE call(t) \in RVArgs
    BY <2>1, <2>2 DEF RVArgs, Peers
  <2>4. rvReq' = rvReq \cup {call(t) : t \in Peers(s)}
    BY DEF StartElection
  <2> HIDE DEF call
  <2> QED BY <2>3, <2>4 DEF TypeOK
<1>4. UNCHANGED <<logVars, leaderVars, spawned, rvRep, aeVars, applyVars, restarts>>
  BY DEF StartElection
<1> QED BY <1>1, <1>2, <1>3, <1>4
    DEF TypeOK, NextIndexAtLeastOne, ApplyReadsEntries, CallIndices, logVars, leaderVars,
        aeVars, applyVars

LEMMA RequestVoteType ==
    ASSUME TInv, NEW m \in rvReq, RequestVote(m)
    PROVE  TInv'
<1> USE DEF TInv
<1>0. m \in RVArgs /\ m.dst \in Server
  BY DEF TypeOK, RVArgs
<1>1. /\ whoami' \in [Server -> {Leader, Candidate, Follower}]
      /\ currentTerm' \in [Server -> Nat] /\ votedFor' \in [Server -> Server \cup {Nil}]
      /\ log' = log
  BY <1>0 DEF RequestVote, TypeOK, logVars, RVArgs
<1>2. raftstate' \in [Server -> Seq(Saved)]
  <2>1. persist(m.dst) \/ UNCHANGED raftstate
    BY DEF RequestVote
  <2> QED BY <1>0, <1>1, <2>1, PersistType DEF TypeOK
<1>3. rvReq' \subseteq RVArgs /\ rvRep' \subseteq RVReply
  <2>1. ASSUME NEW g \in BOOLEAN
        PROVE  [args |-> m, Term |-> currentTerm[m.dst], VoteGranted |-> g] \in RVReply
    BY <1>0 DEF RVReply, TypeOK
  <2>2. /\ rvReq' \subseteq rvReq
        /\ \E g \in BOOLEAN : rvRep' \subseteq rvRep \cup
             {[args |-> m, Term |-> currentTerm[m.dst], VoteGranted |-> g]}
    BY DEF RequestVote, ReplyTo
  <2> QED BY <2>1, <2>2 DEF TypeOK
<1>4. UNCHANGED <<logVars, voteCounts, voters, leaderVars, spawned, aeVars, applyVars, restarts>>
  BY DEF RequestVote
<1> QED BY <1>1, <1>2, <1>3, <1>4
    DEF TypeOK, NextIndexAtLeastOne, ApplyReadsEntries, CallIndices, logVars, leaderVars,
        aeVars, applyVars

LEMMA RequestVoteReplyType ==
    ASSUME TInv, NEW r \in rvRep, HandleRequestVoteReply(r)
    PROVE  TInv'
<1> USE DEF TInv
<1> DEFINE s == r.args.CandidateId
<1>0. r \in RVReply /\ s \in Server /\ r.args.dst \in Server /\ r.Term \in Nat
  BY DEF TypeOK, RVArgs, RVReply
<1>1. UNCHANGED <<logVars, spawned, rvReq, aeVars, applyVars, restarts>> /\ rvRep' \subseteq rvRep
  BY DEF HandleRequestVoteReply
<1>2. CASE VoteReplyIgnored(s, r)
  BY <1>1, <1>2
    DEF VoteReplyIgnored, TypeOK, NextIndexAtLeastOne, ApplyReadsEntries, CallIndices,
        electionVars, logVars, leaderVars, aeVars, applyVars
<1>3. CASE VoteReplyNewerTerm(s, r)
  <2>1. /\ whoami' \in [Server -> {Leader, Candidate, Follower}]
        /\ currentTerm' \in [Server -> Nat] /\ votedFor' \in [Server -> Server \cup {Nil}]
        /\ log' = log
    BY <1>0, <1>1, <1>3 DEF VoteReplyNewerTerm, convertToFollower, TypeOK, logVars
  <2>2. raftstate' \in [Server -> Seq(Saved)]
    BY <1>0, <1>3, <2>1, PersistType DEF VoteReplyNewerTerm, TypeOK
  <2> QED BY <1>1, <1>3, <2>1, <2>2
      DEF VoteReplyNewerTerm, TypeOK, NextIndexAtLeastOne, ApplyReadsEntries, CallIndices,
          logVars, leaderVars, aeVars, applyVars
<1>4. CASE VoteReplyGranted(s, r)
  <2>1. /\ voteCounts' \in [Server -> Nat] /\ voters' \in [Server -> SUBSET Server]
        /\ UNCHANGED <<currentTerm, votedFor, raftstate>>
    <3>1. /\ voteCounts' = [voteCounts EXCEPT ![s] = voteCounts[s] + 1]
          /\ voters' = [voters EXCEPT ![s] = voters[s] \cup {r.args.dst}]
          /\ UNCHANGED <<currentTerm, votedFor, raftstate>>
      BY <1>4 DEF VoteReplyGranted
    <3>2. voteCounts[s] + 1 \in Nat /\ voters[s] \cup {r.args.dst} \in SUBSET Server
      <4>1. voteCounts[s] \in Nat /\ voters[s] \in SUBSET Server
        BY <1>0 DEF TypeOK
      <4> QED BY <1>0, <4>1
    <3> QED BY <3>1, <3>2 DEF TypeOK
  <2>2. Len(log[s]) + 2 \in Nat /\ Len(log[s]) + 2 >= 1
    <3>1. log[s] \in Seq(Entry)
      BY <1>0 DEF TypeOK
    <3>2. Len(log[s]) \in Nat
      BY <3>1, LenProperties
    <3> QED BY <3>2
  <2>3. /\ whoami' \in [Server -> {Leader, Candidate, Follower}]
        /\ nextIndex' \in [Server -> [Server -> Nat]]
        /\ matchIndex' \in [Server -> [Server -> Nat]]
        /\ NextIndexAtLeastOne'
    <3>1. CASE convertToLeader(s)
      BY <1>0, <2>2, <3>1 DEF convertToLeader, TypeOK, NextIndexAtLeastOne
    <3>2. CASE UNCHANGED <<whoami, leaderVars>>
      BY <3>2 DEF TypeOK, leaderVars, NextIndexAtLeastOne
    <3> QED BY <1>4, <3>1, <3>2 DEF VoteReplyGranted
  <2> QED BY <1>1, <2>1, <2>3
      DEF TypeOK, ApplyReadsEntries, CallIndices, logVars, aeVars, applyVars
<1> QED BY <1>2, <1>3, <1>4 DEF HandleRequestVoteReply

LEMMA StartType ==
    ASSUME TInv, NEW s \in Server, NEW c \in Command, Start(s, c)
    PROVE  TInv'
<1> USE DEF TInv
<1> DEFINE e == [Term |-> currentTerm[s], Command |-> c]
<1>0. /\ log[s] \in Seq(Entry) /\ residue[s] \in Seq(Entry) /\ committedIndex[s] \in Nat
      /\ Len(log[s]) \in Nat
      /\ committedIndex[s] <= Len(log[s]) + Len(residue[s])
  <2>1. log[s] \in Seq(Entry) /\ residue[s] \in Seq(Entry) /\ committedIndex[s] \in Nat
    BY DEF TypeOK
  <2> QED BY <2>1, LenProperties DEF ApplyReadsEntries
<1>1. e \in Entry
  BY DEF Entry, TypeOK
<1>2. Append(log[s], e) \in Seq(Entry) /\ Len(Append(log[s], e)) = Len(log[s]) + 1
  BY <1>0, <1>1
<1>3. log' = [log EXCEPT ![s] = Append(log[s], e)]
  BY DEF Start
<1> HIDE DEF e
<1>4. log' \in [Server -> Seq(Entry)]
  BY <1>2, <1>3 DEF TypeOK
<1> DEFINE n == Len(log[s]) + 1
<1>5. /\ Residue(log[s], residue[s], n, committedIndex[s]) \in Seq(Entry)
      /\ committedIndex[s] <= n + Len(Residue(log[s], residue[s], n, committedIndex[s]))
  <2>1. n \in Nat
    BY <1>0
  <2> HIDE DEF n
  <2> QED BY <1>0, <2>1, ResidueBound
<1>6. residue' = [residue EXCEPT ![s] = Residue(log[s], residue[s], n, committedIndex[s])]
  BY DEF Start
<1>7. residue' \in [Server -> Seq(Entry)]
  BY <1>5, <1>6 DEF TypeOK
<1>8. UNCHANGED <<electionVars, committedIndex, leaderVars, spawned, rvVars, aeVars,
                  applyVars, restarts>>
  BY DEF Start
<1>9. ApplyReadsEntries'
  <2> SUFFICES ASSUME NEW t \in Server
               PROVE  committedIndex'[t] <= Len(log'[t]) + Len(residue'[t])
    BY DEF ApplyReadsEntries
  <2>1. CASE t = s
    BY <1>2, <1>3, <1>5, <1>6, <1>8, <2>1 DEF TypeOK
  <2>2. CASE t # s
    BY <1>3, <1>6, <1>8, <2>2 DEF TypeOK, ApplyReadsEntries
  <2> QED BY <2>1, <2>2
<1>10. raftstate' \in [Server -> Seq(Saved)]
  <2>1. persist(s)
    BY DEF Start
  <2>2. currentTerm' = currentTerm /\ votedFor' = votedFor
    BY <1>8 DEF electionVars
  <2> QED BY <1>4, <2>1, <2>2, PersistType DEF TypeOK
<1> QED BY <1>4, <1>7, <1>8, <1>9, <1>10
    DEF TypeOK, NextIndexAtLeastOne, CallIndices, electionVars, leaderVars, rvVars,
        aeVars, applyVars

LEMMA HeartbeatType ==
    ASSUME TInv, NEW s \in Server, Heartbeat(s)
    PROVE  TInv'
<1> USE DEF TInv
<1>1. spawned' \in [Server -> [Server -> Nat]]
  <2>1. \A t \in Server : spawned[s][t] \in Nat /\ spawned[s][t] + 1 \in Nat
    <3>1. spawned[s] \in [Server -> Nat]
      BY DEF TypeOK
    <3> QED BY <3>1
  <2>2. [t \in Server |-> IF t = s THEN spawned[s][t] ELSE spawned[s][t] + 1]
          \in [Server -> Nat]
    BY <2>1
  <2> QED BY <2>2 DEF Heartbeat, TypeOK
<1>2. UNCHANGED <<electionVars, logVars, leaderVars, raftstate, rvVars, aeVars, applyVars,
                  restarts>>
  BY DEF Heartbeat
<1> QED BY <1>1, <1>2
    DEF TypeOK, NextIndexAtLeastOne, ApplyReadsEntries, CallIndices, electionVars, logVars,
        leaderVars, rvVars, aeVars, applyVars

LEMMA SendAppendEntriesType ==
    ASSUME TInv, NEW s \in Server, NEW t \in Peers(s), SendAppendEntries(s, t)
    PROVE  TInv'
<1> USE DEF TInv
<1> DEFINE call(c) == [id |-> c, LeaderId |-> s, dst |-> t, Term |-> currentTerm[s],
                       PrevLogIndex |-> nextIndex[s][t] - 1,
                       PrevLogTerm |-> LogTerm(log[s], nextIndex[s][t] - 1),
                       Entries |-> EntriesFrom(log[s], nextIndex[s][t]),
                       LeaderCommit |-> committedIndex[s], live |-> TRUE]
<1>0. t \in Server
  BY DEF Peers
<1>1. /\ currentTerm[s] \in Nat /\ committedIndex[s] \in Nat /\ log[s] \in Seq(Entry)
      /\ nextIndex[s][t] \in Nat /\ nextIndex[s][t] >= 1 /\ spawned[s][t] \in Nat
  BY <1>0 DEF TypeOK, NextIndexAtLeastOne
<1>2. nextIndex[s][t] - 1 \in Nat
  BY <1>1
<1>3. LogTerm(log[s], nextIndex[s][t] - 1) \in Nat
  BY <1>1, LogTermNat
<1>4. EntriesFrom(log[s], nextIndex[s][t]) \in Seq(Entry)
  <2>1. Len(log[s]) \in Nat /\ \A i \in 1..Len(log[s]) : log[s][i] \in Entry
    BY <1>1, LenProperties
  <2>2. \A i \in nextIndex[s][t] .. Len(log[s]) : log[s][i] \in Entry
    BY <1>1, <2>1
  <2> QED BY <1>1, <2>1, <2>2, SubSeqProperties DEF EntriesFrom
<1>5. PICK c \in Call : aeReq' = aeReq \cup {call(c)}
  BY DEF SendAppendEntries
<1>6. call(c) \in AEArgs
  BY <1>0, <1>1, <1>2, <1>3, <1>4 DEF AEArgs
<1>7. call(c).PrevLogIndex = 0 => call(c).PrevLogTerm = 0
  BY <1>1 DEF LogTerm
<1>8. spawned' \in [Server -> [Server -> Nat]]
  <2>1. spawned' = [spawned EXCEPT ![s][t] = spawned[s][t] - 1] /\ spawned[s][t] > 0
    BY DEF SendAppendEntries
  <2>2. spawned[s][t] - 1 \in Nat
    BY <1>1, <2>1
  <2> QED BY <1>0, <2>1, <2>2 DEF TypeOK
<1>9. UNCHANGED <<electionVars, logVars, leaderVars, raftstate, rvVars, aeRep, applyVars,
                  restarts>>
  BY DEF SendAppendEntries
<1> HIDE DEF call
<1>10. aeReq' \subseteq AEArgs /\ CallIndices'
  BY <1>5, <1>6, <1>7, <1>9 DEF TypeOK, CallIndices
<1> QED BY <1>8, <1>9, <1>10
    DEF TypeOK, NextIndexAtLeastOne, ApplyReadsEntries, electionVars, logVars, leaderVars,
        rvVars, applyVars

LEMMA AppendEntriesType ==
    ASSUME TInv, NEW m \in aeReq, AppendEntries(m)
    PROVE  TInv'
<1> USE DEF TInv
<1> DEFINE s == m.dst
           p == m.PrevLogIndex
<1>0. /\ m \in AEArgs /\ s \in Server /\ m.Term \in Nat /\ p \in Nat
      /\ m.Entries \in Seq(Entry) /\ m.LeaderCommit \in Nat
      /\ p = 0 => m.PrevLogTerm = 0
  BY DEF TypeOK, AEArgs, CallIndices
<1>1. /\ log[s] \in Seq(Entry) /\ residue[s] \in Seq(Entry) /\ committedIndex[s] \in Nat
      /\ currentTerm[s] \in Nat
      /\ committedIndex[s] <= Len(log[s]) + Len(residue[s])
  BY <1>0 DEF TypeOK, ApplyReadsEntries
<1>2. Len(log[s]) \in Nat
  BY <1>1, LenProperties
<1>3. /\ UNCHANGED <<voteCounts, voters, leaderVars, spawned, rvVars, applyVars, restarts>>
      /\ aeReq' \subseteq aeReq
  BY DEF AppendEntries
<1>4. ASSUME AdoptTerm(s, m) \/ UNCHANGED <<currentTerm, whoami, votedFor>>
      PROVE  /\ whoami' \in [Server -> {Leader, Candidate, Follower}]
             /\ currentTerm' \in [Server -> Nat]
             /\ votedFor' \in [Server -> Server \cup {Nil}]
  <2>1. CASE convertToFollower(s, m.Term)
    BY <1>0, <2>1, FollowerType
  <2>2. CASE UNCHANGED <<currentTerm, whoami, votedFor>>
    BY <2>2 DEF TypeOK
  <2> QED BY <1>4, <2>1, <2>2 DEF AdoptTerm
<1>5. CASE AppendRejected(s, m)
  <2>1. /\ AdoptTerm(s, m) \/ UNCHANGED <<currentTerm, whoami, votedFor>>
        /\ UNCHANGED logVars
        /\ persist(s) \/ UNCHANGED raftstate
    BY <1>5 DEF AppendRejected
  <2>2. /\ whoami' \in [Server -> {Leader, Candidate, Follower}]
        /\ currentTerm' \in [Server -> Nat]
        /\ votedFor' \in [Server -> Server \cup {Nil}]
    BY <1>4, <2>1
  <2>3. raftstate' \in [Server -> Seq(Saved)]
    <3>1. log'[s] \in Seq(Entry) /\ currentTerm'[s] \in Nat /\ votedFor'[s] \in Server \cup {Nil}
      BY <1>0, <1>1, <2>1, <2>2 DEF logVars
    <3> QED BY <1>0, <2>1, <3>1, PersistType DEF TypeOK
  <2>4. \E r \in AEReply : /\ r.ConflictTerm = 0 \/ r.ConflictIndex >= 1
                           /\ aeRep' \subseteq aeRep \cup {r}
    <3>1. RejectStale(s, m) \in AEReply /\ RejectStale(s, m).ConflictTerm = 0
      BY <1>0, <1>1 DEF RejectStale, AEReply
    <3>2. RejectShort(s, m) \in AEReply /\ RejectShort(s, m).ConflictIndex >= 1
      BY <1>0, <1>1, <1>2 DEF RejectShort, AEReply
    <3>3. ASSUME p <= Len(log[s]), m.PrevLogTerm # LogTerm(log[s], p)
          PROVE  RejectMismatch(s, m) \in AEReply /\ RejectMismatch(s, m).ConflictIndex >= 1
      <4>1. p >= 1
        <5>1. LogTerm(log[s], 0) = 0
          BY <1>2 DEF LogTerm
        <5> QED BY <1>0, <3>3, <5>1
      <4>2. LogTerm(log[s], p) \in Nat
        BY <1>1, LogTermNat
      <4>3. FirstOfTerm(log[s], p) \in Nat /\ FirstOfTerm(log[s], p) >= 1
        BY <1>0, <4>1, FirstOfTermRange
      <4> QED BY <1>0, <1>1, <4>2, <4>3 DEF RejectMismatch, AEReply
    <3>4. \/ aeRep' = aeRep \cup ReplyTo(m, RejectStale(s, m))
          \/ aeRep' = aeRep \cup ReplyTo(m, RejectShort(s, m))
          \/ /\ p <= Len(log[s]) /\ m.PrevLogTerm # LogTerm(log[s], p)
             /\ aeRep' = aeRep \cup ReplyTo(m, RejectMismatch(s, m))
      BY <1>5 DEF AppendRejected
    <3> QED BY <3>1, <3>2, <3>3, <3>4 DEF ReplyTo
  <2>5. aeRep' \subseteq AEReply /\ CallIndices'
    BY <1>3, <2>4 DEF TypeOK, CallIndices
  <2> QED BY <1>3, <2>1, <2>2, <2>3, <2>5
      DEF TypeOK, NextIndexAtLeastOne, ApplyReadsEntries, logVars, leaderVars, rvVars, applyVars
<1>6. CASE AppendAccepted(s, m)
  <2> DEFINE new == NewLog(log[s], p, m.Entries)
             commit == NewCommit(committedIndex[s], m.LeaderCommit, Len(new))
             res == Residue(log[s], residue[s], Len(new), commit)
  <2>1. /\ p <= Len(log[s])
        /\ AdoptTerm(s, m)
        /\ log' = [log EXCEPT ![s] = new]
        /\ residue' = [residue EXCEPT ![s] = res]
        /\ committedIndex' = [committedIndex EXCEPT ![s] = commit]
        /\ persist(s)
        /\ aeRep' = aeRep \cup ReplyTo(m, Accept(s, m))
    BY <1>6 DEF AppendAccepted
  <2>2. new \in Seq(Entry)
    <3>1. p \in 0..Len(log[s])
      BY <1>0, <1>2, <2>1
    <3> HIDE DEF p, s
    <3> QED BY <1>0, <1>1, <3>1, NewLogType
  <2> HIDE DEF new
  <2>3. Len(new) \in Nat
    BY <2>2, LenProperties
  <2>4. commit \in Nat /\ (commit <= Len(new) \/ commit = committedIndex[s])
    BY <1>0, <1>1, <2>3, NewCommitBound
  <2> HIDE DEF commit
  <2>5. res \in Seq(Entry) /\ commit <= Len(new) + Len(res)
    BY <1>1, <2>3, <2>4, ResidueBound
  <2> HIDE DEF res
  <2>6. /\ log' \in [Server -> Seq(Entry)] /\ residue' \in [Server -> Seq(Entry)]
        /\ committedIndex' \in [Server -> Nat]
    BY <2>1, <2>2, <2>4, <2>5 DEF TypeOK
  <2>7. /\ whoami' \in [Server -> {Leader, Candidate, Follower}]
        /\ currentTerm' \in [Server -> Nat]
        /\ votedFor' \in [Server -> Server \cup {Nil}]
    BY <1>4, <2>1
  <2>8. raftstate' \in [Server -> Seq(Saved)]
    <3>1. log'[s] \in Seq(Entry) /\ currentTerm'[s] \in Nat /\ votedFor'[s] \in Server \cup {Nil}
      BY <1>0, <2>6, <2>7
    <3> QED BY <1>0, <2>1, <3>1, PersistType
  <2>9. aeRep' \subseteq AEReply /\ CallIndices'
    <3>1. Accept(s, m) \in AEReply /\ Accept(s, m).Success
      BY <1>0, <1>1 DEF Accept, AEReply
    <3> QED BY <1>3, <2>1, <3>1 DEF TypeOK, CallIndices, ReplyTo
  <2>10. ApplyReadsEntries'
    <3> SUFFICES ASSUME NEW t \in Server
                 PROVE  committedIndex'[t] <= Len(log'[t]) + Len(residue'[t])
      BY DEF ApplyReadsEntries
    <3>1. CASE t = s
      BY <2>1, <2>5, <3>1 DEF TypeOK
    <3>2. CASE t # s
      BY <2>1, <3>2 DEF TypeOK, ApplyReadsEntries
    <3> QED BY <3>1, <3>2
  <2> QED BY <1>3, <2>6, <2>7, <2>8, <2>9, <2>10
      DEF TypeOK, NextIndexAtLeastOne, leaderVars, rvVars, applyVars
<1> QED BY <1>5, <1>6 DEF AppendEntries

LEMMA AppendEntriesReplyType ==
    ASSUME TInv, NEW r \in aeRep, HandleAppendEntriesReply(r)
    PROVE  TInv'
<1> USE DEF TInv
<1> DEFINE s == r.args.LeaderId
           t == r.args.dst
<1>0. /\ s \in Server /\ t \in Server /\ r.Term \in Nat /\ r.ConflictIndex \in Nat
      /\ r.args.PrevLogIndex \in Nat /\ r.args.Entries \in Seq(Entry)
      /\ ~r.Success => r.ConflictTerm = 0 \/ r.ConflictIndex >= 1
  BY DEF TypeOK, AEArgs, AEReply, CallIndices
<1>1. log[s] \in Seq(Entry) /\ committedIndex[s] \in Nat
  BY <1>0 DEF TypeOK
<1>2. /\ UNCHANGED <<residue, voteCounts, voters, spawned, rvVars, aeReq, applyVars, restarts>>
      /\ aeRep' \subseteq aeRep
  BY DEF HandleAppendEntriesReply
<1>3. CASE AppendReplyObsolete(s, r)
  <2>1. \/ UNCHANGED <<currentTerm, whoami, votedFor, log, raftstate>>
        \/ convertToFollower(s, r.Term) /\ UNCHANGED log /\ persist(s)
    BY <1>3 DEF AppendReplyObsolete
  <2>2. UNCHANGED <<leaderVars, committedIndex, log>>
    BY <1>3 DEF AppendReplyObsolete
  <2>3. /\ whoami' \in [Server -> {Leader, Candidate, Follower}]
        /\ currentTerm' \in [Server -> Nat]
        /\ votedFor' \in [Server -> Server \cup {Nil}]
    <3>1. CASE convertToFollower(s, r.Term)
      BY <1>0, <3>1, FollowerType
    <3>2. CASE UNCHANGED <<currentTerm, whoami, votedFor>>
      BY <3>2 DEF TypeOK
    <3> QED BY <2>1, <3>1, <3>2
  <2>4. raftstate' \in [Server -> Seq(Saved)]
    <3>1. log'[s] \in Seq(Entry) /\ currentTerm'[s] \in Nat /\ votedFor'[s] \in Server \cup {Nil}
      BY <1>0, <1>1, <2>2, <2>3
    <3> QED BY <1>0, <2>1, <3>1, PersistType DEF TypeOK
  <2> QED BY <1>2, <2>2, <2>3, <2>4
      DEF TypeOK, NextIndexAtLeastOne, ApplyReadsEntries, CallIndices, leaderVars, rvVars, applyVars
<1>4. CASE AppendReplyFailure(s, r)
  <2> DEFINE n == NextAfterConflict(log[s], r)
  <2>1. /\ ~r.Success
        /\ nextIndex' = [nextIndex EXCEPT ![s][t] = n]
        /\ UNCHANGED <<currentTerm, whoami, votedFor, log, raftstate, matchIndex, committedIndex>>
    BY <1>4 DEF AppendReplyFailure
  <2>2. n \in Nat /\ n >= 1
    BY <1>0, <1>1, <2>1, NextAfterConflictBound
  <2> HIDE DEF n
  <2>3. nextIndex' \in [Server -> [Server -> Nat]] /\ NextIndexAtLeastOne'
    BY <1>0, <2>1, <2>2 DEF TypeOK, NextIndexAtLeastOne
  <2> QED BY <1>2, <2>1, <2>3
      DEF TypeOK, ApplyReadsEntries, CallIndices, rvVars, applyVars
<1>5. CASE AppendReplySuccess(s, r)
  <2>1. UNCHANGED <<currentTerm, whoami, votedFor, log, raftstate>>
    BY <1>5 DEF AppendReplySuccess
  <2>2. CASE UNCHANGED <<leaderVars, committedIndex>>
    BY <1>2, <2>1, <2>2
      DEF TypeOK, NextIndexAtLeastOne, ApplyReadsEntries, CallIndices, leaderVars, rvVars, applyVars
  <2>3. CASE ~UNCHANGED <<leaderVars, committedIndex>>
    <3> DEFINE match == r.args.PrevLogIndex + Len(r.args.Entries)
               ns == Committable(s, [matchIndex[s] EXCEPT ![t] = match])
               ci == IF ns = {} THEN committedIndex[s] ELSE Max(ns)
    <3>1. /\ matchIndex' = [matchIndex EXCEPT ![s][t] = match]
          /\ nextIndex' = [nextIndex EXCEPT ![s][t] = match + 1]
          /\ committedIndex' = [committedIndex EXCEPT ![s] = ci]
      BY <1>5, <2>3 DEF AppendReplySuccess
    <3>2. match \in Nat /\ match + 1 \in Nat /\ match + 1 >= 1
      <4> DEFINE x == r.args.PrevLogIndex
                 y == Len(r.args.Entries)
      <4>1. x \in Nat /\ y \in Nat
        BY <1>0, LenProperties
      <4>2. match = x + y
        OBVIOUS
      <4> HIDE DEF x, y, match
      <4> QED BY <4>1, <4>2
    <3> HIDE DEF match
    <3>3. /\ nextIndex' \in [Server -> [Server -> Nat]] /\ NextIndexAtLeastOne'
          /\ matchIndex' \in [Server -> [Server -> Nat]]
      BY <1>0, <3>1, <3>2 DEF TypeOK, NextIndexAtLeastOne
    <3>4. ci \in Nat /\ (ci = committedIndex[s] \/ ci <= Len(log[s]))
      <4>1. ns # {} => Max(ns) \in 0..Len(log[s])
        BY <1>0, <1>1, CommittableBound
      <4>2. Len(log[s]) \in Nat
        BY <1>1, LenProperties
      <4> HIDE DEF ns
      <4> QED BY <1>1, <4>1, <4>2
    <3> HIDE DEF ci
    <3>5. committedIndex' \in [Server -> Nat] /\ ApplyReadsEntries'
      <4>1. committedIndex' \in [Server -> Nat]
        BY <1>0, <3>1, <3>4 DEF TypeOK
      <4>2. ASSUME NEW u \in Server
            PROVE  committedIndex'[u] <= Len(log'[u]) + Len(residue'[u])
        <5>1. /\ log'[u] = log[u] /\ residue'[u] = residue[u]
              /\ log[u] \in Seq(Entry) /\ residue[u] \in Seq(Entry)
              /\ committedIndex[u] <= Len(log[u]) + Len(residue[u])
          BY <1>2, <2>1 DEF TypeOK, ApplyReadsEntries
        <5>2. Len(log[u]) \in Nat /\ Len(residue[u]) \in Nat
          BY <5>1, LenProperties
        <5>3. \/ committedIndex'[u] = committedIndex[u]
              \/ committedIndex'[u] \in Nat /\ committedIndex'[u] <= Len(log[u])
          BY <1>0, <3>1, <3>4 DEF TypeOK
        <5> DEFINE a == Len(log[u])
                   b == Len(residue[u])
        <5>4. a \in Nat /\ b \in Nat /\ committedIndex[u] <= a + b
          BY <5>1, <5>2
        <5>5. committedIndex'[u] = committedIndex[u] \/ committedIndex'[u] <= a
          BY <5>3
        <5>6. committedIndex'[u] \in Nat
          BY <4>1
        <5> HIDE DEF a, b
        <5>7. committedIndex'[u] <= a + b
          BY <5>4, <5>5, <5>6
        <5> QED BY <5>1, <5>7 DEF a, b
      <4> QED BY <4>1, <4>2 DEF ApplyReadsEntries
    <3> QED BY <1>2, <2>1, <3>3, <3>5 DEF TypeOK, CallIndices, rvVars, applyVars
  <2> QED BY <2>2, <2>3
<1> QED BY <1>3, <1>4, <1>5 DEF HandleAppendEntriesReply

LEMMA ApplyCopyType ==
    ASSUME TInv, NEW s \in Server, ApplyCopy(s)
    PROVE  TInv'
<1> USE DEF TInv
<1> DEFINE l == log[s] \o residue[s]
           n == committedIndex[s] - lastApplied[s]
           msg(i) == [CommandIndex |-> lastApplied[s] + i, Command |-> l[lastApplied[s] + i].Command]
<1>1. /\ log[s] \in Seq(Entry) /\ residue[s] \in Seq(Entry) /\ committedIndex[s] \in Nat
      /\ lastApplied[s] \in Nat
      /\ committedIndex[s] <= Len(log[s]) + Len(residue[s])
      /\ lastApplied[s] < committedIndex[s]
  BY DEF TypeOK, ApplyReadsEntries, ApplyCopy
<1>2. l \in Seq(Entry) /\ Len(l) = Len(log[s]) + Len(residue[s])
  BY <1>1, ConcatProperties
<1>3. Len(l) \in Nat /\ \A i \in 1..Len(l) : l[i] \in Entry
  BY <1>2, LenProperties
<1>4. applyBuf' = [applyBuf EXCEPT ![s] = [i \in 1..n |-> msg(i)]]
  BY DEF ApplyCopy
<1>5. n \in Nat
  BY <1>1
<1>6. ASSUME NEW i \in 1..n PROVE msg(i) \in ApplyMsg
  <2>1. lastApplied[s] + i \in 1..Len(l) /\ lastApplied[s] + i \in Nat
    <3>1. committedIndex[s] <= Len(l)
      BY <1>1, <1>2
    <3> HIDE DEF l
    <3> QED BY <1>1, <1>3, <3>1
  <2>2. l[lastApplied[s] + i] \in Entry
    BY <1>3, <2>1
  <2>3. l[lastApplied[s] + i].Command \in Command
    BY <2>2 DEF Entry
  <2> QED BY <2>1, <2>3 DEF ApplyMsg
<1> HIDE DEF msg, n
<1>7. [i \in 1..n |-> msg(i)] \in Seq(ApplyMsg)
  BY <1>5, <1>6
<1>8. applyBuf' \in [Server -> Seq(ApplyMsg)]
  BY <1>4, <1>7 DEF TypeOK
<1>9. UNCHANGED <<electionVars, logVars, leaderVars, spawned, raftstate, rvVars, aeVars,
                  lastApplied, applied, restarts>>
  BY DEF ApplyCopy
<1> QED BY <1>8, <1>9
    DEF TypeOK, NextIndexAtLeastOne, ApplyReadsEntries, CallIndices, electionVars, logVars,
        leaderVars, rvVars, aeVars

LEMMA ApplySendType ==
    ASSUME TInv, NEW s \in Server, ApplySend(s)
    PROVE  TInv'
<1> USE DEF TInv
<1>1. applyBuf[s] \in Seq(ApplyMsg) /\ applyBuf[s] # <<>> /\ lastApplied[s] \in Nat
  BY DEF TypeOK, ApplySend
<1>2. Head(applyBuf[s]) \in ApplyMsg /\ Tail(applyBuf[s]) \in Seq(ApplyMsg)
  BY <1>1, HeadTailProperties
<1>3. Head(applyBuf[s]).CommandIndex \in Nat
  BY <1>2 DEF ApplyMsg
<1>4. Max({lastApplied[s], Head(applyBuf[s]).CommandIndex}) \in Nat
  <2> DEFINE a == lastApplied[s]
             b == Head(applyBuf[s]).CommandIndex
  <2>1. a \in Nat /\ b \in Nat
    BY <1>1, <1>3
  <2> HIDE DEF a, b
  <2>2. {a, b} \subseteq 0..(a + b) /\ a + b \in Nat
    BY <2>1
  <2>3. Max({a, b}) \in {a, b}
    BY <2>2, MaxNat
  <2>4. Max({a, b}) \in Nat
    BY <2>1, <2>3
  <2> QED BY <2>4 DEF a, b
<1>5. /\ applied' \in [Server -> SUBSET ApplyMsg] /\ applyBuf' \in [Server -> Seq(ApplyMsg)]
      /\ lastApplied' \in [Server -> Nat]
  <2>1. applied' \in [Server -> SUBSET ApplyMsg]
    <3>1. applied' = [applied EXCEPT ![s] = applied[s] \cup {Head(applyBuf[s])}]
      BY DEF ApplySend
    <3>2. applied[s] \in SUBSET ApplyMsg
      BY DEF TypeOK
    <3>3. applied[s] \cup {Head(applyBuf[s])} \in SUBSET ApplyMsg
      BY <1>2, <3>2
    <3> QED BY <3>1, <3>3 DEF TypeOK
  <2>2. applyBuf' \in [Server -> Seq(ApplyMsg)]
    BY <1>2 DEF TypeOK, ApplySend
  <2>3. lastApplied' \in [Server -> Nat]
    BY <1>1, <1>4 DEF TypeOK, ApplySend
  <2> QED BY <2>1, <2>2, <2>3
<1>6. UNCHANGED <<electionVars, logVars, leaderVars, spawned, raftstate, rvVars, aeVars,
                  restarts>>
  BY DEF ApplySend
<1> QED BY <1>5, <1>6
    DEF TypeOK, NextIndexAtLeastOne, ApplyReadsEntries, CallIndices, electionVars, logVars,
        leaderVars, rvVars, aeVars

LEMMA CallFailsType ==
    ASSUME TInv, CallFails
    PROVE  TInv'
<1> USE DEF TInv
<1>1. aeReq' \subseteq aeReq /\ aeRep' \subseteq aeRep
  BY DEF CallFails
<1>2. UNCHANGED <<electionVars, logVars, leaderVars, spawned, raftstate, rvVars, applyVars,
                  restarts>>
  BY DEF CallFails
<1> QED BY <1>1, <1>2
    DEF TypeOK, NextIndexAtLeastOne, ApplyReadsEntries, CallIndices, electionVars, logVars,
        leaderVars, rvVars, applyVars

\* readPersist yields a state of the right type from whatever was saved.
LEMMA ReadPersistType ==
    ASSUME NEW data \in Seq(Saved)
    PROVE  ReadPersist(data) \in Saved
<1>1. CASE data = <<>>
  BY <1>1, EmptySeq DEF ReadPersist, Saved
<1>2. CASE data # <<>>
  <2>1. Len(data) \in Nat \ {0}
    BY <1>2, EmptySeq
  <2>2. data[1] \in Saved
    BY <2>1, ElementOfSeq
  <2> QED BY <1>2, <2>2 DEF ReadPersist
<1> QED BY <1>1, <1>2

LEMMA RebootType ==
    ASSUME TInv, NEW s \in Server, NEW data \in Seq(Saved), NEW done, Reboot(s, data, done)
    PROVE  TInv'
<1> USE DEF TInv
<1> DEFINE x == ReadPersist(data)
<1>1. x.currentTerm \in Nat /\ x.votedFor \in Server \cup {Nil} /\ x.log \in Seq(Entry)
  BY ReadPersistType DEF Saved
<1>2. /\ currentTerm' = [currentTerm EXCEPT ![s] = x.currentTerm]
      /\ votedFor' = [votedFor EXCEPT ![s] = x.votedFor]
      /\ log' = [log EXCEPT ![s] = x.log]
  BY DEF Reboot
<1> HIDE DEF x
<1>3. /\ currentTerm' \in [Server -> Nat] /\ votedFor' \in [Server -> Server \cup {Nil}]
      /\ log' \in [Server -> Seq(Entry)]
  BY <1>1, <1>2 DEF TypeOK
<1>4. /\ whoami' \in [Server -> {Leader, Candidate, Follower}]
      /\ raftstate' \in [Server -> Seq(Saved)]
      /\ residue' \in [Server -> Seq(Entry)]
      /\ committedIndex' \in [Server -> Nat] /\ lastApplied' \in [Server -> Nat]
      /\ applyBuf' \in [Server -> Seq(ApplyMsg)]
      /\ voteCounts' \in [Server -> Nat] /\ voters' \in [Server -> SUBSET Server]
      /\ restarts' \in Nat /\ applied' = applied
  <2>1. /\ <<>> \in Seq(Entry) /\ <<>> \in Seq(ApplyMsg)
        /\ {} \in SUBSET Server /\ 0 \in Nat
    BY EmptySeq
  <2>2. /\ whoami' = [whoami EXCEPT ![s] = Follower]
        /\ raftstate' = [raftstate EXCEPT ![s] = data]
        /\ residue' = [residue EXCEPT ![s] = <<>>]
        /\ committedIndex' = [committedIndex EXCEPT ![s] = 0]
        /\ lastApplied' = [lastApplied EXCEPT ![s] = 0]
        /\ applyBuf' = [applyBuf EXCEPT ![s] = <<>>]
        /\ voteCounts' = [voteCounts EXCEPT ![s] = 0]
        /\ voters' = [voters EXCEPT ![s] = {}]
        /\ restarts' = restarts + 1 /\ applied' = applied
    BY DEF Reboot
  <2>3. whoami' \in [Server -> {Leader, Candidate, Follower}]
    BY <2>2 DEF TypeOK
  <2>4. raftstate' \in [Server -> Seq(Saved)] /\ residue' \in [Server -> Seq(Entry)]
    BY <2>1, <2>2 DEF TypeOK
  <2>5. applyBuf' \in [Server -> Seq(ApplyMsg)]
    BY <2>1, <2>2 DEF TypeOK
  <2>6. voters' \in [Server -> SUBSET Server]
    BY <2>1, <2>2 DEF TypeOK
  <2>7. /\ committedIndex' \in [Server -> Nat] /\ lastApplied' \in [Server -> Nat]
        /\ voteCounts' \in [Server -> Nat] /\ restarts' \in Nat
    BY <2>2 DEF TypeOK
  <2> QED BY <2>2, <2>3, <2>4, <2>5, <2>6, <2>7
<1>5. /\ nextIndex' \in [Server -> [Server -> Nat]] /\ matchIndex' \in [Server -> [Server -> Nat]]
      /\ spawned' \in [Server -> [Server -> Nat]] /\ NextIndexAtLeastOne'
  BY DEF Reboot, TypeOK, NextIndexAtLeastOne
<1>6. rvReq' \subseteq RVArgs /\ rvRep' \subseteq RVReply
  <2>1. ASSUME NEW m \in rvReq PROVE Orphaned(m) \in RVArgs
    BY DEF TypeOK, RVArgs, Orphaned
  <2> QED BY <2>1 DEF Reboot, TypeOK
<1>7. aeReq' \subseteq AEArgs /\ aeRep' \subseteq AEReply /\ CallIndices'
  <2>1. ASSUME NEW m \in aeReq
        PROVE  /\ Orphaned(m) \in AEArgs
               /\ Orphaned(m).PrevLogIndex = m.PrevLogIndex
               /\ Orphaned(m).PrevLogTerm = m.PrevLogTerm
    BY DEF TypeOK, AEArgs, Orphaned
  <2>2. /\ aeReq' = {IF m.LeaderId = s THEN Orphaned(m) ELSE m : m \in aeReq \ done}
        /\ aeRep' \subseteq aeRep
    BY DEF Reboot
  <2>3. ASSUME NEW a \in aeReq'
        PROVE  a \in AEArgs /\ (a.PrevLogIndex = 0 => a.PrevLogTerm = 0)
    <3>1. \A m \in aeReq : m \in AEArgs /\ (m.PrevLogIndex = 0 => m.PrevLogTerm = 0)
      BY DEF TypeOK, CallIndices
    <3>2. PICK m \in aeReq : a = m \/ a = Orphaned(m)
      BY <2>2
    <3> QED BY <2>1, <3>1, <3>2
  <2> QED BY <2>2, <2>3 DEF TypeOK, CallIndices
<1>8. ApplyReadsEntries'
  <2> SUFFICES ASSUME NEW t \in Server
               PROVE  committedIndex'[t] <= Len(log'[t]) + Len(residue'[t])
    BY DEF ApplyReadsEntries
  <2>1. CASE t = s
    <3>1. committedIndex'[t] = 0
      BY <2>1 DEF Reboot, TypeOK
    <3> DEFINE a == Len(log'[t])
               b == Len(residue'[t])
    <3>2. a \in Nat /\ b \in Nat
      BY <1>3, <1>4, LenProperties
    <3> HIDE DEF a, b
    <3>3. 0 <= a + b
      BY <3>2
    <3> QED BY <3>1, <3>3 DEF a, b
  <2>2. CASE t # s
    <3>1. /\ committedIndex'[t] = committedIndex[t] /\ log'[t] = log[t]
          /\ residue'[t] = residue[t]
      BY <2>2 DEF Reboot, TypeOK
    <3> QED BY <3>1 DEF ApplyReadsEntries
  <2> QED BY <2>1, <2>2
<1> QED BY <1>3, <1>4, <1>5, <1>6, <1>7, <1>8 DEF TypeOK

LEMMA RestartInHandlerType ==
    ASSUME TInv, NEW m \in rvReq \cup aeReq, RestartInHandler(m)
    PROVE  TInv'
<1> USE DEF TInv
<1> DEFINE x == [currentTerm |-> m.Term, votedFor |-> Nil, log |-> log[m.dst]]
<1>1. m.dst \in Server /\ m.Term \in Nat
  BY DEF TypeOK, RVArgs, AEArgs
<1>2. x \in Saved
  BY <1>1 DEF TypeOK, Saved
<1>3. Reboot(m.dst, <<x>>, {m})
  BY DEF RestartInHandler
<1> HIDE DEF x
<1>4. <<x>> \in Seq(Saved)
  BY <1>2
<1> QED BY <1>1, <1>3, <1>4, RebootType

LEMMA TypeNext == TInv /\ [Next]_vars => TInv'
<1> SUFFICES ASSUME TInv, [Next]_vars PROVE TInv'
  OBVIOUS
<1>1. CASE \E s \in Server : StartElection(s)
  BY <1>1, StartElectionType
<1>2. CASE \E m \in rvReq : RequestVote(m)
  BY <1>2, RequestVoteType
<1>3. CASE \E r \in rvRep : HandleRequestVoteReply(r)
  BY <1>3, RequestVoteReplyType
<1>4. CASE \E s \in Server, c \in Command : Start(s, c)
  BY <1>4, StartType
<1>5. CASE \E s \in Server : Heartbeat(s)
  BY <1>5, HeartbeatType
<1>6. CASE \E s \in Server : \E t \in Peers(s) : SendAppendEntries(s, t)
  BY <1>6, SendAppendEntriesType
<1>7. CASE \E m \in aeReq : AppendEntries(m)
  BY <1>7, AppendEntriesType
<1>8. CASE \E r \in aeRep : HandleAppendEntriesReply(r)
  BY <1>8, AppendEntriesReplyType
<1>9. CASE \E s \in Server : ApplyCopy(s)
  BY <1>9, ApplyCopyType
<1>10. CASE \E s \in Server : ApplySend(s)
  BY <1>10, ApplySendType
<1>11. CASE CallFails
  BY <1>11, CallFailsType
<1>12. CASE \E s \in Server : Restart(s)
  <2>1. \A s \in Server : raftstate[s] \in Seq(Saved)
    BY DEF TInv, TypeOK
  <2> QED BY <1>12, <2>1, RebootType DEF Restart
<1>13. CASE \E m \in rvReq \cup aeReq : RestartInHandler(m)
  BY <1>13, RestartInHandlerType
<1>14. CASE UNCHANGED vars
  BY <1>14
    DEF TInv, TypeOK, NextIndexAtLeastOne, ApplyReadsEntries, CallIndices, vars, electionVars,
        logVars, leaderVars, rvVars, aeVars, applyVars
<1> QED BY <1>1, <1>2, <1>3, <1>4, <1>5, <1>6, <1>7, <1>8, <1>9, <1>10, <1>11, <1>12, <1>13,
           <1>14 DEF Next

LEMMA TypeInvariant == Spec => []TInv
BY TypeInit, TypeNext, PTL DEF Spec

\* Every variable of the peers, the calls and the persister keeps its type.
THEOREM TypeCorrect == Spec => []TypeOK
<1>1. TInv => TypeOK
  BY DEF TInv
<1> QED BY <1>1, TypeInvariant, PTL

\* No way back of processAppendEntriesReply takes nextIndex to the dummy entry.
THEOREM NextIndexSafe == Spec => []NextIndexAtLeastOne
<1>1. TInv => NextIndexAtLeastOne
  BY DEF TInv
<1> QED BY <1>1, TypeInvariant, PTL

\* applyCommittedLogs never reslices the log past what its backing array holds.
THEOREM ApplySafe == Spec => []ApplyReadsEntries
<1>1. TInv => ApplyReadsEntries
  BY DEF TInv
<1> QED BY <1>1, TypeInvariant, PTL

-----------------------------------------------------------------------------
(* What the state machine sees.  A message read from applyCh follows its    *)
(* predecessor because the applier's copy starts behind lastApplied, is     *)
(* sent in order, and lastApplied itself has been delivered.                *)

\* The state machine of s has seen the indices 1..n
Reached(s, n) == \A i \in 1..n : \E d \in applied[s] : d.CommandIndex = i

\* The applier of s sends consecutive indices, from the first one not seen
BufferFollows(s) ==
    \A k \in 1..Len(applyBuf[s]) :
        /\ applyBuf[s][k].CommandIndex = applyBuf[s][1].CommandIndex + k - 1
        /\ Reached(s, applyBuf[s][1].CommandIndex - 1)

GapInv == NoApplyGap /\ \A s \in Server : Reached(s, lastApplied[s]) /\ BufferFollows(s)

LEMMA GapInit == Init => GapInv
BY EmptySeq DEF Init, GapInv, NoApplyGap, Reached, BufferFollows

LEMMA GapUnchanged ==
    ASSUME GapInv, UNCHANGED applyVars
    PROVE  GapInv'
BY DEF GapInv, NoApplyGap, Reached, BufferFollows, applyVars

LEMMA GapCopy ==
    ASSUME TInv, GapInv, NEW s \in Server, ApplyCopy(s)
    PROVE  GapInv'
<1> DEFINE n == committedIndex[s] - lastApplied[s]
           a == lastApplied[s]
           msg(i) == [CommandIndex |-> a + i, Command |-> (log[s] \o residue[s])[a + i].Command]
           b == [i \in 1..n |-> msg(i)]
<1>1. /\ applyBuf' = [applyBuf EXCEPT ![s] = b] /\ UNCHANGED <<lastApplied, applied>>
      /\ a \in Nat /\ n \in Nat /\ n >= 1
  BY DEF ApplyCopy, TInv, TypeOK
<1>2. \A i \in 1..n : msg(i).CommandIndex = a + i
  OBVIOUS
<1> HIDE DEF msg, n, a
<1>3. Len(b) = n /\ \A i \in 1..n : b[i].CommandIndex = a + i
  BY <1>1, <1>2
<1> HIDE DEF b
<1>4. NoApplyGap' /\ \A t \in Server : Reached(t, lastApplied[t])'
  BY <1>1 DEF GapInv, NoApplyGap, Reached
<1>5. applyBuf'[s] = b /\ \A t \in Server : t # s => applyBuf'[t] = applyBuf[t]
  BY <1>1 DEF TInv, TypeOK
<1>6. BufferFollows(s)'
  <2>1. b[1].CommandIndex = a + 1
    BY <1>1, <1>3
  <2>2. \A k \in 1..n : b[k].CommandIndex = b[1].CommandIndex + k - 1
    BY <1>1, <1>3, <2>1
  <2>3. b[1].CommandIndex - 1 = a
    BY <1>1, <2>1
  <2>4. \A j \in 1..(b[1].CommandIndex - 1) : \E d \in applied'[s] : d.CommandIndex = j
    BY <1>1, <2>3 DEF GapInv, Reached, a
  <2>5. BufferFollows(s)' = \A k \in 1..Len(b) : /\ b[k].CommandIndex = b[1].CommandIndex + k - 1
                                                 /\ \A j \in 1..(b[1].CommandIndex - 1) :
                                                      \E d \in applied'[s] : d.CommandIndex = j
    BY <1>5 DEF BufferFollows, Reached
  <2> QED BY <1>3, <2>2, <2>4, <2>5
<1>7. \A t \in Server : t # s => BufferFollows(t)'
  BY <1>1, <1>5 DEF GapInv, BufferFollows, Reached
<1> QED BY <1>4, <1>6, <1>7 DEF GapInv

LEMMA GapSend ==
    ASSUME TInv, GapInv, NEW s \in Server, ApplySend(s)
    PROVE  GapInv'
<1>1. PICK b \in Seq(ApplyMsg) : b = applyBuf[s]
  BY DEF TInv, TypeOK
<1>2. /\ Len(b) \in Nat /\ Len(b) >= 1 /\ b[1] = Head(b) /\ b[1] \in ApplyMsg /\ Tail(b) \in Seq(ApplyMsg)
      /\ Len(Tail(b)) = Len(b) - 1 /\ \A k \in 1..Len(Tail(b)) : Tail(b)[k] = b[k + 1]
  <2>1. b # <<>>
    BY <1>1 DEF ApplySend
  <2>2. Len(b) \in Nat /\ Len(b) >= 1
    BY <2>1, EmptySeq, LenProperties
  <2> QED BY <2>1, <2>2, HeadTailProperties
<1>3. PICK i \in Nat, a \in Nat : i = b[1].CommandIndex /\ a = lastApplied[s]
  BY <1>2 DEF TInv, TypeOK, ApplyMsg
<1>4. Max({a, i}) \in {a, i}
  <2>1. {a, i} \subseteq 0..(a + i) /\ a + i \in Nat
    OBVIOUS
  <2> QED BY <2>1, MaxNat
<1>5. /\ applied'[s] = applied[s] \cup {b[1]} /\ applyBuf'[s] = Tail(b)
      /\ lastApplied'[s] \in {a, i}
      /\ \A t \in Server : t # s => /\ applied'[t] = applied[t] /\ applyBuf'[t] = applyBuf[t]
                                    /\ lastApplied'[t] = lastApplied[t]
  <2>1. /\ applied' = [applied EXCEPT ![s] = applied[s] \cup {b[1]}]
        /\ applyBuf' = [applyBuf EXCEPT ![s] = Tail(b)]
        /\ lastApplied' = [lastApplied EXCEPT ![s] = IF Len(b) = 1 THEN Max({a, i}) ELSE a]
    BY <1>1, <1>2, <1>3 DEF ApplySend
  <2> QED BY <1>4, <2>1 DEF TInv, TypeOK
<1>6. Reached(s, i - 1) /\ Reached(s, a) /\ \A k \in 1..Len(b) : b[k].CommandIndex = i + k - 1
  <2>1. 1 \in 1..Len(b)
    BY <1>2
  <2> QED BY <1>1, <1>3, <2>1 DEF GapInv, BufferFollows
<1>7. Reached(s, i)' /\ Reached(s, a)'
  <2>1. ASSUME NEW j \in 1..i PROVE \E d \in applied'[s] : d.CommandIndex = j
    <3>1. CASE j = i
      BY <1>3, <1>5, <3>1
    <3>2. CASE j # i
      <4>1. j \in 1..(i - 1)
        BY <3>2
      <4> QED BY <1>5, <1>6, <4>1 DEF Reached
    <3> QED BY <3>1, <3>2
  <2>2. \A j \in 1..a : \E d \in applied'[s] : d.CommandIndex = j
    BY <1>5, <1>6 DEF Reached
  <2> QED BY <2>1, <2>2 DEF Reached
<1>8. NoApplyGap'
  <2> SUFFICES ASSUME NEW t \in Server, NEW e \in applied'[t], e.CommandIndex > 1
               PROVE  \E d \in applied'[t] : d.CommandIndex = e.CommandIndex - 1
    BY DEF NoApplyGap
  <2>1. CASE t = s /\ e = b[1]
    <3>1. i - 1 \in 1..(i - 1)
      BY <1>3, <2>1
    <3> QED BY <1>3, <1>5, <1>6, <2>1, <3>1 DEF Reached
  <2>2. CASE ~(t = s /\ e = b[1])
    <3>1. e \in applied[t] /\ applied[t] \subseteq applied'[t]
      BY <1>5, <2>2
    <3> QED BY <3>1 DEF GapInv, NoApplyGap
  <2> QED BY <2>1, <2>2
<1>9. \A t \in Server : Reached(t, lastApplied[t])'
  <2> SUFFICES ASSUME NEW t \in Server PROVE Reached(t, lastApplied[t])'
    OBVIOUS
  <2>1. CASE t = s
    BY <1>5, <1>7, <2>1 DEF Reached
  <2>2. CASE t # s
    BY <1>5, <2>2 DEF GapInv, Reached
  <2> QED BY <2>1, <2>2
<1>10. BufferFollows(s)'
  <2>1. ASSUME NEW k \in 1..Len(Tail(b))
        PROVE  Tail(b)[k].CommandIndex = i + k /\ Tail(b)[1].CommandIndex = i + 1
    <3>1. k + 1 \in 1..Len(b) /\ 2 \in 1..Len(b) /\ 1 \in 1..Len(Tail(b)) /\ k \in Nat
      BY <1>2
    <3>2. b[k + 1].CommandIndex = i + (k + 1) - 1 /\ b[2].CommandIndex = i + 2 - 1
      BY <1>6, <3>1
    <3>3. Tail(b)[k] = b[k + 1] /\ Tail(b)[1] = b[2]
      BY <1>2, <3>1
    <3> QED BY <3>1, <3>2, <3>3
  <2>2. ASSUME NEW k \in 1..Len(Tail(b))
        PROVE  /\ Tail(b)[k].CommandIndex = Tail(b)[1].CommandIndex + k - 1
               /\ Tail(b)[1].CommandIndex - 1 = i
    <3>1. k \in Nat
      BY <1>2
    <3> QED BY <2>1, <3>1
  <2> QED BY <1>5, <1>7, <2>2 DEF BufferFollows, Reached
<1>11. ASSUME NEW t \in Server, t # s PROVE BufferFollows(t)'
  BY <1>5, <1>11 DEF GapInv, BufferFollows, Reached
<1> QED BY <1>8, <1>9, <1>10, <1>11 DEF GapInv

LEMMA GapReboot ==
    ASSUME TInv, GapInv, NEW s \in Server, NEW data, NEW done, Reboot(s, data, done)
    PROVE  GapInv'
<1>1. /\ applied' = applied /\ lastApplied' = [lastApplied EXCEPT ![s] = 0]
      /\ applyBuf' = [applyBuf EXCEPT ![s] = <<>>]
  BY DEF Reboot
<1>2. /\ lastApplied'[s] = 0 /\ applyBuf'[s] = <<>>
      /\ \A t \in Server : t # s => lastApplied'[t] = lastApplied[t] /\ applyBuf'[t] = applyBuf[t]
  BY <1>1 DEF TInv, TypeOK
<1>3. NoApplyGap'
  BY <1>1 DEF GapInv, NoApplyGap
<1>4. ASSUME NEW t \in Server PROVE (Reached(t, lastApplied[t]) /\ BufferFollows(t))'
  <2>1. CASE t = s
    BY <1>2, <2>1, EmptySeq DEF Reached, BufferFollows
  <2>2. CASE t # s
    BY <1>1, <1>2, <2>2 DEF GapInv, Reached, BufferFollows
  <2> QED BY <2>1, <2>2
<1> QED BY <1>3, <1>4 DEF GapInv

LEMMA GapNext == TInv /\ GapInv /\ [Next]_vars => GapInv'
<1> SUFFICES ASSUME TInv, GapInv, [Next]_vars PROVE GapInv'
  OBVIOUS
<1>1. CASE \E s \in Server : ApplyCopy(s)
  BY <1>1, GapCopy
<1>2. CASE \E s \in Server : ApplySend(s)
  BY <1>2, GapSend
<1>3. CASE \E s \in Server : Restart(s)
  BY <1>3, GapReboot DEF Restart
<1>4. CASE \E m \in rvReq \cup aeReq : RestartInHandler(m)
  <2>1. \A m \in rvReq \cup aeReq : m.dst \in Server
    BY DEF TInv, TypeOK, RVArgs, AEArgs
  <2> QED BY <1>4, <2>1, GapReboot DEF RestartInHandler
<1>5. CASE UNCHANGED applyVars
  BY <1>5, GapUnchanged
<1>6. CASE \/ \E s \in Server : StartElection(s)
           \/ \E m \in rvReq : RequestVote(m)
           \/ \E r \in rvRep : HandleRequestVoteReply(r)
           \/ \E s \in Server, c \in Command : Start(s, c)
           \/ \E s \in Server : Heartbeat(s)
           \/ \E s \in Server : \E t \in Peers(s) : SendAppendEntries(s, t)
           \/ \E m \in aeReq : AppendEntries(m)
           \/ \E r \in aeRep : HandleAppendEntriesReply(r)
           \/ CallFails
  <2>1. UNCHANGED applyVars
    BY <1>6 DEF StartElection, RequestVote, HandleRequestVoteReply, Start, Heartbeat, SendAppendEntries,
                AppendEntries, HandleAppendEntriesReply, CallFails
  <2> QED BY <1>5, <2>1
<1> QED BY <1>1, <1>2, <1>3, <1>4, <1>5, <1>6 DEF Next, vars

\* The state machine sees index n - 1 before n: whatever the network, the elections and
\* the restarts do, applyCommittedLogs (raft.go) leaves no index out, so the tester's
\* applier never reports "out of order" (config.go).
THEOREM NoGap == Spec => []NoApplyGap
<1>1. GapInv => NoApplyGap
  BY DEF GapInv
<1>2. Spec => []GapInv
  BY GapInit, GapNext, TypeInvariant, PTL DEF Spec
<1> QED BY <1>1, <1>2, PTL

=============================================================================
