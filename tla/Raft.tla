-------------------------------- MODULE Raft --------------------------------
(***************************************************************************)
(* The Raft peer of raft/raft.go and raft/rpc.go, N of them, talking over  *)
(* the simulated network of labrpc and saving their state in a Persister.  *)
(*                                                                         *)
(* Every critical section of rf.mu is one action; a goroutine that gives   *)
(* the lock up (to make an RPC, to send on applyCh) is split there.  A     *)
(* Call() is a request in rvReq or aeReq that is executed at most once and *)
(* then a reply in rvRep or aeRep that is consumed at most once; either    *)
(* may be delayed without bound, overtaken or lost.                        *)
(*                                                                         *)
(* Go's log[0] is a constant dummy entry of term 0, so log[s] holds Go's   *)
(* log[1..]: Go's len(log) is Len(log[s]) + 1 and its indices are ours.    *)
(* Time is not modelled: an election timeout may fire whenever a peer is   *)
(* not the leader, a heartbeat whenever it is.                             *)
(***************************************************************************)
EXTENDS Integers, Sequences, FiniteSets, FiniteSetsExt

CONSTANTS
    Server,      \* the peers
    Command,     \* what clients pass to Start
    Call,        \* identities of the AppendEntries calls that may be under way
    Nil,         \* votedFor = -1
    MaxTerm,     \* bound on the terms an election may start
    MaxLog,      \* bound on the log length Start may reach
    MaxPending,  \* bound on spawned and not yet run replication goroutines
    MaxRestart   \* bound on crashes, over all peers

ASSUME ServerAssumption == IsFiniteSet(Server) /\ Server # {} /\ Nil \notin Server
ASSUME BoundAssumption ==
    MaxTerm \in Nat /\ MaxLog \in Nat /\ MaxPending \in Nat /\ MaxRestart \in Nat

Leader == "Leader"
Candidate == "Candidate"
Follower == "Follower"

VARIABLES
    whoami, currentTerm, votedFor, log, \* State, raft.go:66-91
    residue,        \* what log's backing array still holds past len(log), up to committedIndex
    committedIndex, lastApplied,
    nextIndex, matchIndex,              \* LeaderState
    voteCounts,     \* the variable captured by the goroutines of the last election
    voters,         \* history: the peers voteCounts has counted
    spawned,        \* spawned[s][t]: goroutines `go processAppendEntriesReply(t)` not yet run
    raftstate,      \* Persister.raftstate: <<>> or <<saved state>>
    rvReq, rvRep,   \* RequestVote calls: not yet executed, executed and not yet returned
    aeReq, aeRep,   \* the same for AppendEntries
    applyBuf,       \* entries copied by the applier and not yet sent on applyCh
    applied,        \* history: the messages read from applyCh (cfg.logs of config.go)
    restarts        \* crashes so far

electionVars == <<whoami, currentTerm, votedFor, voteCounts, voters>>
logVars == <<log, residue, committedIndex>>
leaderVars == <<nextIndex, matchIndex>>
applyVars == <<lastApplied, applyBuf, applied>>
rvVars == <<rvReq, rvRep>>
aeVars == <<aeReq, aeRep>>
vars == <<electionVars, logVars, leaderVars, spawned, raftstate, rvVars, aeVars,
          applyVars, restarts>>

Peers(s) == Server \ {s}
Entry == [Term : Nat, Command : Command]
RVArgs == [CandidateId : Server, dst : Server, Term : Nat,
           LastLogIndex : Nat, LastLogTerm : Nat, live : BOOLEAN]
RVReply == [args : RVArgs, Term : Nat, VoteGranted : BOOLEAN]
AEArgs == [id : Call, LeaderId : Server, dst : Server, Term : Nat, PrevLogIndex : Nat,
           PrevLogTerm : Nat, Entries : Seq(Entry), LeaderCommit : Nat, live : BOOLEAN]
AEReply == [args : AEArgs, Term : Nat, Success : BOOLEAN,
            ConflictTerm : Nat \cup {-1}, ConflictIndex : Nat]
Saved == [currentTerm : Nat, votedFor : Server \cup {Nil}, log : Seq(Entry)]
ApplyMsg == [CommandIndex : Nat, Command : Command]

-----------------------------------------------------------------------------
(* Persistence and the role changes.                                       *)

\* getLogTerm: 0 for the dummy entry and for every index out of range
LogTerm(l, i) == IF i \in 1..Len(l) THEN l[i].Term ELSE 0

\* Fault: the state is not saved
NoPersist(s) == s \in Server /\ UNCHANGED raftstate

\* persist() at the end of a critical section, when it is called there
persist(s) ==
    raftstate' = [raftstate EXCEPT ![s] =
        << [currentTerm |-> currentTerm'[s], votedFor |-> votedFor'[s], log |-> log'[s]] >>]

\* Fault: votedFor is decoded into the wrong variable and stays 0
ReadPersistNoVote(data) ==
    IF data = <<>> THEN [currentTerm |-> 0, votedFor |-> Nil, log |-> <<>>]
    ELSE [data[1] EXCEPT !.votedFor = 0]

\* readPersist(data): what Make starts with
ReadPersist(data) ==
    IF data = <<>> THEN [currentTerm |-> 0, votedFor |-> Nil, log |-> <<>>] ELSE data[1]

\* The part of convertToFollower that is not persist()
convertToFollower(s, term) ==
    /\ currentTerm' = [currentTerm EXCEPT ![s] = term]
    /\ whoami' = [whoami EXCEPT ![s] = Follower]
    /\ votedFor' = [votedFor EXCEPT ![s] = Nil]

convertToLeader(s) ==
    /\ whoami' = [whoami EXCEPT ![s] = Leader]
    /\ nextIndex' = [nextIndex EXCEPT ![s] = [t \in Server |-> Len(log[s]) + 2]]
    /\ matchIndex' = [matchIndex EXCEPT ![s] = [t \in Server |-> 0]]

Init ==
    /\ whoami = [s \in Server |-> Follower]
    /\ currentTerm = [s \in Server |-> 0]
    /\ votedFor = [s \in Server |-> Nil]
    /\ log = [s \in Server |-> <<>>]
    /\ residue = [s \in Server |-> <<>>]
    /\ committedIndex = [s \in Server |-> 0]
    /\ lastApplied = [s \in Server |-> 0]
    /\ nextIndex = [s \in Server |-> [t \in Server |-> 1]]
    /\ matchIndex = [s \in Server |-> [t \in Server |-> 0]]
    /\ voteCounts = [s \in Server |-> 0]
    /\ voters = [s \in Server |-> {}]
    /\ spawned = [s \in Server |-> [t \in Server |-> 0]]
    /\ raftstate = [s \in Server |-> <<>>]
    /\ rvReq = {} /\ rvRep = {} /\ aeReq = {} /\ aeRep = {}
    /\ applyBuf = [s \in Server |-> <<>>]
    /\ applied = [s \in Server |-> {}]
    /\ restarts = 0

-----------------------------------------------------------------------------
(* Elections.                                                              *)

\* What ticker looks for: the timer may have expired at any time
ElectionDue(s) == whoami[s] # Leader

\* Then StartElection and CandidateRequestVote
StartElection(s) ==
    /\ ElectionDue(s)
    /\ currentTerm[s] < MaxTerm
    /\ votedFor' = [votedFor EXCEPT ![s] = s]
    /\ whoami' = [whoami EXCEPT ![s] = Candidate]
    /\ currentTerm' = [currentTerm EXCEPT ![s] = @ + 1]
    /\ UNCHANGED <<logVars>>
    /\ persist(s)
    /\ voteCounts' = [voteCounts EXCEPT ![s] = 1]
    /\ voters' = [voters EXCEPT ![s] = {s}]
    /\ rvReq' = rvReq \cup
         {[CandidateId |-> s, dst |-> t, Term |-> currentTerm[s] + 1,
           LastLogIndex |-> Len(log[s]), LastLogTerm |-> LogTerm(log[s], Len(log[s])),
           live |-> TRUE] : t \in Peers(s)}
    /\ UNCHANGED <<leaderVars, spawned, rvRep, aeVars, applyVars, restarts>>

\* candidateIsUpToDate
UpToDate(m, l) ==
    LET lastLogTerm == LogTerm(l, Len(l)) IN
    \/ m.LastLogTerm > lastLogTerm
    \/ m.LastLogTerm = lastLogTerm /\ m.LastLogIndex >= Len(l)

\* Fault: the vote already given in this term is not looked at
AlwaysCanVote(vote, m) == m.CandidateId \in Server

canVote(vote, m) == vote = Nil \/ vote = m.CandidateId

\* A call whose caller has not crashed since gets the handler's reply
ReplyTo(m, r) == IF m.live THEN {r} ELSE {}

\* The handler RequestVote: the reply carries the term from before any conversion
RequestVote(m) ==
    LET s == m.dst
        newer == m.Term > currentTerm[s]
        vote == IF newer THEN Nil ELSE votedFor[s]
        grant == m.Term >= currentTerm[s] /\ canVote(vote, m) /\ UpToDate(m, log[s])
    IN
    /\ rvReq' = rvReq \ {m}
    /\ rvRep' = rvRep \cup
         ReplyTo(m, [args |-> m, Term |-> currentTerm[s], VoteGranted |-> grant])
    /\ currentTerm' = [currentTerm EXCEPT ![s] = IF newer THEN m.Term ELSE @]
    /\ whoami' = [whoami EXCEPT ![s] = IF newer THEN Follower ELSE @]
    /\ votedFor' = [votedFor EXCEPT ![s] = IF grant THEN m.CandidateId ELSE vote]
    /\ UNCHANGED <<logVars>>
    /\ IF newer \/ grant THEN persist(s) ELSE UNCHANGED raftstate
    /\ UNCHANGED <<voteCounts, voters, leaderVars, spawned, aeVars, applyVars, restarts>>

\* The goroutine of CandidateRequestVote after its Call returned: the election it
\* belongs to is over
VoteReplyIgnored(s, r) ==
    /\ \/ r.args.Term # currentTerm[s]
       \/ whoami[s] # Candidate
       \/ r.Term <= currentTerm[s] /\ ~r.VoteGranted
    /\ UNCHANGED <<electionVars, leaderVars, raftstate>>

VoteReplyNewerTerm(s, r) ==
    /\ r.args.Term = currentTerm[s] /\ whoami[s] = Candidate
    /\ r.Term > currentTerm[s]
    /\ convertToFollower(s, r.Term)
    /\ persist(s)
    /\ UNCHANGED <<voteCounts, voters, leaderVars>>

\* voteCounts > len(rf.peers) / 2
WinsElection(n) == n > Cardinality(Server) \div 2

\* Fault: neither the term nor the role is looked at
VoteReplyGrantedUnchecked(s, r) ==
    /\ r.Term <= currentTerm[s] /\ r.VoteGranted
    /\ voteCounts' = [voteCounts EXCEPT ![s] = @ + 1]
    /\ voters' = [voters EXCEPT ![s] = @ \cup {r.args.dst}]
    /\ IF WinsElection(voteCounts[s] + 1)
         THEN convertToLeader(s)
         ELSE UNCHANGED <<whoami, leaderVars>>
    /\ UNCHANGED <<currentTerm, votedFor, raftstate>>

VoteReplyGranted(s, r) ==
    /\ r.args.Term = currentTerm[s] /\ whoami[s] = Candidate
    /\ r.Term <= currentTerm[s] /\ r.VoteGranted
    /\ voteCounts' = [voteCounts EXCEPT ![s] = @ + 1]
    /\ voters' = [voters EXCEPT ![s] = @ \cup {r.args.dst}]
    /\ IF WinsElection(voteCounts[s] + 1)
         THEN convertToLeader(s)
         ELSE UNCHANGED <<whoami, leaderVars>>
    /\ UNCHANGED <<currentTerm, votedFor, raftstate>>

HandleRequestVoteReply(r) ==
    LET s == r.args.CandidateId IN
    /\ rvRep' = rvRep \ {r}
    /\ UNCHANGED <<logVars, spawned, rvReq, aeVars, applyVars, restarts>>
    /\ VoteReplyIgnored(s, r) \/ VoteReplyNewerTerm(s, r) \/ VoteReplyGranted(s, r)

-----------------------------------------------------------------------------
(* Log replication.                                                        *)

\* Fault: a truncated log is copied into an array of its own length
ResidueCut(l, r, len, commit) == SubSeq(l \o r, len + 1, Min({len, commit}))

\* What the backing array of log l with residue r holds past len, up to commit, after
\* append has written the log's new length len into it
Residue(l, r, len, commit) == SubSeq(l \o r, len + 1, commit)

Start(s, c) ==
    /\ whoami[s] = Leader
    /\ Len(log[s]) < MaxLog
    /\ log' = [log EXCEPT ![s] = Append(@, [Term |-> currentTerm[s], Command |-> c])]
    /\ residue' = [residue EXCEPT ![s] =
         Residue(log[s], @, Len(log[s]) + 1, committedIndex[s])]
    /\ UNCHANGED <<electionVars, committedIndex>>
    /\ persist(s)
    /\ UNCHANGED <<leaderVars, spawned, rvVars, aeVars, applyVars, restarts>>

\* One turn of heartbeat's loop and the goroutines replicateLogsToFollower spawns
Heartbeat(s) ==
    /\ whoami[s] = Leader
    /\ \A t \in Peers(s) : spawned[s][t] < MaxPending
    /\ spawned' = [spawned EXCEPT ![s] =
         [t \in Server |-> IF t = s THEN @[t] ELSE @[t] + 1]]
    /\ UNCHANGED <<electionVars, logVars, leaderVars, raftstate, rvVars, aeVars,
                   applyVars, restarts>>

\* Fault: off by one, the entry at next is skipped
EntriesAfter(l, next) == SubSeq(l, next + 1, Len(l))

\* The entries processAppendEntriesReply sends from next on; nil and empty are one
EntriesFrom(l, next) == SubSeq(l, next, Len(l))

\* processAppendEntriesReply up to its Call.  It reads the state the peer has now,
\* which need not be the state in which heartbeat found it to be the leader.
SendAppendEntries(s, t) ==
    /\ spawned[s][t] > 0
    /\ \E c \in Call :
         /\ \A m \in aeReq : m.id # c
         /\ \A r \in aeRep : r.args.id # c
         /\ aeReq' = aeReq \cup
              {[id |-> c, LeaderId |-> s, dst |-> t, Term |-> currentTerm[s],
                PrevLogIndex |-> nextIndex[s][t] - 1,
                PrevLogTerm |-> LogTerm(log[s], nextIndex[s][t] - 1),
                Entries |-> EntriesFrom(log[s], nextIndex[s][t]),
                LeaderCommit |-> committedIndex[s], live |-> TRUE]}
    /\ spawned' = [spawned EXCEPT ![s][t] = @ - 1]
    /\ UNCHANGED <<electionVars, logVars, leaderVars, raftstate, rvVars, aeRep,
                   applyVars, restarts>>

\* The first index of the run of entries of one term that ends at i
FirstOfTerm(l, i) ==
    Min({j \in 1..i : \A k \in j..i : LogTerm(l, k) = LogTerm(l, i)})

\* Positions of args.Entries that the conflict scan reports: the scan stops before
\* the last index of the log
Conflicts(l, prev, es) ==
    {i \in 1..Len(es) : prev + i < Len(l) /\ LogTerm(l, prev + i) # es[i].Term}

\* Fault: the entries are appended without cutting the log at prev
NewLogUncut(l, prev, es) == IF prev > Len(l) THEN l ELSE l \o es

\* The log after the append: cut at the first conflict and followed by ALL the
\* entries, or else cut at prev and followed by them
NewLog(l, prev, es) ==
    IF Conflicts(l, prev, es) = {}
    THEN SubSeq(l, 1, prev) \o es
    ELSE SubSeq(l, 1, prev + Min(Conflicts(l, prev, es)) - 1) \o es

\* The commit index after a successful append to a log that now has length len
NewCommit(ci, leaderCommit, len) ==
    IF leaderCommit > ci THEN Min({leaderCommit, len}) ELSE ci

\* AppendEntries, the cases of a rejected call and of an accepted one, for peer s
RejectStale(s, m) ==
    [args |-> m, Term |-> currentTerm[s], Success |-> FALSE,
     ConflictTerm |-> 0, ConflictIndex |-> 0]

\* Fault: the conflict index of a short log is one too large
RejectShortPast(s, m) ==
    [args |-> m, Term |-> currentTerm[s], Success |-> FALSE,
     ConflictTerm |-> -1, ConflictIndex |-> Len(log[s]) + 2]

RejectShort(s, m) ==
    [args |-> m, Term |-> currentTerm[s], Success |-> FALSE,
     ConflictTerm |-> -1, ConflictIndex |-> Len(log[s]) + 1]

RejectMismatch(s, m) ==
    [args |-> m, Term |-> currentTerm[s], Success |-> FALSE,
     ConflictTerm |-> LogTerm(log[s], m.PrevLogIndex),
     ConflictIndex |-> FirstOfTerm(log[s], m.PrevLogIndex)]

Accept(s, m) ==
    [args |-> m, Term |-> currentTerm[s], Success |-> TRUE,
     ConflictTerm |-> 0, ConflictIndex |-> 0]

\* The term of a call that is not stale is adopted; a candidate or leader of the
\* same term keeps its role
AdoptTerm(s, m) ==
    IF m.Term > currentTerm[s]
    THEN convertToFollower(s, m.Term)
    ELSE UNCHANGED <<currentTerm, whoami, votedFor>>

AppendRejected(s, m) ==
    /\ \/ /\ m.Term < currentTerm[s]
          /\ UNCHANGED <<currentTerm, whoami, votedFor>>
          /\ aeRep' = aeRep \cup ReplyTo(m, RejectStale(s, m))
       \/ /\ m.Term >= currentTerm[s]
          /\ m.PrevLogIndex > Len(log[s])
          /\ AdoptTerm(s, m)
          /\ aeRep' = aeRep \cup ReplyTo(m, RejectShort(s, m))
       \/ /\ m.Term >= currentTerm[s]
          /\ m.PrevLogIndex <= Len(log[s])
          /\ m.PrevLogTerm # LogTerm(log[s], m.PrevLogIndex)
          /\ AdoptTerm(s, m)
          /\ aeRep' = aeRep \cup ReplyTo(m, RejectMismatch(s, m))
    /\ UNCHANGED <<logVars>>
    /\ IF m.Term > currentTerm[s] THEN persist(s) ELSE UNCHANGED raftstate

AppendAccepted(s, m) ==
    LET new == NewLog(log[s], m.PrevLogIndex, m.Entries)
        commit == NewCommit(committedIndex[s], m.LeaderCommit, Len(new))
    IN
    /\ m.Term >= currentTerm[s]
    /\ m.PrevLogIndex <= Len(log[s])
    /\ m.PrevLogTerm = LogTerm(log[s], m.PrevLogIndex)
    /\ AdoptTerm(s, m)
    /\ log' = [log EXCEPT ![s] = new]
    /\ residue' = [residue EXCEPT ![s] = Residue(log[s], @, Len(new), commit)]
    /\ committedIndex' = [committedIndex EXCEPT ![s] = commit]
    /\ persist(s)
    /\ aeRep' = aeRep \cup ReplyTo(m, Accept(s, m))

\* The handler AppendEntries
AppendEntries(m) ==
    /\ aeReq' = aeReq \ {m}
    /\ AppendRejected(m.dst, m) \/ AppendAccepted(m.dst, m)
    /\ UNCHANGED <<voteCounts, voters, leaderVars, spawned, rvVars, applyVars, restarts>>

\* Fault: off by one below the conflict
NextBelowConflict(l, r) ==
    LET ofTerm == {i \in 0..Len(l) : LogTerm(l, i) = r.ConflictTerm} IN
    IF r.ConflictTerm = -1 \/ ofTerm = {} THEN r.ConflictIndex - 1 ELSE Max(ofTerm) + 1

\* The leader's new nextIndex for the peer that answered r with Success = false
NextAfterConflict(l, r) ==
    LET ofTerm == {i \in 0..Len(l) : LogTerm(l, i) = r.ConflictTerm} IN
    IF r.ConflictTerm = -1 \/ ofTerm = {} THEN r.ConflictIndex ELSE Max(ofTerm) + 1

\* checkAndCommitLogs: the indices of the current term that a majority holds,
\* counting the leader itself
Committable(s, match) ==
    {n \in committedIndex[s] + 1 .. Len(log[s]) :
        /\ log[s][n].Term = currentTerm[s]
        /\ Cardinality({t \in Peers(s) : match[t] >= n}) + 1
             >= Cardinality(Server) \div 2 + 1}

\* processAppendEntriesReply after its Call returned, not (or no longer) the leader
\* of the term of the call
AppendReplyObsolete(s, r) ==
    /\ r.args.Term # currentTerm[s] \/ whoami[s] # Leader
    /\ IF r.Term > currentTerm[s]
         THEN convertToFollower(s, r.Term) /\ UNCHANGED log /\ persist(s)
         ELSE UNCHANGED <<currentTerm, whoami, votedFor, log, raftstate>>
    /\ UNCHANGED <<leaderVars, committedIndex>>

AppendReplyFailure(s, r) ==
    /\ r.args.Term = currentTerm[s] /\ whoami[s] = Leader
    /\ ~r.Success
    /\ nextIndex' = [nextIndex EXCEPT ![s][r.args.dst] = NextAfterConflict(log[s], r)]
    /\ UNCHANGED <<currentTerm, whoami, votedFor, log, raftstate, matchIndex, committedIndex>>

AppendReplySuccess(s, r) ==
    /\ r.args.Term = currentTerm[s] /\ whoami[s] = Leader
    /\ r.Success
    /\ IF r.args.Entries = <<>> THEN UNCHANGED <<leaderVars, committedIndex>>
       ELSE LET match == r.args.PrevLogIndex + Len(r.args.Entries)
                ns == Committable(s, [matchIndex[s] EXCEPT ![r.args.dst] = match])
            IN
            /\ matchIndex' = [matchIndex EXCEPT ![s][r.args.dst] = match]
            /\ nextIndex' = [nextIndex EXCEPT ![s][r.args.dst] = match + 1]
            /\ committedIndex' = [committedIndex EXCEPT ![s] =
                 IF ns = {} THEN @ ELSE Max(ns)]
    /\ UNCHANGED <<currentTerm, whoami, votedFor, log, raftstate>>

HandleAppendEntriesReply(r) ==
    LET s == r.args.LeaderId IN
    /\ aeRep' = aeRep \ {r}
    /\ \/ AppendReplyObsolete(s, r)
       \/ AppendReplyFailure(s, r)
       \/ AppendReplySuccess(s, r)
    /\ UNCHANGED <<residue, voteCounts, voters, spawned, rvVars, aeReq, applyVars, restarts>>

-----------------------------------------------------------------------------
(* The applier goroutine.                                                  *)

\* Fault: only the newest committed entry is copied
ApplyCopyNewest(s) ==
    /\ applyBuf[s] = <<>>
    /\ lastApplied[s] < committedIndex[s]
    /\ applyBuf' = [applyBuf EXCEPT ![s] =
         << [CommandIndex |-> committedIndex[s],
             Command |-> (log[s] \o residue[s])[committedIndex[s]].Command] >>]
    /\ UNCHANGED <<electionVars, logVars, leaderVars, spawned, raftstate, rvVars, aeVars,
                   lastApplied, applied, restarts>>

\* applyCommittedLogs under the lock.  Go may reslice past len(log): what it reads
\* there is the residue of a truncation.
ApplyCopy(s) ==
    /\ applyBuf[s] = <<>>
    /\ lastApplied[s] < committedIndex[s]
    /\ applyBuf' = [applyBuf EXCEPT ![s] =
         [i \in 1..(committedIndex[s] - lastApplied[s]) |->
            [CommandIndex |-> lastApplied[s] + i,
             Command |-> (log[s] \o residue[s])[lastApplied[s] + i].Command]]]
    /\ UNCHANGED <<electionVars, logVars, leaderVars, spawned, raftstate, rvVars, aeVars,
                   lastApplied, applied, restarts>>

\* One send on applyCh; the last one is followed by the update of lastApplied
ApplySend(s) ==
    /\ applyBuf[s] # <<>>
    /\ applied' = [applied EXCEPT ![s] = @ \cup {Head(applyBuf[s])}]
    /\ applyBuf' = [applyBuf EXCEPT ![s] = Tail(@)]
    /\ lastApplied' = [lastApplied EXCEPT ![s] =
         IF Len(applyBuf[s]) = 1 THEN Max({@, Head(applyBuf[s]).CommandIndex}) ELSE @]
    /\ UNCHANGED <<electionVars, logVars, leaderVars, spawned, raftstate, rvVars, aeVars,
                   restarts>>

-----------------------------------------------------------------------------
(* The network and crashes.                                                *)

\* labrpc drops a request or a reply: Call returns false and its goroutine ends.  A
\* lost RequestVote call is one that stays in rvReq or rvRep for ever, no step tells
\* the two apart; a lost AppendEntries call gives its identity back.
CallFails ==
    /\ \/ \E m \in aeReq : aeReq' = aeReq \ {m} /\ UNCHANGED aeRep
       \/ \E r \in aeRep : aeRep' = aeRep \ {r} /\ UNCHANGED aeReq
    /\ UNCHANGED <<electionVars, logVars, leaderVars, spawned, raftstate, rvVars, applyVars,
                   restarts>>

Orphaned(m) == [m EXCEPT !.live = FALSE]

\* crash1, start1 and Make: peer s starts again from what data holds.  The calls of
\* the old instance may still be executed, but nobody waits for their replies; the
\* calls in done were being executed by s when it crashed.
Reboot(s, data, done) ==
    /\ restarts < MaxRestart
    /\ restarts' = restarts + 1
    /\ raftstate' = [raftstate EXCEPT ![s] = data]
    /\ currentTerm' = [currentTerm EXCEPT ![s] = ReadPersist(data).currentTerm]
    /\ votedFor' = [votedFor EXCEPT ![s] = ReadPersist(data).votedFor]
    /\ log' = [log EXCEPT ![s] = ReadPersist(data).log]
    /\ whoami' = [whoami EXCEPT ![s] = Follower]
    /\ residue' = [residue EXCEPT ![s] = <<>>]
    /\ committedIndex' = [committedIndex EXCEPT ![s] = 0]
    /\ lastApplied' = [lastApplied EXCEPT ![s] = 0]
    /\ applyBuf' = [applyBuf EXCEPT ![s] = <<>>]
    /\ nextIndex' = [nextIndex EXCEPT ![s] = [t \in Server |-> 1]]
    /\ matchIndex' = [matchIndex EXCEPT ![s] = [t \in Server |-> 0]]
    /\ voteCounts' = [voteCounts EXCEPT ![s] = 0]
    /\ voters' = [voters EXCEPT ![s] = {}]
    /\ spawned' = [spawned EXCEPT ![s] = [t \in Server |-> 0]]
    /\ rvReq' = {IF m.CandidateId = s THEN Orphaned(m) ELSE m : m \in rvReq \ done}
    /\ aeReq' = {IF m.LeaderId = s THEN Orphaned(m) ELSE m : m \in aeReq \ done}
    /\ rvRep' = {r \in rvRep : r.args.CandidateId # s}
    /\ aeRep' = {r \in aeRep : r.args.LeaderId # s}
    /\ UNCHANGED applied

Restart(s) == Reboot(s, raftstate[s], {})

\* A crash inside a handler that has called convertToFollower, and saved the new
\* term, and not yet saved the vote or the log the rest of the handler decides on
RestartInHandler(m) ==
    /\ m.Term > currentTerm[m.dst]
    /\ Reboot(m.dst, << [currentTerm |-> m.Term, votedFor |-> Nil, log |-> log[m.dst]] >>, {m})

-----------------------------------------------------------------------------
Next ==
    \/ \E s \in Server : StartElection(s)
    \/ \E m \in rvReq : RequestVote(m)
    \/ \E r \in rvRep : HandleRequestVoteReply(r)
    \/ \E s \in Server, c \in Command : Start(s, c)
    \/ \E s \in Server : Heartbeat(s)
    \/ \E s \in Server : \E t \in Peers(s) : SendAppendEntries(s, t)
    \/ \E m \in aeReq : AppendEntries(m)
    \/ \E r \in aeRep : HandleAppendEntriesReply(r)
    \/ \E s \in Server : ApplyCopy(s)
    \/ \E s \in Server : ApplySend(s)
    \/ CallFails
    \/ \E s \in Server : Restart(s)
    \/ \E m \in rvReq \cup aeReq : RestartInHandler(m)

Spec == Init /\ [][Next]_vars

\* A network that loses nothing and peers that do not crash, as in the tester's
\* reliable configurations.  Every goroutine that can run does run: the heartbeat
\* loop, the goroutines it spawns, labrpc's goroutine of each call, and the applier.
NextReliable ==
    \/ \E s \in Server : StartElection(s)
    \/ \E m \in rvReq : RequestVote(m)
    \/ \E r \in rvRep : HandleRequestVoteReply(r)
    \/ \E s \in Server, c \in Command : Start(s, c)
    \/ \E s \in Server : Heartbeat(s)
    \/ \E s \in Server : \E t \in Peers(s) : SendAppendEntries(s, t)
    \/ \E m \in aeReq : AppendEntries(m)
    \/ \E r \in aeRep : HandleAppendEntriesReply(r)
    \/ \E s \in Server : ApplyCopy(s) \/ ApplySend(s)

Fairness ==
    /\ \A s \in Server : WF_vars(Heartbeat(s))
    /\ \A s \in Server : \A t \in Peers(s) : WF_vars(SendAppendEntries(s, t))
    /\ \A c \in Call : WF_vars(\E m \in aeReq : m.id = c /\ AppendEntries(m))
    /\ \A c \in Call : WF_vars(\E r \in aeRep : r.args.id = c /\ HandleAppendEntriesReply(r))
    /\ \A s \in Server : WF_vars(ApplyCopy(s) \/ ApplySend(s))

FairSpec == Init /\ [][NextReliable]_vars /\ Fairness

-----------------------------------------------------------------------------
(* Properties.                                                             *)

\* Type correctness.
TypeOK ==
    /\ whoami \in [Server -> {Leader, Candidate, Follower}]
    /\ currentTerm \in [Server -> Nat]
    /\ votedFor \in [Server -> Server \cup {Nil}]
    /\ log \in [Server -> Seq(Entry)] /\ residue \in [Server -> Seq(Entry)]
    /\ committedIndex \in [Server -> Nat] /\ lastApplied \in [Server -> Nat]
    /\ nextIndex \in [Server -> [Server -> Nat]]
    /\ matchIndex \in [Server -> [Server -> Nat]]
    /\ voteCounts \in [Server -> Nat] /\ voters \in [Server -> SUBSET Server]
    /\ spawned \in [Server -> [Server -> Nat]]
    /\ raftstate \in [Server -> Seq(Saved)]
    /\ rvReq \subseteq RVArgs /\ rvRep \subseteq RVReply
    /\ aeReq \subseteq AEArgs /\ aeRep \subseteq AEReply
    /\ applyBuf \in [Server -> Seq(ApplyMsg)]
    /\ applied \in [Server -> SUBSET ApplyMsg]
    /\ restarts \in Nat

\* At most one leader per term, whatever is lost, delayed or crashed: what
\* checkOneLeader of config.go samples.
ElectionSafety ==
    \A s, t \in Server :
        whoami[s] = Leader /\ whoami[t] = Leader /\ currentTerm[s] = currentTerm[t] => s = t

\* The counter that the goroutines of one election share counts peers, each once:
\* no reply is counted twice and none of an earlier election or life is counted.
VoteCountExact == \A s \in Server : voteCounts[s] = Cardinality(voters[s])

\* What a crash would bring back is what the peer holds in memory, so a promise made
\* in a reply is never forgotten: every handler calls persist() before it returns.
DurableState ==
    \A s \in Server : ReadPersist(raftstate[s]) =
        [currentTerm |-> currentTerm[s], votedFor |-> votedFor[s], log |-> log[s]]

\* What a step may do to the term and the vote of a peer
VoteStep ==
    \A s \in Server :
        /\ currentTerm'[s] >= currentTerm[s]
        /\ currentTerm'[s] = currentTerm[s] /\ votedFor[s] # Nil => votedFor'[s] = votedFor[s]

\* A peer's term never decreases and within a term its vote never changes, across
\* crashes too: the double vote that losing votedFor in a restart would allow.
VoteOncePerTerm == [][VoteStep]_vars

\* nextIndex never drops to the dummy entry 0, so PrevLogIndex = nextIndex - 1 is an
\* index: none of the three ways back (a short log, a conflicting term, and the zero
\* reply of a peer that refuses an old term) goes too far.
NextIndexAtLeastOne == \A s, t \in Server : nextIndex[s][t] >= 1

\* The applier reads only log entries: committedIndex may be past the end of a log
\* that a late AppendEntries cut, never past what the backing array still holds, so
\* the reslicing of applyCommittedLogs cannot panic.
ApplyReadsEntries == \A s \in Server : committedIndex[s] <= Len(log[s]) + Len(residue[s])

\* checkLogs and applier of config.go: the state machine sees index n - 1 before n.
NoApplyGap ==
    \A s \in Server : \A e \in applied[s] :
        e.CommandIndex > 1 => \E d \in applied[s] : d.CommandIndex = e.CommandIndex - 1

\* No two peers apply different commands at one index (checkLogs of config.go).
StateMachineSafety ==
    \A s, t \in Server : \A e \in applied[s], d \in applied[t] :
        e.CommandIndex = d.CommandIndex => e.Command = d.Command

\* Logs that hold the same term at an index are equal up to that index.
LogMatching ==
    \A s, t \in Server : \A i \in 1..Min({Len(log[s]), Len(log[t])}) :
        log[s][i].Term = log[t][i].Term => SubSeq(log[s], 1, i) = SubSeq(log[t], 1, i)

\* An entry is of a term its holder has reached and a majority of the peers has reached:
\* nobody writes under a term it has not won, and no crash leaves a peer with a log that is
\* ahead of its term.  This holds over several terms, with the calls of deposed leaders.
EntryTermsElected ==
    \A s \in Server : \A i \in 1..Len(log[s]) :
        /\ log[s][i].Term <= currentTerm[s]
        /\ 2 * Cardinality({v \in Server : currentTerm[v] >= log[s][i].Term}) > Cardinality(Server)

\* While one leader keeps its term, every entry of its log is applied by every peer,
\* although late and reordered AppendEntries cut followers' logs back on the way.
EventuallyApplied ==
    \A n \in 1..MaxLog :
        (\E s \in Server : whoami[s] = Leader /\ Len(log[s]) >= n) ~>
            (\A t \in Server : \E e \in applied[t] : e.CommandIndex = n)

=============================================================================
