# A TLA+ model of the distributed-systems labs

The repository holds a Go implementation of the MIT 6.5840 labs
(`6.5840-golabs-2024/src`) and a small web application (`gintest`). This
directory models the parts that carry logic of their own, checks them with TLC
on small instances and proves the most important results with TLAPS for every
value of the constants.

    tlc -workers 2 -config MCRaftElection.cfg MCRaft     # a run; PROJECT.json lists them
    tlapm RaftElectionProofs.tla                         # the proofs of a module

## 1. Inventory

| Part | State | Operations | What is hard | What makes it correct |
|---|---|---|---|---|
| Raft peer (`raft/raft.go`, `raft/rpc.go`) | role, term, vote, log, commit and apply indices, `nextIndex`/`matchIndex`, one vote counter per election, goroutines about to send | election timer, `RequestVote`, vote replies, `Start`, heartbeat, `AppendEntries`, its replies, `persist`/`readPersist`, `Kill`, `GetState` | it all runs concurrently under one lock that is released around every RPC; calls are lost, delayed, reordered; peers crash and restart from disk | one leader per term, a vote kept, votes counted once, state on disk before a reply, state machines agree |
| Raft applier (`applyCommittedLogs`) | `lastApplied`, the batch being sent | wait on a condition, copy, send on a channel, record | condition variable, lock released while sending, commit index that may move back | no lost wake-up, indices in order, everything committed is applied |
| Persister (`raft/persister.go`) | bytes of the last save | `Save`, `ReadRaftState` | what a crash keeps | memory and disk agree |
| labrpc | ends, connections, servers, switches; one goroutine per call and one per handler | `Call`, `processReq`, `MakeEnd`, `Connect`, `Enable`, `AddServer`, `DeleteServer`, `Cleanup` | drops requests and replies, delays, servers deleted and replaced while a handler runs, handlers that never return | a call returns; true only if the handler ran in the server that is still there |
| Raft tester (`raft/config.go`) | instances, their ends and persisters, who is connected, logs seen on `applyCh` | `crash1`, `start1`, `connect`, `disconnect`, `checkLogs`, `one`, `nCommitted` | a killed instance goes on running, sending and persisting; logs are read one at a time | a restart loses nothing that was answered, a cut-off peer is cut off, no disagreement goes unnoticed |
| kvsrv (`kvsrv/`) | the map, last sequence number and result per client; the clerk's number | `Get`, `Put`, `Append`, `Delete`, retry loops | an executed call whose reply is lost is retried | linearizable, each write executed once |
| MapReduce (`mr/`) | task list, files left, phase, queue of timed-out tasks; files | assign, done, time-out, phase change; worker loop | slow and dead workers, late reports, half-written output | reduce sees every map's files, the job ends with complete output, and ends |
| porcupine, models | linked list, cache and stack of one search per key; results, kill flag | `checkSingle`, `checkParallel`, `computeVisualizationData`, `KvModel` | parallel searches stopped by a shared flag and a timer; a list that is taken apart and put together again | the verdict is that of the definition; what is shown of a bad history is legal and longest |
| shardkv and shardctrler clerks, shardkv tester | configuration and place in the lists of servers; server instances and persisters | `Get`, `Put`, `Append`, `Query`; `ShutdownServer`, `StartServer` | servers that refuse, are gone or are replaced; configurations out of date | an acknowledged write survives, the clerk is never stuck, and finds the server of its key |
| kvraft; the servers of shardctrler and shardkv | (the empty skeletons of the course) | | | |
| labgob | encoder | | | |
| gintest | users in MySQL, tokens in Redis | register, login, requests with a token | token and session expire independently | |

Parts interact as follows. A Raft peer calls its peers through labrpc and
delivers on `applyCh` to the tester, which stands for a service. kvsrv's clerks
call one server through labrpc. MapReduce workers call the coordinator through
`net/rpc` and exchange files in a shared directory. Raft and kvsrv are not
connected: kvraft, which would connect them, is empty. The testers own the
network: they make its ends, switch them, and add and delete servers under
running calls. The tests of kvsrv, kvraft and shardkv hand the history of their clerks to
porcupine.

`PROJECT.json` lists every hazard (what is hard to test) at its line, with the
properties that cover it.

## 2. Modules

| Module | Models | Used by |
|---|---|---|
| `Raft` | `raft.go`, `rpc.go`, `persister.go`, the network as a caller sees it, crashes as in `config.go` | `MCRaft`, `RaftProofs`, `RaftElectionProofs` |
| `RaftApplier` | `applyCommittedLogs` with its condition variable, and `Kill` | its own run, `RaftApplierProofs` |
| `LabRpc` | `labrpc/labrpc.go` step by step | extended by `RaftTester` and `ShardKv` |
| `RaftTester` | `raft/config.go` over `LabRpc`, with any peers | `MCRaftTester`, `RaftTesterProofs` |
| `KvAbstract` | what kvsrv promises: a linearizable map | refined by `KvSrv` |
| `KvSrv` | `kvsrv/server.go`, `kvsrv/client.go` over a lossy network | `MCKvSrv`, `KvSrvProofs` |
| `MapReduce` | `mr/coordinator.go`, `mr/worker.go` | `MCMapReduce`, `MapReduceProofs` |
| `Porcupine` | `porcupine/checker.go`, `bitset.go`, the data of `visualization.go`, `models/kv.go` | `MCPorcupine`, `PorcupineProofs` |
| `ShardKv` | `shardkv/client.go`, `shardctrler/client.go` (`Query`) and `shardkv/config.go` over `LabRpc` | `MCShardKv`, `ShardKvProofs` |

Definitions named as faults (`NoPersist`, `DuplicateOlder`, ...) are mutations
of the definition that follows them, one for every property. They are part of no
specification: replacing the definition by its fault makes TLC find the property
violated, which shows that the property depends on that code.

### Raft

Every critical section of `rf.mu` is one action. A goroutine that releases the
lock, to make a call or to send on `applyCh`, is split there, so all
interleavings the lock allows are explored.

- `StartElection`: `ticker` finds the timer expired (`ElectionDue`, at any time;
  time is not modelled), and `CandidateRequestVote` sends to all peers. `voteCounts` is the
  variable the goroutines of one election capture; a new election has a new one.
  `live` in a call is FALSE once the peer that made it has crashed: the
  call may still be executed, and nobody reads its reply.
- `RequestVote`, `HandleRequestVoteReply`: the handler and the code after `Call`
  returns, whose three branches are `VoteReplyIgnored`, `VoteReplyNewerTerm` and
  `VoteReplyGranted`.
- `Start`, `Heartbeat`: append to the leader's log; spawn one replication
  goroutine per peer. `SendAppendEntries` is such a goroutine taking the lock:
  it builds its arguments from the state *of that moment*, as the code does.
- `AppendEntries` with `AppendRejected` and `AppendAccepted`; `NewLog` is the
  scan, the truncation and the append of `rpc.go:88-111`. `residue` is what Go's
  backing array still holds behind a truncated log: the applier may reslice into
  it, which is why a truncation below `committedIndex` does not panic.
- `HandleAppendEntriesReply`: `nextIndex` back by three rules, `matchIndex` and
  `checkAndCommitLogs` forward.
- `ApplyCopy`, `ApplySend`: the applier without its condition variable.
- `CallFails`: labrpc drops a request or a reply, or delays it (it stays in the
  set). Sets of calls are unordered, so every reordering happens. labrpc never
  duplicates a call, and neither does the model.
- `Restart`, `RestartInHandler`: `crash1` and `start1` of the tester; the second
  crashes between the two `persist` calls of one handler.

`Snapshot` is empty in the code and has no action. `GetState` changes nothing and
has none either; it reads term and role without the lock, so what it returns need
not be a state of the model.

### labrpc and the Raft tester

`LabRpc` follows one goroutine of `processReq` per call through its steps:
`CallSend`, `ReadEndnameInfo`, `DropRequest` or `Dispatch`, then `ReceiveReply` or
`StopWaiting` (the check every 100 ms), `CheckReply` and the return. The handler
has a goroutine of its own and may return after its call, or never. Delays of any
kind are goroutines that rest. `MakeEnds`, `Enable`, `AddServer`, `DeleteServer`
and `Cleanup` are operators for the owner's actions, each one holding of the
network's lock. `DeleteEnd` and the counters are left out.

`RaftTester` is such an owner. A peer has instances 1, 2, ...; `started` holds all
that were ever made, because killing one only sets a flag: each of them may call,
execute what reached it, write to its `Persister` and deliver on its `applyCh`
(`PeerCall`, `PeerHandles`, `Applier`). What they call and deliver is arbitrary:
the tester is to notice wrong peers. `crash1` and `start1` are split wherever the
network or the other goroutines can come in between; `Copy` and `Save` are the
`Persister`'s. `connect` and `disconnect` are two steps each, one for the loop over
the outgoing ends and one for the loop over the incoming ones; the code takes the
network's lock once per end, so that calls may also come in between two ends of one
loop. No property depends on these: `EndsFollowConnected` is about the states
between the operations, and the others hold with any ends enabled. An applier
checks and writes the logs under the lock (`Applier`) and ends the program after it
has given the lock up (`ApplyError`); `err` holds the appliers in between. `one()` is `One`, `OneStart`
(a connected peer accepts), `OneCount` (one step of `nCommitted`, which releases
the lock between two logs) and its ways out. The model starts where `make_config`
ends.

### kvsrv

`PutAppend`, `Retry`, `CallReturns`, `PutAppendReturns` are the steps of the
clerk's `PutAppend`; `Execute` is the handler of `Put` and `Append`, `Delete`
that of `Delete`. `CallFails` is the network dropping the request (from `call`)
or the reply (from `executed`). `Get` is a second thread of the same clerk, since
it does not take the clerk's lock. A string is a sequence of tokens, so that
`Append` is concatenation and `""` is `<<>>`.

`KvAbstract` has no network, no numbers and no retries: a write is invoked,
applied once, and returns what it found. The refinement mapping reads a call as
applied when the server holds its number, and its result in `record` until the
clerk holds it in `reply`. `Clerk.Get` returns `""` for a stored value equal to
one of two error texts (`client.go:56`), which is the constant `Reserved`;
linearizability is stated for clients that store none.

### MapReduce

`AssignedTask` takes the coordinator's lock twice, so it is two actions, `Check`
and `Assign`; the branches of its `switch` are `AssignNew` (of either phase), `AssignAgain`, `Wait`
(with `HandleTimeOutTask`) and `Finish`. `MarkTaskDone` uses the reported number
as an index in whatever phase it arrives, and panics when it is out of range.
A worker's map task makes its files visible one at a time (`RenameIntermediate`)
and may die in between; a reduce task reads the files that are there and renames
its output. `Expire(i)` says that task `i` is ten seconds old. `Slow` lets that
happen to a task whose worker lives; `IOErrors` lets file operations fail in the
ways the worker only logs. A worker's death during a call is not a separate
case: the handler does not notice it, so it equals a death just after.

### porcupine

`checkOperations` on an arbitrary history: `Partitions` and `Part` split it by
key, in the order of the history, `MakeEntries` sorts calls and returns, and every partition has a search
(`checkSingle`), whose state is the linked list (`next`, `prev`), the stack
`calls`, the bitset `linearized` and the cache. `Lift` and `Unlift` change the
links as the code does, without looking at what is in the list. `checkParallel`
receives results, may time out (`timed`), sets `kill` (the "false positive" the comment
at `checker.go:308` speaks of is its local `ok`; after a timeout it returns `Unknown`
whatever `ok` is, and `VerdictRight` says so) and, when verbose, waits for
the rest and collects `partials`; `Visualize` replays them as
`computeVisualizationData` does and panics where it does. `Linearizable`,
`RealTime` and `Legal` are the reference: some order of all operations respects
real time and is explained by one map of all keys.

### shardkv

The clerk `ck` is at one place of the nested loops of `Get` and `PutAppend`, or of
the `Query` it calls: `TryServer`, `Send`, then `Return`, `WrongGroup` or
`NextServer`; with no server left `Query`, `AskController` and `QueryReturns` or
`NextController`. The handlers in the repository are empty, so the model lets them
give any reply their types allow. `Put` stands for Put and Append, which differ in
an argument only. The tester's `ShutdownServer` and `StartServer` run beside it,
one step of the network or of the persister at a time. A call whose handler still
runs when the clerk has gone on is kept (`HandleLate`).

## 3. Runs

| Run | Instance | Result |
|---|---|---|
| `raft_election` | 3 peers, 2 terms, 1 crash, logs to 2, no AppendEntries, at most 5 vote calls under way | `TypeOK`, `ElectionSafety`, `VoteCountExact`, `DurableState`, `EntryTermsElected`, `VoteOncePerTerm` hold |
| `raft_replication` | 2 peers, 1 term, 2 commands, logs to 2, 2 calls under way | `NextIndexAtLeastOne`, `ApplyReadsEntries`, `NoApplyGap`, `StateMachineSafety`, `LogMatching` hold |
| `raft_liveness` | 2 peers, 1 term, logs to 2, reliable network | `EventuallyApplied` holds |
| `raft_applier` | indices to 3 | `TypeOK`, `NoLostWakeup`, `InOrder`, `CommittedIsApplied` hold |
| `raft_state_machine` | 2 peers, 2 terms, logs to 1 | `StateMachineSafety` is violated |
| `raft_tester` | 2 peers with 2 instances each, 1 call, 2 commands, 2 indices, 3 operations | `TypeOK`, `AckedIsDurable`, `EndsFollowConnected`, `DisagreementFails`, `OneMeansCommitted`, `CallReturns` hold |
| `kvsrv` | 2 clients, 1 key, 1 text, 2 writes each | `TypeOK`, `InSequence`, `Linearizable`, `CallsReturn` hold |
| `porcupine` | 20,736 cases: histories of 3 operations on 2 keys with times 1..3, verbose or not, with and without a timeout | `VerdictRight`, `PartialsLegal`, `PartialsLongest`, `ListExact`, `CheckReturns` hold |
| `shardkv` | 2 groups of 1 server, 2 controllers, 2 shards and keys, 3 configurations, 1 operation, 2 calls, 2 operations of the tester | `TypeOK`, `AckedIsDurable`, `KeepsTrying`, `ServedOnceSettled` hold |
| `mapreduce` | 3 workers, 2 of which may die, 2 map and 2 reduce tasks | `TypeOK`, `ReduceReadsAll`, `JobComplete`, `JobFinishes` hold |
| `mapreduce_slow` | 3 slow workers, 1 death, file errors | `RePendingValid` holds |
| `mapreduce_late` | 2 slow workers, 1 map and 1 reduce task | `JobComplete` is violated |

Why the bounds are enough for the question of each run:

- An election needs 3 peers for a majority that is not everybody, 2 terms for
  replies of an older election, and one crash for a vote that could be forgotten.
  The bound of 5 on vote calls is above what the two elections of one candidate
  leave under way (4).
- One term of two peers with two overlapping calls already shows every way
  `AppendEntries` of one leader can overtake each other, cut a follower and have
  it refilled. Over two terms the code is *not* safe (next section), so the
  passing run of the properties of logs stays within one.
- `EntryTermsElected` is checked where elections compete, on the entries leaders
  write; three peers with AppendEntries as well are beyond TLC. For entries that
  are replicated, cut and restored over any number of terms, and for the zero reply
  to a call of an old term, there are the theorems `EntriesElected` and
  `NextIndexSafe`.
- `committedIndex` must be able to rise, fall and rise again around the batch the
  applier is sending: 3 indices.
- For kvsrv a second client must write between a call and its repetition, and one
  client must make a second call after a repeated first one.
- A call, the deletion of its server and the start of a new one under the same name,
  with old and new instance alive, need 2 instances and 1 call. A disagreement
  needs 2 commands, and delivery out of order 2 indices. Three operations are a
  restart with a call or delivery on either side of it, or `one()` with two deliveries.
- Three intervals within times 1..3 take every order, with and without equal times;
  two operations on one key and a third on the same or another one give searches
  that backtrack, hit the cache and end in either order.
- The clerk of shardkv repeats its loop for ever, so one operation suffices to meet
  refusals, a wrong group, a missing group and each server being replaced. The
  second call is for a handler that is still running when the next call is made.
  For a key that moves there must be a group it moves to: 2 groups. The clerk has
  tried all servers of a group after one; with 2 servers in each the run takes
  longer than five minutes. The walk over a longer list is the one over the 2
  controllers, and the theorems about `ShardKv` are for lists of any length.
- In MapReduce two deaths leave two lost tasks for one worker, and two tasks per
  phase distinguish the first, the last and all of them.

`CHECK_DEADLOCK FALSE` is set where a bounded or finished system stops: the Raft
and kvsrv bounds stop new work, a finished MapReduce job or check ends, and so
does a test; the clerk of shardkv stops after its operations. In `RaftApplier`
`Kill` is always possible, so a deadlock check would show nothing: that the applier
does not wait for nothing is `NoLostWakeup`.

Symmetry is used in runs without liveness properties only. The constraint `Bounds` of
`MCRaft` limits calls and goroutines under way; it is not used in the run of a
liveness property.

Fairness:

- `Raft!FairSpec` has a network that loses nothing (`NextReliable`), as in the
  tester's reliable configurations, and weak fairness of the heartbeat loop, of
  every spawned goroutine, of every call under way and of the applier: the Go
  scheduler runs every goroutine that can run. Elections need not happen.
- `RaftApplier!Spec`: weak fairness of the applier's own steps.
- `KvSrv`: the fairness is a premise of `CallsReturn`, one for each goroutine of
  each clerk (`WriterRuns`, `GetterRuns`): weak fairness of its loop; strong
  fairness of the execution of a call and of its return, because the network drops
  a message with a fixed probability below one, independently each time. A call
  returns whatever the other clerks do or do not do.
- `RaftTester!FairSpec`: weak fairness of the goroutines of the network. Handlers
  need not return, nor the tester or the peers do anything.
- `Porcupine!FairSpec`: weak fairness of every search and of `checkParallel`
  without its timer, which need not fire.
- `ShardKv!FairSpec`: weak fairness of the clerk, the network and the handlers,
  which in the repository return at once. What they answer is not restricted, so
  an operation need not end; `KeepsTrying` says that the clerk always comes back
  to asking a controller. `ServedOnceSettled` has a premise instead (`Settled`):
  from some time on the network is reliable, one server `l` of one group `g` is up
  and says OK when it is asked, no server of `g` denies its shard, one controller
  `k` leads, and whoever leads names `g` for the key. Then the operation returns,
  whatever the clerk's configuration was at that time and whatever all the other
  servers go on answering.
- `MapReduce!FairSpec`: weak fairness of each live worker and its handlers, of
  the clock, and of `Done`, which `mrcoordinator` polls. `MaxCrash` is below the
  number of workers: nobody restarts a worker.

### What the violated properties show

- `raft_state_machine`: `processAppendEntriesReply` builds its arguments without
  asking whether the peer is still the leader (`raft.go:254`). A deposed leader's
  goroutine sends its old log under the *new* term; the new leader does not refuse
  a call of its own term and `rpc.go:109` cuts its log. Another command is then
  committed at an index that was applied already, which the tester's
  `checkLogs` exists to report.
- `mapreduce_late`: `MarkTaskDone` knows a task by its number only
  (`coordinator.go:104`). A map task reported late, in the reduce phase, completes
  the reduce task of that number, or panics when there is none yet.

## 4. Proofs

All proofs are for any sets and any bounds; they assume only what the modules
state: the set of peers is finite, not empty and without `Nil`; bounds are natural
numbers; texts are sequences of tokens; there is at least one map and one reduce
task; the `Nil` of `RaftTester` and `ShardKv` is no server, instance or call; histories
are sequences of operations that return no earlier than they are called. Four
theorems have a hypothesis more, because the code does not keep the property
without it; it is said in the statement of the theorem:

- `~IOErrors` for `MrReduceReadsAll` and `MrJobComplete`: a worker reports a map
  task whose files it could not write (`worker.go:57`);
- `~Slow` for `MrJobComplete`: run `mapreduce_late`;
- `[]OnlyLeads(o)`, one peer alone leads in the behaviour, for
  `OneLeaderLogMatching` and `OneLeaderStateMachine`: run `raft_state_machine`.

**`RaftProofs`** proves `TypeCorrect`, `NextIndexSafe` and `ApplySafe` from one
inductive invariant, `TInv`: `TypeOK`, `NextIndexAtLeastOne`, `ApplyReadsEntries`
and `CallIndices` (a call that starts at the dummy entry carries term 0, and a
rejection names an index of at least 1 unless it is the zero reply to an old
term). The last is needed because `nextIndex` is computed from replies that have
been under way for any time: a rejection with conflict index 0 would take it
below 1. The
lemmas before it bound each operator (`NewLog`, `NewCommit`, `Residue`,
`NextAfterConflict`, `Committable`, `FirstOfTerm`); there is one lemma per action.

`NoGap` proves `NoApplyGap` from `GapInv`: what is up to `lastApplied` has been
sent since the peer was first started (`Reached`), and a batch that is being sent
begins with an index whose predecessors have been sent and counts up from there
(`BufferFollows`). `lastApplied` alone is not enough: it moves only after the last
message of a batch, and a restart sets it back to 0.

**`RaftElectionProofs`** proves, on top of it,

- `Durable`: `DurableState` is inductive with `TInv`, since every action that
  changes term, vote or log ends in `persist`, and `Restart` reads it back;
- `VoteKept`: the action property `VoteOncePerTerm`, from `DurableState`;
- `ElectionSafe` and `VotesCounted`: `ElectionSafety` and `VoteCountExact`, from
  the invariant `EInv`. The idea is that a vote of peer `v` for candidate `s` in
  term `T` is *held* in one of several places: in a granting reply under way, or
  counted in `voters[s]`. `HoldsPromised` says that a held vote is still a promise
  of `v` (its term is past `T`, or it is `T` and the vote is for `s`);
  `HoldsUnique` that no vote is held for two candidates of one term; `NotCounted`
  that a call whose reply may still be counted has not been counted, so the
  counter is exact; `LeaderQuorum` that a leader's counter is a majority;
  `CallsInv` that calls under way are of terms their callers have reached and that
  a peer is asked once per term. Two leaders of
  one term then have two majorities, which meet (`MajoritiesMeet`), in a vote held
  for both;
- `EntriesElected`: `EntryTermsElected`, for any number of terms and of leaders. The
  invariant says of logs (`LogsReached`) and of the entries of calls under way
  (`CallsReached`) that their terms are bounded by the term of the holder or of the
  call and lie in `ReachedTerms`, the terms a majority has reached. A leader writes
  under a term a majority voted in (`LeaderQuorum` and `HoldsPromised` of `EInv`),
  reached terms stay reached because terms only grow (`VoteStep`), and a deposed
  leader's call carries a term at least as new as its entries, which is why its
  receiver, who adopts that term, may store them;
- `OneLeaderLogMatching` and `OneLeaderStateMachine`: in every behaviour in which no
  peer but `o` ever leads, the properties of the logs hold for any number of peers,
  commands, calls, terms, elections and restarts: `o` may lose the leadership to a
  newer term and win it back, others may stand and lose. As soon as a second peer
  leads, the code breaks `StateMachineSafety` (section 3), so a hypothesis on who
  leads is needed; it does not restrict terms. The invariant `Follows` says that
  everything comes from the log of `o`: every log is a prefix of it, what a
  truncation left in the backing array continues that prefix, the entries of a call
  lie in it where the call says, no call is on its way to `o`, only `o` has
  replication goroutines, and every command applied or about to be is in it at its
  index. That `o` restarts with all of its log is `DurableState`. The operators of
  the model are covered by lemmas on sequences (`NewLogWithin`: such a call finds no
  conflict in such a log; `ResidueWithin`).

**`RaftApplierProofs`** proves `TypeCorrect`, `WakeupKept` and the action property
`DeliversInOrder` from `AInv`, which adds to the first two that the batch being sent
starts behind what is applied and that what was delivered is what precedes it
(`BatchFollowsApplied`). It is needed because `committedIndex` moves in both
directions while the lock is released.

**`RaftTesterProofs`** has an invariant for each question, over any number of
peers, instances and calls:

- `TInv` for `RtTypeCorrect`, with the program counters of `crash1`, `start1`,
  `connect` and `one()`;
- `SInv` for `RtDurable`: the server that the network knows under a name is the
  instance whose `Persister` is the saved one, except between the steps of a crash
  or a start, where none is known (`ServerIsSaved`, `RestartSteps`), and a handler
  that is done has written to the `Persister` of its own instance (`Recorded`). So a
  reply that passes `CheckReply` is in the saved `Persister`; this is why `crash1`
  deletes the server *before* it copies the persister;
- `EndsInv` for `RtEndsFollowConnected`: what is enabled in the middle of
  `connect` and `disconnect`, end by end;
- `LInv` for `RtDisagreementFails` and `RtOneMeansCommitted`: as long as no applier
  has found an error, every delivery is still in a log, to be compared with the
  others, and what `nCommitted` has counted so far is too.

**`ShardKvProofs`** proves `SkTypeCorrect` from `CInv` (the clerk's place in its two
nested loops determines which lists it walks and that its index is within them; a
call under way was made from that place, to the server it names) and `SkDurable`
from `DInv`, which is to the shardkv tester what `SInv` is to Raft's.

**`KvSrvProofs`** proves `KvTypeCorrect`, `KvInSequence` and the refinement
`KvLinearizable` from `KInv`: types, `InSequence`, and `CallState` (a call under
way has arguments; the reply on its way is the recorded one; a `Get` holds a
value only once executed). `InSequence` makes the branch for a call out of
sequence (`server.go:49`) unreachable; without it a lost write would be answered
as done. `StepRefines` then has one step per action: `Execute` of a new number is
`Apply`, `Execute` of a repeated one is a stuttering step.

**`MapReduceProofs`** proves `MrTypeCorrect` and `MrRePendingValid` from `MInv`:
`TasksCounted` (the task list has as many tasks as were handed out in the phase)
and `TaskOfPhase` (a worker at a map task holds a map task's number) besides the
two. They hold also with slow workers and failing files.

`MrReduceReadsAll` is for working files, however slow the workers are: `FInv` adds
what each worker has renamed so far (`WorkerFiles`), that a map task completed in
the map phase has all its files (`CompletedFiles`: every report of that phase is
about a map task, and its worker has renamed all its files before) and that all
files are there in the later phases (`AllFiles`).

`MrJobComplete` is for prompt workers besides, whoever dies: `PInv` adds `Exclusive`
(a task in progress has one live worker at most, so no report of a map task is under
way when the reduce phase begins) and `OutputThere` (a reduce task counted as done,
or reported, has its output). `mapreduce_late` shows that slow workers break
`JobComplete`, through the first part of `Exclusive`.

**`PorcupineProofs`** proves every safety property of the checker, for every
history, any number of operations and of partitions, whoever ends first and
whenever the timer fires.

`PorcupineList` is `ListExact`. `lift` leaves the links of the two entries
it takes out as they were and `unlift` trusts them, although meanwhile their
neighbours may have been taken out and put back. The invariant `SearchInv` has, for
each operation on the stack, a `Frame`: its return points to its neighbours in the
list without the operation, its call to those in that list with the return. `Rest`
is that list, by depth of the stack. Frames of lower operations survive because a
step only writes to links of entries that are in the list (`LiftLinks`,
`UnliftLinks`). The rest of the argument is that the search stays inside the list:
behind a call there is at least its own return (`Behind`), because `makeEntries`
sorts a call before its return (`EntriesOK`; `Ranks` shows that every place of a
finite ordered set is taken once). That a return is not earlier than its call is
the assumption on histories.

`PorcupineVerdict`, `PorcupinePartials` and `PorcupineLongest` are `VerdictRight`,
`PartialsLegal` and `PartialsLongest`, from one invariant, `CheckInv`. The argument
has three parts.

- *A search is right* (`Sound`, `WalkInv`). A run (`IsRun`) is a legal sequence of
  some operations of a partition with the states it goes through. The stack is a
  run, and so is what is recorded in `longest`. A set of linearized operations with
  a state is `Explored` if no run through it is complete and, when verbose, none is
  longer than what is recorded for each of its operations. What was tried before
  the current entry at any depth of the stack is explored (`Tried`, `StackTried`);
  what is in the cache is explored or on the stack (`CacheInv`). The second case is
  why the cache does no harm: a set on the stack is smaller than the one asked for,
  so a hit is always explored. Backtracking makes the top of the stack explored
  (`ExploredHere`): at a return of an operation that is not linearized no run can
  go on with an operation that is called later, because `makeEntries` sorts by time
  (`EntriesSorted`), and all earlier calls were tried. So a search that ends with
  an empty stack has met every run (`SoundNone`). `RunLegal` and `LegalRun` say
  that runs are what `Legal` and `Replay` accept.
- *Keys can be checked one by one* (`Locality`). One direction takes the operations
  on a key out of an order of the whole history (`Project`); the other merges
  complete runs of the keys (`MergeStep`): the next operation on the key of the
  operation that returns first among those that are left. Whatever returned before
  it was called is in the order already.
- *`checkParallel` draws the right conclusions* (`VerdictInv`, `CountInv`,
  `KillInv`). A search that was stopped reports `false` like one that found nothing.
  Such results reach the channel only when `kill` is set, and then the loop that
  takes results into account has ended. As many results are counted or in the
  channel as searches have returned, so that after the last one all are known.

`Maps` and `Replay` are defined by recursion. What they compute is proved by
induction all the same: the library's induction theorem takes an operator, but that
a set of natural numbers has a least member (`Least`, from the well-foundedness of
`<`) is a statement about a set, and induction over a set of numbers (`Induct`)
follows from it.

Only model-checked:

- the liveness properties `EventuallyApplied`, `CommittedIsApplied`, `CallReturns`,
  `CallsReturn`, `JobFinishes`, `CheckReturns`, `KeepsTrying` and `ServedOnceSettled`: fairness and
  `ENABLED` are outside what the provers handle.

## 5. Not modelled

- labgob (encoding), the page porcupine writes for a browser and `checkEvents`,
  which nothing calls, the map and reduce functions on text, the mains of older
  labs, and the empty servers of kvraft, shardctrler and shardkv.
- Of the Raft tester: `applierSnap` and `ingestSnap` (`Snapshot` is empty in the
  peers), `wait`, `checkOneLeader`, `checkTerms` and `checkNoLeader`, which only
  read, and the statistics.
- `Join`, `Leave` and `Move` of the shardctrler clerk, which repeat the loop of
  `Query`, and the testers of kvsrv, kvraft and shardctrler.
- gintest: its logic is three calls of gin, MySQL and Redis each, and the outcome
  depends on how these behave, which is not in the repository.
- Time is abstracted everywhere to "may happen now", contents of MapReduce files
  to which tasks they stem from, a bitset of porcupine to the set of its members.
- `checkParallel` on a history without operations waits for a result for ever; no
  caller has one, and neither has the run, whose `CheckReturns` it would break.

## 6. Plan

Raft with longer logs: the entries `rpc.go:105-107` appends twice after a conflict;
replication with three peers.
