----------------------------- MODULE RaftTester -----------------------------
(***************************************************************************)
(* raft/config.go, the tester that starts, crashes, restarts, connects and *)
(* disconnects Raft peers, over the network of labrpc.  It cannot really   *)
(* kill a peer: an old instance goes on running, executes the calls that   *)
(* reached it, writes to the Persister it was given and delivers on its    *)
(* applyCh.  The peers are the system under test; here an instance may     *)
(* call any peer, deliver any command, and accept any command in Start.    *)
(* A handler records its call in the instance's Persister before it        *)
(* returns, as the handlers of Raft do (DurableState of module Raft).      *)
(*                                                                         *)
(* The state is followed from the end of make_config on.                   *)
(***************************************************************************)
EXTENDS LabRpc, FiniteSets

CONSTANTS
    N,           \* number of peers
    Cmd,         \* commands
    MaxIndex,    \* bound on the log indices delivered
    MaxGen,      \* bound on the instances of a peer
    MaxSteps     \* bound on the tester's operations and the peers' calls and deliveries

Peer == 0..(N - 1)
Gen == 1..MaxGen

ASSUME BoundAssumption == N \in Nat \ {0} /\ {MaxIndex, MaxGen, MaxSteps} \subseteq Nat \ {0}
\* randstring gives every instance fresh names for its ends, one per peer
ASSUME NameAssumption == EndName = Peer \X Gen \X Peer /\ ServerName = Peer /\ Server = Gen
ASSUME NilAssumption == Nil \notin Peer \cup Gen \cup Cmd \cup EndName

VARIABLES
    endnames,  \* endnames[i]: the instance whose ends cfg.endnames[i] holds
    connected,
    rafts,     \* rafts[i]: the instance cfg.rafts[i] points to, Nil if none
    started,   \* started[i]: the instances of i that Make has started
    saved,     \* saved[i]: the instance whose Persister cfg.saved[i] is, 0 for a copy of its own
    persister, \* persister[i][g]: the calls recorded in the Persister of an instance
    logs,
    err,       \* the appliers that have found an error and are about to end the program
    failed,    \* the program or its test has ended
    task,      \* the tester operation under way: its name, its peer and its next step
    one,       \* what one() is doing
    result,    \* history: the last agreement that one() has returned
    delivered, \* history: the (index, command) pairs delivered
    steps

cfgVars == <<endnames, connected, rafts, started, saved, persister>>
logVars == <<logs, err, delivered>>
oneVars == <<one, result>>
vars == <<netVars, cfgVars, logVars, failed, task, oneVars, steps>>

Idle == [op |-> "idle", i |-> Nil, step |-> "none"]
NoOne == [cmd |-> Nil, expected |-> 0, index |-> 0, next |-> 0, count |-> 0, seen |-> Nil]

EndsOf(i) == {<<i, endnames[i], j>> : j \in Peer}
EndsTo(i) == {<<j, endnames[j], i>> : j \in Peer}

\* The state make_config leaves
Init ==
    /\ connections = [e \in EndName |-> IF e[2] = 1 THEN e[3] ELSE Nil]
    /\ enabled = [e \in EndName |-> e[2] = 1]
    /\ servers = [i \in Peer |-> 1]
    /\ reliable \in BOOLEAN
    /\ NetworkRuns
    /\ endnames = [i \in Peer |-> 1] /\ connected = [i \in Peer |-> TRUE]
    /\ rafts = [i \in Peer |-> 1] /\ started = [i \in Peer |-> {1}]
    /\ saved = [i \in Peer |-> 1] /\ persister = [i \in Peer |-> [g \in 0..MaxGen |-> {}]]
    /\ logs = [i \in Peer |-> [k \in 1..MaxIndex |-> Nil]]
    /\ err = {} /\ failed = FALSE /\ task = Idle
    /\ one = NoOne /\ result = NoOne /\ delivered = {}
    /\ steps = 0

-----------------------------------------------------------------------------
(* connect and disconnect: the outgoing ends, then the incoming ones, each *)
(* loop in one step, although the code takes the network's lock anew for   *)
(* every end.                                                              *)

Begin(op, i, step) ==
    /\ task = Idle /\ steps < MaxSteps /\ ~failed /\ ~done
    /\ task' = [op |-> op, i |-> i, step |-> step]
    /\ steps' = steps + 1

At(op, step) == task.op \in op /\ task.step = step /\ ~failed
Then(step) == task' = [task EXCEPT !.step = step] /\ UNCHANGED steps
Finish == task' = Idle /\ UNCHANGED steps

\* The tests connect servers that run
Connect(i) ==
    /\ rafts[i] # Nil
    /\ Begin("connect", i, "incoming")
    /\ connected' = [connected EXCEPT ![i] = TRUE]
    /\ Enable({e \in EndsOf(i) : connected'[e[3]]}, TRUE)
    /\ UNCHANGED <<connections, servers, reliable, done, serving, callVars, endnames, rafts, started, saved, persister,
                   logVars, failed, oneVars>>

\* Fault: incoming ends are enabled whether the other side is connected or not
ConnectIncomingAll ==
    /\ At({"connect"}, "incoming")
    /\ Enable(EndsTo(task.i), TRUE)
    /\ Finish
    /\ UNCHANGED <<connections, servers, reliable, done, serving, callVars, cfgVars, logVars, failed, oneVars>>

ConnectIncoming ==
    /\ At({"connect"}, "incoming")
    /\ Enable({e \in EndsTo(task.i) : connected[e[1]]}, TRUE)
    /\ Finish
    /\ UNCHANGED <<connections, servers, reliable, done, serving, callVars, cfgVars, logVars, failed, oneVars>>

\* disconnect, crash1 and start1 all begin by disconnecting the outgoing ends
Disconnect(i, op) ==
    /\ Begin(op, i, "incoming")
    /\ connected' = [connected EXCEPT ![i] = FALSE]
    /\ Enable(EndsOf(i), FALSE)
    /\ UNCHANGED <<connections, servers, reliable, done, serving, callVars, endnames, rafts, started, saved, persister,
                   logVars, failed, oneVars>>

DisconnectIncoming ==
    /\ At({"disconnect", "crash1", "start1"}, "incoming")
    /\ Enable(EndsTo(task.i), FALSE)
    /\ IF task.op = "disconnect" THEN Finish ELSE Then("delete")
    /\ UNCHANGED <<connections, servers, reliable, done, serving, callVars, cfgVars, logVars, failed, oneVars>>

-----------------------------------------------------------------------------
(* The Persister (raft/persister.go).                                      *)

\* Copy: Persister `to' of peer i is a new one with the content of `from'
Copy(i, from, to) == persister' = [persister EXCEPT ![i][to] = persister[i][from]]

\* Save: the state instance g of peer i writes, with what call c did
Save(i, g, c) == persister' = [persister EXCEPT ![i][g] = @ \cup {c}]

-----------------------------------------------------------------------------
(* crash1 and start1.                                                      *)

CrashDelete ==
    /\ At({"crash1", "start1"}, "delete")
    /\ DeleteServer(task.i)
    /\ Then("copy")
    /\ UNCHANGED <<connections, enabled, reliable, done, serving, callVars, cfgVars, logVars, failed, oneVars>>

\* A fresh Persister with the content of the old one
CrashCopy ==
    LET i == task.i IN
    /\ At({"crash1", "start1"}, "copy")
    /\ Copy(i, saved[i], 0)
    /\ saved' = [saved EXCEPT ![i] = 0]
    /\ Then("kill")
    /\ UNCHANGED <<netVars, endnames, connected, rafts, started, logVars, failed, oneVars>>

\* Kill only sets a flag; the Persister is copied once more, with the same content
CrashKill ==
    /\ At({"crash1", "start1"}, "kill")
    /\ rafts' = [rafts EXCEPT ![task.i] = Nil]
    /\ IF task.op = "crash1" THEN Finish ELSE Then("ends")
    /\ UNCHANGED <<netVars, endnames, connected, started, saved, persister, logVars, failed, oneVars>>

\* A fresh set of ends, disabled, each connected to its peer
StartEnds ==
    LET i == task.i g == endnames[i] + 1 IN
    /\ At({"start1"}, "ends")
    /\ endnames' = [endnames EXCEPT ![i] = g]
    /\ MakeEnds([e \in {i} \X {g} \X Peer |-> e[3]])
    /\ Then("make")
    /\ UNCHANGED <<servers, reliable, done, serving, callVars, connected, rafts, started, saved, persister,
                   logVars, failed, oneVars>>

\* Fault: the new instance is counted once too often
StartMakeNext ==
    LET i == task.i g == endnames[i] + 1 IN
    /\ At({"start1"}, "make")
    /\ saved' = [saved EXCEPT ![i] = g]
    /\ rafts' = [rafts EXCEPT ![i] = g]
    /\ Then("add")
    /\ UNCHANGED <<netVars, endnames, connected, started, persister, logVars, failed, oneVars>>

\* Make starts the new instance on its own copy of the Persister, and applier reads
\* from the new applyCh
StartMake ==
    LET i == task.i g == endnames[i] IN
    /\ At({"start1"}, "make")
    /\ Copy(i, 0, g)
    /\ saved' = [saved EXCEPT ![i] = g]
    /\ rafts' = [rafts EXCEPT ![i] = g]
    /\ started' = [started EXCEPT ![i] = @ \cup {g}]
    /\ Then("add")
    /\ UNCHANGED <<netVars, endnames, connected, logVars, failed, oneVars>>

StartAdd ==
    /\ At({"start1"}, "add")
    /\ AddServer(task.i, endnames[task.i])
    /\ Finish
    /\ UNCHANGED <<connections, enabled, reliable, done, serving, callVars, cfgVars, logVars, failed, oneVars>>

SetUnreliable(unrel) ==
    /\ task = Idle /\ steps < MaxSteps /\ ~failed /\ ~done
    /\ reliable = unrel /\ Reliable(~unrel)
    /\ steps' = steps + 1
    /\ UNCHANGED <<connections, enabled, servers, done, serving, callVars, cfgVars, logVars, failed, task, oneVars>>

\* cleanup at the end of a test: all instances are killed and the network is closed
CleanupCfg ==
    /\ task = Idle /\ steps < MaxSteps /\ ~failed /\ ~done
    /\ Cleanup
    /\ steps' = steps + 1
    /\ UNCHANGED <<adminVars, serving, callVars, cfgVars, logVars, failed, task, oneVars>>

-----------------------------------------------------------------------------
(* The instances, old and new.                                             *)

Event == ~failed /\ steps < MaxSteps /\ steps' = steps + 1

\* An instance g of peer i calls peer j
PeerCall(c, i, g, j) ==
    /\ g \in started[i] /\ Event
    /\ CallSend(c, <<i, g, j>>) \/ CallDone(c, <<i, g, j>>)
    /\ UNCHANGED <<cfgVars, logVars, failed, task, oneVars>>

\* The handler of the instance that is called persists what it did, and returns
PeerHandles(c) ==
    /\ HandlerReturns(c) /\ ~failed
    /\ Save(req[c].name, req[c].server, c)
    /\ UNCHANGED <<endnames, connected, rafts, started, saved, logVars, failed, task, oneVars, steps>>

NetworkStep(c) ==
    /\ Carry(c) /\ ~failed
    /\ UNCHANGED <<cfgVars, logVars, failed, task, oneVars, steps>>

NetworkStops ==
    /\ StopServing /\ ~failed
    /\ UNCHANGED <<cfgVars, logVars, failed, task, oneVars, steps>>

\* Fault: the log of the server itself is not looked at
DiffersElsewhere(i, k, v) == \E j \in Peer \ {i} : logs[j][k] \notin {Nil, v}

\* checkLogs: some server has already applied another command at this index
Differs(i, k, v) == \E j \in Peer : logs[j][k] \notin {Nil, v}

\* applier receives command v at index k from instance g of peer i, and checks and
\* writes the logs under the lock
Applier(i, g, k, v) ==
    /\ g \in started[i] /\ <<i, g>> \notin err /\ Event
    /\ logs' = [logs EXCEPT ![i][k] = v]
    /\ err' = IF Differs(i, k, v) \/ (k > 1 /\ logs[i][k - 1] = Nil)
                THEN err \cup {<<i, g>>} ELSE err
    /\ delivered' = delivered \cup {<<k, v>>}
    /\ UNCHANGED <<netVars, cfgVars, failed, task, oneVars>>

\* It has given the lock up before it ends the program (log.Fatalf): the others go on
\* with the new logs in between
ApplyError ==
    /\ err # {} /\ ~failed
    /\ failed' = TRUE
    /\ UNCHANGED <<netVars, cfgVars, logVars, task, oneVars, steps>>

-----------------------------------------------------------------------------
(* one: a complete agreement.                                              *)

One(cmd, expected) ==
    /\ Begin("one", Nil, "try")
    /\ one' = [NoOne EXCEPT !.cmd = cmd, !.expected = expected]
    /\ UNCHANGED <<netVars, cfgVars, logVars, failed, result>>

\* A connected server accepts the command and says at which index it will be
OneStart(i, index) ==
    /\ At({"one"}, "try")
    /\ connected[i] /\ rafts[i] # Nil
    /\ one' = [one EXCEPT !.index = index, !.next = 0, !.count = 0, !.seen = Nil]
    /\ Then("count")
    /\ UNCHANGED <<netVars, cfgVars, logVars, failed, result>>

\* nCommitted looks at one log; the lock is free between two of them
OneCount ==
    LET cmd1 == logs[one.next][one.index] IN
    /\ At({"one"}, "count") /\ one.next < N
    /\ one' = [one EXCEPT !.next = @ + 1,
                          !.count = IF cmd1 = Nil THEN @ ELSE @ + 1,
                          !.seen = IF cmd1 = Nil THEN @ ELSE cmd1]
    /\ failed' = (cmd1 # Nil /\ one.count > 0 /\ one.seen # cmd1)
    /\ UNCHANGED <<netVars, cfgVars, logVars, task, result, steps>>

\* Fault: what was committed at the index is not compared with the command
SomethingAgreed == one.count > 0 /\ one.count >= one.expected

Agreed == one.count > 0 /\ one.count >= one.expected /\ one.seen = one.cmd

OneReturns ==
    /\ At({"one"}, "count") /\ one.next = N /\ Agreed
    /\ result' = one /\ one' = NoOne
    /\ Finish
    /\ UNCHANGED <<netVars, cfgVars, logVars, failed>>

\* Not agreed yet: look again
OneWaits ==
    /\ At({"one"}, "count") /\ one.next = N /\ ~Agreed
    /\ one' = [one EXCEPT !.next = 0, !.count = 0, !.seen = Nil]
    /\ UNCHANGED <<netVars, cfgVars, logVars, failed, task, result, steps>>

\* The two seconds for this index are over: submit again (retry), or fail
OneGivesUp ==
    /\ At({"one"}, "count") /\ one.next = N /\ ~Agreed
    /\ \/ Then("try") /\ UNCHANGED failed
       \/ failed' = TRUE /\ UNCHANGED <<task, steps>>
    /\ UNCHANGED <<netVars, cfgVars, logVars, oneVars>>

\* The ten seconds are over
OneFails ==
    /\ At({"one"}, "try")
    /\ failed' = TRUE
    /\ UNCHANGED <<netVars, cfgVars, logVars, task, oneVars, steps>>

-----------------------------------------------------------------------------
TesterNext ==
    \/ \E i \in Peer : Connect(i) \/ Disconnect(i, "disconnect") \/ Disconnect(i, "crash1")
    \/ \E i \in Peer : endnames[i] < MaxGen /\ Disconnect(i, "start1")
    \/ ConnectIncoming \/ DisconnectIncoming
    \/ CrashDelete \/ CrashCopy \/ CrashKill
    \/ StartEnds \/ StartMake \/ StartAdd
    \/ \E unrel \in BOOLEAN : SetUnreliable(unrel)
    \/ CleanupCfg
    \/ \E cmd \in Cmd, n \in Peer : One(cmd, n + 1)
    \/ \E i \in Peer, k \in 1..MaxIndex : OneStart(i, k)
    \/ OneCount \/ OneReturns \/ OneWaits \/ OneGivesUp \/ OneFails

PeerNext ==
    \/ \E c \in Call, i, j \in Peer, g \in Gen : PeerCall(c, i, g, j)
    \/ \E c \in Call : PeerHandles(c) \/ NetworkStep(c)
    \/ NetworkStops
    \/ \E i \in Peer, g \in Gen, k \in 1..MaxIndex, v \in Cmd : Applier(i, g, k, v)
    \/ ApplyError

Next == TesterNext \/ PeerNext

Spec == Init /\ [][Next]_vars

\* The goroutines of the network run; a handler need not return
FairSpec == Spec /\ \A c \in Call : WF_vars(NetworkStep(c))

-----------------------------------------------------------------------------
(* Properties.                                                             *)

\* Type correctness.
TypeOK ==
    /\ NetTypeOK
    /\ endnames \in [Peer -> Gen] /\ connected \in [Peer -> BOOLEAN]
    /\ rafts \in [Peer -> Gen \cup {Nil}] /\ started \in [Peer -> SUBSET Gen]
    /\ saved \in [Peer -> 0..MaxGen] /\ persister \in [Peer -> [0..MaxGen -> SUBSET Call]]
    /\ logs \in [Peer -> [1..MaxIndex -> Cmd \cup {Nil}]]
    /\ err \subseteq Peer \X Gen /\ failed \in BOOLEAN
    /\ delivered \subseteq (1..MaxIndex) \X Cmd
    /\ steps \in 0..MaxSteps

\* What a caller was told has happened is in the Persister the called peer's next
\* instance will be given: a call that returns true was executed by an instance
\* whose writes are not lost, whatever crashed and restarted meanwhile
\* (labrpc.go:264-269).
AckedIsDurable ==
    \A c \in Call : pc[c] \in {"reply", "true"} => c \in persister[req[c].name][saved[req[c].name]]

\* Between two operations of the tester, exactly the ends between two connected
\* servers are enabled, and no end of an older instance is, so that a crashed
\* instance cannot send (config.go:276).
EndsFollowConnected ==
    task.op \notin {"connect", "disconnect", "crash1", "start1"} =>
        \A e \in EndName :
            enabled[e] <=> e[2] = endnames[e[1]] /\ connected[e[1]] /\ connected[e[3]]

\* When two peers, or two instances of a peer, have applied different commands at an
\* index, the applier of one of them has found it and is about to end the program
\* (checkLogs), although every delivery overwrites an entry of the logs.
DisagreementFails ==
    \A p, q \in delivered : p[1] = q[1] /\ p[2] # q[2] => err # {}

\* When one() has returned an index, as many servers as it was asked for have applied
\* its command there, although it looks at their logs one after the other; or else an
\* applier has found an error, and may not have ended the program yet.
OneMeansCommitted ==
    result.index # 0 =>
        err # {} \/ Cardinality({i \in Peer : logs[i][result.index] = result.cmd}) >= result.expected

\* A call returns in the end, unless its handler never returns in a server that stays
\* alive and reachable: if the server is deleted or cut off for good, the call returns
\* although the handler does not (labrpc.go:37).
CallReturns ==
    \A c \in Call :
        pc[c] = "sent" ~> (Returned(c) \/ failed \/ [](handler[c] = "running" /\ ~IsServerDead(c)))

=============================================================================
