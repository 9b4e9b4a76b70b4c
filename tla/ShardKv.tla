------------------------------ MODULE ShardKv ------------------------------
(***************************************************************************)
(* A clerk of the sharded key/value service (shardkv/client.go) with its   *)
(* clerk of the shard controller (shardctrler/client.go), over the network *)
(* of labrpc, while the tester (shardkv/config.go) shuts servers down and  *)
(* starts them again.                                                      *)
(*                                                                         *)
(* The handlers of shardkv/server.go and shardctrler/server.go are empty   *)
(* skeletons.  The clerks are written for any server behind the reply      *)
(* types, so a handler here returns any reply, the empty one of the        *)
(* skeleton included.  A group's server that answers OK to a Put has       *)
(* recorded it in the Persister it was started with, as the comment of     *)
(* ShutdownServer supposes.                                                *)
(***************************************************************************)
EXTENDS LabRpc, Sequences

CONSTANTS
    Gid,         \* groups; 0 is the invalid group
    N, NCtl,     \* servers of a group, and of the controller
    Key,         \* keys: sequences of bytes
    NShards,
    Configs,     \* the configurations the controller hands out
    MaxOps,      \* bound on the operations of the clerk
    MaxGen,      \* bound on the instances of a server
    MaxSteps     \* bound on the operations of the tester

Shard == 0..(NShards - 1)
Gen == 1..MaxGen
GroupServer == Gid \X (1..N)
Controller == {0} \X (1..NCtl)

ASSUME BoundsAssumption == {N, NCtl, NShards, MaxGen} \subseteq Nat \ {0} /\ {MaxOps, MaxSteps} \subseteq Nat
ASSUME GidAssumption == Gid \subseteq Nat \ {0}
ASSUME KeyAssumption == \A k \in Key : k = <<>> \/ (Len(k) > 0 /\ k[1] \in 0..255)
\* A clerk has an end per call: make_end makes one, and the ends to the controllers, which
\* nobody disables, are not told apart from new ones
ASSUME NamesAssumption == EndName = Call /\ ServerName = GroupServer \cup Controller /\ Server = Gen
ASSUME NilAssumption == Nil \notin ServerName \cup Server \cup Call

\* The zero value of shardctrler.Config
NoConfig == [Shards |-> [s \in Shard |-> 0], Groups |-> {}]
ASSUME ConfigsAssumption ==
    NoConfig \in Configs /\ Configs \subseteq [Shards : [Shard -> Gid \cup {0}], Groups : SUBSET Gid]

VARIABLES
    ck,        \* the clerk: where it is, its operation, configuration, position in the lists
    carries,   \* carries[c]: the operation a call carries, 0 for a query
    answer,    \* answer[c]: the reply of its handler
    acked,     \* history: acked[n]: the server that acknowledged the Put n
    gen,       \* gen[s]: number of the last instance of server s
    kvservers, \* kvservers[s]: the instance gg.servers holds, Nil if none
    saved,     \* saved[s]: the instance whose Persister gg.saved holds, 0 for a copy of its own
    persister, \* persister[s][g]: the Puts recorded in the Persister of an instance
    task,      \* the operation of the tester: its server, and the step it has reached
    steps

clerkVars == <<ck, acked>>
replyVars == <<carries, answer>>
cfgVars == <<gen, kvservers, saved, persister, task, steps>>
vars == <<netVars, clerkVars, replyVars, cfgVars>>

NoReply == [Err |-> "", WrongLeader |-> FALSE, Config |-> NoConfig]
Reply == [Err : {"", "OK", "ErrNoKey", "ErrWrongGroup", "ErrWrongLeader"}, WrongLeader : BOOLEAN, Config : Configs]

Idle == [op |-> "idle", server |-> Nil, step |-> 0]

\* The state make_config and makeClient leave
Init ==
    /\ connections = [c \in Call |-> Nil] /\ enabled = [c \in Call |-> FALSE]
    /\ servers = [s \in ServerName |-> 1]
    /\ reliable \in BOOLEAN
    /\ NetworkRuns
    /\ ck = [pc |-> "idle", n |-> 0, op |-> Nil, key |-> Nil, config |-> NoConfig, i |-> 1, call |-> Nil]
    /\ carries = [c \in Call |-> 0] /\ answer = [c \in Call |-> NoReply]
    /\ acked = [n \in 1..MaxOps |-> Nil]
    /\ gen = [s \in GroupServer |-> 1] /\ kvservers = [s \in GroupServer |-> 1]
    /\ saved = [s \in GroupServer |-> 1] /\ persister = [s \in GroupServer |-> [g \in 0..MaxGen |-> {}]]
    /\ task = Idle /\ steps = 0

-----------------------------------------------------------------------------
(* The clerk.                                                              *)

\* key2shard: the first byte of the key modulo the number of shards
Key2Shard(key) == (IF key = <<>> THEN 0 ELSE key[1]) % NShards

\* ck.config.Shards[shard]
GroupOf(k) == k.config.Shards[Key2Shard(k.key)]

\* Get, Put or Append is called
Operation(op, key) ==
    /\ ck.pc = "idle" /\ ck.n < MaxOps
    /\ ck' = [ck EXCEPT !.pc = "group", !.n = @ + 1, !.op = op, !.key = key, !.i = 1]
    /\ UNCHANGED <<netVars, acked, replyVars, cfgVars>>

\* make_end(to), for a call that carries operation n; Call is large enough for the calls
\* whose handlers are still running
Free(c) == pc[c] = "idle" /\ connections[c] = Nil
MakeEnd(to, n, label) ==
    /\ \E c \in Call : Free(c)
    /\ LET c == CHOOSE d \in Call : Free(d) IN
       /\ connections' = [connections EXCEPT ![c] = to]
       /\ enabled' = [enabled EXCEPT ![c] = TRUE]
       /\ carries' = [carries EXCEPT ![c] = n]
       /\ ck' = [ck EXCEPT !.pc = label, !.call = c]
    /\ UNCHANGED <<servers, reliable, done, serving, callVars, acked, answer, cfgVars>>

\* The clerk has the answer.  The call leaves nothing behind but a handler that may still
\* be running in a server that is gone
Forget(c) ==
    /\ connections' = [connections EXCEPT ![c] = Nil] /\ enabled' = [enabled EXCEPT ![c] = FALSE]
    /\ pc' = [pc EXCEPT ![c] = "idle"] /\ req' = [req EXCEPT ![c] = NoReq]
    /\ handler' = [handler EXCEPT ![c] = "none"]
    /\ carries' = [carries EXCEPT ![c] = 0] /\ answer' = [answer EXCEPT ![c] = NoReply]
    /\ UNCHANGED <<servers, reliable, done, serving>>
TakeAnswer ==
    IF handler[ck.call] = "running" THEN UNCHANGED <<netVars, replyVars>> ELSE Forget(ck.call)

\* The next server of the group the configuration names, if it names one
TryServer ==
    /\ ck.pc = "group"
    /\ GroupOf(ck) \in ck.config.Groups /\ ck.i <= N
    /\ MakeEnd(<<GroupOf(ck), ck.i>>, ck.n, "call")

\* No group, or all its servers tried
NoServerLeft ==
    /\ ck.pc = "group"
    /\ GroupOf(ck) \notin ck.config.Groups \/ ck.i > N
    /\ ck' = [ck EXCEPT !.pc = "sleep"]
    /\ UNCHANGED <<netVars, acked, replyVars, cfgVars>>

\* srv.Call
Send ==
    /\ ck.pc \in {"call", "ask"} /\ pc[ck.call] = "idle"
    /\ CallSend(ck.call, ck.call)
    /\ UNCHANGED <<clerkVars, replyVars, cfgVars>>

Ok == Returned(ck.call) /\ pc[ck.call] = "true"
Err == answer[ck.call].Err

Accepted == Ok /\ (Err = "OK" \/ (ck.op = "Get" /\ Err = "ErrNoKey"))

Return ==
    /\ ck.pc = "call" /\ Accepted
    /\ ck' = [ck EXCEPT !.pc = "idle", !.call = Nil]
    /\ acked' = IF ck.op = "Put" THEN [acked EXCEPT ![ck.n] = connections[ck.call]] ELSE acked
    /\ TakeAnswer
    /\ UNCHANGED cfgVars

WrongGroup ==
    /\ ck.pc = "call" /\ Ok /\ Err = "ErrWrongGroup"
    /\ ck' = [ck EXCEPT !.pc = "sleep", !.call = Nil]
    /\ TakeAnswer
    /\ UNCHANGED <<acked, cfgVars>>

\* Fault: the same server is asked again
AskSameServer ==
    /\ ck.pc = "call" /\ Returned(ck.call) /\ ~Accepted /\ ~(Ok /\ Err = "ErrWrongGroup")
    /\ ck' = [ck EXCEPT !.pc = "group", !.call = Nil]
    /\ TakeAnswer
    /\ UNCHANGED <<acked, cfgVars>>

\* Not ok, or ErrWrongLeader
NextServer ==
    /\ ck.pc = "call" /\ Returned(ck.call) /\ ~Accepted /\ ~(Ok /\ Err = "ErrWrongGroup")
    /\ ck' = [ck EXCEPT !.pc = "group", !.i = @ + 1, !.call = Nil]
    /\ TakeAnswer
    /\ UNCHANGED <<acked, cfgVars>>

\* After the sleep, Query(-1)
Query ==
    /\ ck.pc = "sleep"
    /\ ck' = [ck EXCEPT !.pc = "query", !.i = 1]
    /\ UNCHANGED <<netVars, acked, replyVars, cfgVars>>

AskController ==
    /\ ck.pc = "query"
    /\ MakeEnd(<<0, ck.i>>, 0, "ask")

\* Fault: the clerk takes a configuration only when it has none
QueryReturnsOnce ==
    /\ ck.pc = "ask" /\ Ok /\ ~answer[ck.call].WrongLeader
    /\ ck' = [ck EXCEPT !.pc = "group", !.i = 1, !.call = Nil,
                        !.config = IF @ = NoConfig THEN answer[ck.call].Config ELSE @]
    /\ TakeAnswer
    /\ UNCHANGED <<acked, cfgVars>>

\* The configuration; back to the servers
QueryReturns ==
    /\ ck.pc = "ask" /\ Ok /\ ~answer[ck.call].WrongLeader
    /\ ck' = [ck EXCEPT !.pc = "group", !.i = 1, !.call = Nil, !.config = answer[ck.call].Config]
    /\ TakeAnswer
    /\ UNCHANGED <<acked, cfgVars>>

\* Fault: after the last controller comes none
NextControllerPast ==
    /\ ck.pc = "ask" /\ Returned(ck.call) /\ ~(Ok /\ ~answer[ck.call].WrongLeader)
    /\ ck' = [ck EXCEPT !.pc = "query", !.i = @ + 1, !.call = Nil]
    /\ TakeAnswer
    /\ UNCHANGED <<acked, cfgVars>>

\* The next controller, after the last one the first again
NextController ==
    /\ ck.pc = "ask" /\ Returned(ck.call) /\ ~(Ok /\ ~answer[ck.call].WrongLeader)
    /\ ck' = [ck EXCEPT !.pc = "query", !.i = (@ % NCtl) + 1, !.call = Nil]
    /\ TakeAnswer
    /\ UNCHANGED <<acked, cfgVars>>

Clerk ==
    \/ TryServer \/ NoServerLeft \/ Send \/ Return \/ WrongGroup \/ NextServer
    \/ Query \/ AskController \/ QueryReturns \/ NextController

-----------------------------------------------------------------------------
(* The servers, and the steps of the network.                              *)

GroupReply == {[NoReply EXCEPT !.Err = e] : e \in {"", "OK", "ErrNoKey", "ErrWrongGroup", "ErrWrongLeader"}}
\* Query does not look at the configuration of a reply with WrongLeader
ControllerReply == {r \in Reply : r.Err = "" /\ (r.WrongLeader => r.Config = NoConfig)}

\* ShardKV.Get or ShardKV.PutAppend in an instance of a server
HandleGroup(c, reply) ==
    /\ HandlerReturns(c) /\ c = ck.call /\ req[c].name \in GroupServer
    /\ answer' = [answer EXCEPT ![c] = reply]
    /\ persister' = IF reply.Err = "OK"
                    THEN [persister EXCEPT ![req[c].name][req[c].server] = @ \cup {carries[c]}]
                    ELSE persister
    /\ UNCHANGED <<clerkVars, carries, gen, kvservers, saved, task, steps>>

\* ShardCtrler.Query
HandleQuery(c, reply) ==
    /\ HandlerReturns(c) /\ c = ck.call /\ req[c].name \in Controller
    /\ answer' = [answer EXCEPT ![c] = reply]
    /\ UNCHANGED <<clerkVars, carries, cfgVars>>

\* A handler that nobody waits for ends
HandleLate(c, recorded) ==
    /\ handler[c] = "running" /\ Returned(c) /\ c # ck.call
    /\ Forget(c)
    /\ persister' = IF recorded /\ req[c].name \in GroupServer
                    THEN [persister EXCEPT ![req[c].name][req[c].server] = @ \cup {carries[c]}]
                    ELSE persister
    /\ UNCHANGED <<clerkVars, gen, kvservers, saved, task, steps>>

NetworkStep(c) == Carry(c) /\ UNCHANGED <<clerkVars, replyVars, cfgVars>>

-----------------------------------------------------------------------------
(* The tester.                                                             *)

\* Fault: the Persister is copied before the server is deleted
CopyFirst == <<"copy", "delete", "kill">>

\* The order in ShutdownServer
ShutdownSteps == <<"delete", "copy", "kill">>

At(step) == task.op = "shutdown" /\ ShutdownSteps[task.step] = step
Then == task' = IF task.step = 3 THEN Idle ELSE [task EXCEPT !.step = @ + 1]

ShutdownServer(s) ==
    /\ task = Idle /\ steps < MaxSteps
    /\ task' = [op |-> "shutdown", server |-> s, step |-> 1]
    /\ steps' = steps + 1
    /\ UNCHANGED <<netVars, clerkVars, replyVars, gen, kvservers, saved, persister>>

\* cfg.net.DeleteServer; the ends of clerks stay enabled
ShutdownDelete ==
    /\ At("delete")
    /\ DeleteServer(task.server)
    /\ Then
    /\ UNCHANGED <<connections, enabled, reliable, done, serving, callVars, clerkVars, replyVars,
                   gen, kvservers, saved, persister, steps>>

\* gg.saved[i].Copy(); the old instance goes on with the old Persister
ShutdownCopy ==
    LET s == task.server IN
    /\ At("copy")
    /\ persister' = [persister EXCEPT ![s][0] = persister[s][saved[s]]]
    /\ saved' = [saved EXCEPT ![s] = 0]
    /\ Then
    /\ UNCHANGED <<netVars, clerkVars, replyVars, gen, kvservers, steps>>

ShutdownKill ==
    /\ At("kill")
    /\ kvservers' = [kvservers EXCEPT ![task.server] = Nil]
    /\ Then
    /\ UNCHANGED <<netVars, clerkVars, replyVars, gen, saved, persister, steps>>

\* StartServer of a server that was shut down: a copy of the Persister and a new instance
StartServer(s) ==
    /\ task = Idle /\ steps < MaxSteps
    /\ kvservers[s] = Nil /\ gen[s] < MaxGen
    /\ gen' = [gen EXCEPT ![s] = @ + 1]
    /\ persister' = [persister EXCEPT ![s][gen'[s]] = persister[s][saved[s]]]
    /\ saved' = [saved EXCEPT ![s] = gen'[s]]
    /\ kvservers' = [kvservers EXCEPT ![s] = gen'[s]]
    /\ task' = [op |-> "start", server |-> s, step |-> 1]
    /\ steps' = steps + 1
    /\ UNCHANGED <<netVars, clerkVars, replyVars>>

\* It becomes reachable under the server's name
StartAdd ==
    /\ task.op = "start"
    /\ AddServer(task.server, gen[task.server])
    /\ task' = Idle
    /\ UNCHANGED <<connections, enabled, reliable, done, serving, callVars, clerkVars, replyVars,
                   gen, kvservers, saved, persister, steps>>

Tester ==
    \/ \E s \in GroupServer : ShutdownServer(s) \/ StartServer(s)
    \/ ShutdownDelete \/ ShutdownCopy \/ ShutdownKill \/ StartAdd

Handle(c) ==
    \/ \E reply \in GroupReply : HandleGroup(c, reply)
    \/ \E reply \in ControllerReply : HandleQuery(c, reply)
    \/ \E recorded \in BOOLEAN : HandleLate(c, recorded)

Next ==
    \/ \E op \in {"Get", "Put"}, key \in Key : Operation(op, key)
    \/ Clerk \/ Tester
    \/ \E c \in Call : NetworkStep(c) \/ Handle(c)

Spec == Init /\ [][Next]_vars

\* The clerk and the goroutines of the network run, and handlers return (those of the
\* repository do so at once).  Nothing is assumed of what they answer, nor of the tester.
FairSpec ==
    /\ Spec /\ WF_vars(Clerk)
    /\ \A c \in Call : WF_vars(NetworkStep(c)) /\ WF_vars(Handle(c))

-----------------------------------------------------------------------------
(* Properties.                                                             *)

\* Type correctness, with it that the clerk's position stays within its lists of servers.
TypeOK ==
    /\ NetTypeOK
    /\ ck \in [pc : {"idle", "group", "call", "sleep", "query", "ask"}, n : 0..MaxOps,
               op : {"Get", "Put", Nil}, key : Key \cup {Nil}, config : Configs,
               i : 1..(N + NCtl), call : Call \cup {Nil}]
    /\ carries \in [Call -> 0..MaxOps] /\ answer \in [Call -> Reply]
    /\ acked \in [1..MaxOps -> GroupServer \cup {Nil}]
    /\ gen \in [GroupServer -> Gen] /\ kvservers \in [GroupServer -> Gen \cup {Nil}]
    /\ saved \in [GroupServer -> 0..MaxGen]
    /\ persister \in [GroupServer -> [0..MaxGen -> SUBSET (0..MaxOps)]]
    /\ steps \in 0..MaxSteps

\* A Put that has returned is in the Persister the server's next instance is given, also
\* when the server is shut down and started again while the call is under way
\* (config.go:180-184).
AckedIsDurable ==
    \A n \in 1..MaxOps : acked[n] # Nil => n \in persister[acked[n]][saved[acked[n]]]

\* Whatever servers answer, and whichever of them are shut down or replaced, the clerk is
\* never stuck with one of them: it returns or asks the controller again.
KeepsTrying == []<>(ck.pc \in {"idle", "query"})

\* The service has settled for the key of the operation: the network loses nothing, the
\* controllers that answer name group g, controller k does, and in g server l is up and
\* answers OK.  The other servers and controllers may be down, or answer that they do not
\* lead; those of the other groups may answer anything.
Settled(g, l, k) ==
    /\ reliable /\ servers[<<g, l>>] # Nil
    /\ ck.call # Nil /\ Ok =>
         LET from == connections[ck.call]
             config == answer[ck.call].Config
             refused == answer[ck.call].WrongLeader IN
         /\ from = <<g, l>> => Err = "OK"
         /\ from \in {g} \X (1..N) => Err # "ErrWrongGroup"
         /\ from = <<0, k>> => ~refused
         /\ from \in Controller /\ ~refused =>
              g \in config.Groups /\ config.Shards[Key2Shard(ck.key)] = g

\* A clerk with any configuration, out of date or none at all, in the middle of any loop
\* over servers that are gone, finds the one server that serves its key once the service
\* has settled: its operation returns.
ServedOnceSettled ==
    \A g \in Gid, l \in 1..N, k \in 1..NCtl :
        <>[]Settled(g, l, k) => []<>(ck.pc = "idle")

=============================================================================
