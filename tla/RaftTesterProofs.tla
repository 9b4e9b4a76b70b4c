-------------------------- MODULE RaftTesterProofs --------------------------
(***************************************************************************)
(* Proofs about the tester of raft/config.go and the network under it, for *)
(* any number of peers, instances, calls and commands.                     *)
(***************************************************************************)
EXTENDS RaftTester, TLAPS, FiniteSetTheorems

-----------------------------------------------------------------------------
(* Types.                                                                  *)

TaskOp == {"idle", "connect", "disconnect", "crash1", "start1", "one"}
TaskStep == {"none", "incoming", "delete", "copy", "kill", "ends", "make", "add", "try", "count"}
PeerOp == {"connect", "disconnect", "crash1", "start1"}

\* The operation under way; a restart was begun with an instance still to come
TaskOK ==
    /\ task \in [op : TaskOp, i : Peer \cup {Nil}, step : TaskStep]
    /\ task.op \in PeerOp => task.i \in Peer
    /\ task.op = "idle" => task = Idle
    /\ task.op \in {"connect", "disconnect"} => task.step = "incoming"
    /\ task.op = "one" => task.step \in {"try", "count"}
    /\ task.op = "crash1" => task.step \in {"incoming", "delete", "copy", "kill"}
    /\ task.op = "start1" => task.step \in {"incoming", "delete", "copy", "kill", "ends", "make", "add"}
    /\ task.op = "start1" /\ task.step \notin {"make", "add"} => endnames[task.i] < MaxGen

OneType == [cmd : Cmd \cup {Nil}, expected : Nat, index : 0..MaxIndex, next : 0..N,
            count : Nat, seen : Cmd \cup {Nil}]

OneOK ==
    /\ one \in OneType /\ result \in OneType
    /\ task.op = "one" => one.cmd \in Cmd
    /\ task.op = "one" /\ task.step = "count" => one.index # 0
    /\ result.index # 0 => result.cmd \in Cmd

\* What processReq knows when it uses it
CallOK(c) ==
    /\ pc[c] # "idle" => req[c].end \in EndName
    /\ pc[c] = "sent" => connections[req[c].end] \in Peer
    /\ pc[c] \in {"idle", "sent", "request"} => handler[c] = "none"
    /\ pc[c] \in {"replied", "reply", "true"} => handler[c] = "done"
    /\ pc[c] = "request" \/ pc[c] = "waiting" \/ handler[c] # "none"
         => req[c].name \in Peer /\ req[c].server \in Gen

TInv == TypeOK /\ TaskOK /\ OneOK /\ \A c \in Call : CallOK(c)

LEMMA Names ==
    /\ N \in Nat \ {0} /\ MaxIndex \in Nat \ {0} /\ MaxGen \in Nat \ {0} /\ MaxSteps \in Nat \ {0}
    /\ Peer \subseteq Nat /\ Gen \subseteq Nat
    /\ EndName = Peer \X Gen \X Peer /\ ServerName = Peer /\ Server = Gen
    /\ Nil \notin Peer /\ Nil \notin Gen /\ Nil \notin Cmd /\ Nil \notin EndName
<1>1. N \in Nat \ {0} /\ MaxIndex \in Nat \ {0} /\ MaxGen \in Nat \ {0} /\ MaxSteps \in Nat \ {0}
  BY BoundAssumption
<1>2. Peer \subseteq Nat /\ Gen \subseteq Nat
  BY <1>1 DEF Peer, Gen
<1> QED BY <1>1, <1>2, NameAssumption, NilAssumption

\* The parts of an end name
LEMMA EndParts ==
    ASSUME NEW e \in EndName
    PROVE  e[1] \in Peer /\ e[2] \in Gen /\ e[3] \in Peer /\ e = <<e[1], e[2], e[3]>>
BY Names

LEMMA TInit == Init => TInv
<1> SUFFICES ASSUME Init PROVE TInv
  OBVIOUS
<1>1. 1 \in Gen /\ 0 \in 0..MaxGen /\ 1 \in 0..MaxGen
  BY Names DEF Gen
<1>2. NetTypeOK
  <2>1. \A e \in EndName : (IF e[2] = 1 THEN e[3] ELSE Nil) \in ServerName \cup {Nil}
    BY EndParts, Names
  <2>2. connections \in [EndName -> ServerName \cup {Nil}] /\ enabled \in [EndName -> BOOLEAN]
    BY <2>1 DEF Init
  <2>3. servers \in [ServerName -> Server \cup {Nil}]
    BY <1>1, Names DEF Init
  <2>4. req \in [Call -> [end : EndName \cup {Nil}, name : ServerName \cup {Nil},
                         server : Server \cup {Nil}, reliable : BOOLEAN]]
    BY DEF Init, NetworkRuns, NoReq
  <2> QED BY <2>2, <2>3, <2>4 DEF Init, NetworkRuns, NetTypeOK
<1>3. /\ endnames \in [Peer -> Gen] /\ rafts \in [Peer -> Gen \cup {Nil}] /\ started \in [Peer -> SUBSET Gen]
      /\ connected \in [Peer -> BOOLEAN] /\ saved \in [Peer -> 0..MaxGen]
  BY <1>1 DEF Init
<1>4. persister \in [Peer -> [0..MaxGen -> SUBSET Call]]
  <2>1. [g \in 0..MaxGen |-> {}] \in [0..MaxGen -> SUBSET Call]
    OBVIOUS
  <2> QED BY <2>1 DEF Init
<1>5. logs \in [Peer -> [1..MaxIndex -> Cmd \cup {Nil}]]
  BY DEF Init
<1>6. TypeOK
  <2>1. /\ err \subseteq Peer \X Gen /\ failed \in BOOLEAN /\ delivered \subseteq (1..MaxIndex) \X Cmd
        /\ steps \in 0..MaxSteps
    <3>1. err = {} /\ failed = FALSE /\ delivered = {} /\ steps = 0
      BY DEF Init
    <3>2. failed \in BOOLEAN
      BY <3>1, Zenon
    <3>3. steps \in 0..MaxSteps /\ delivered \subseteq (1..MaxIndex) \X Cmd /\ err \subseteq Peer \X Gen
      BY <3>1, Names
    <3> QED BY <3>2, <3>3
  <2> QED BY <1>2, <1>3, <1>4, <1>5, <2>1 DEF TypeOK
<1>7. TaskOK
  BY DEF Init, TaskOK, Idle, TaskOp, TaskStep, PeerOp
<1>8. OneOK
  BY Names DEF Init, OneOK, OneType, NoOne, Idle
<1>9. \A c \in Call : CallOK(c)
  BY DEF Init, NetworkRuns, CallOK
<1> QED BY <1>6, <1>7, <1>8, <1>9 DEF TInv

-----------------------------------------------------------------------------
(* The steps of the tester's operations.                                   *)

LEMMA BeginTask ==
    ASSUME TInv, NEW op, NEW i, NEW step, Begin(op, i, step)
    PROVE  /\ task = Idle /\ task.op = "idle" /\ task.step = "none" /\ ~failed /\ task' = [op |-> op, i |-> i, step |-> step]
           /\ task'.op = op /\ task'.i = i /\ task'.step = step
           /\ steps' \in 0..MaxSteps
<1>1. steps \in 0..MaxSteps /\ MaxSteps \in Nat
  BY Names DEF TInv, TypeOK
<1> QED BY <1>1 DEF Begin, Idle

LEMMA ThenTask ==
    ASSUME TInv, NEW step, Then(step)
    PROVE  /\ task'.op = task.op /\ task'.i = task.i /\ task'.step = step /\ steps' = steps
           /\ step \in TaskStep => task' \in [op : TaskOp, i : Peer \cup {Nil}, step : TaskStep]
BY DEF TInv, TaskOK, Then

LEMMA FinishTask ==
    ASSUME Finish
    PROVE  task' = Idle /\ task'.op = "idle" /\ task'.step = "none" /\ TaskOK' /\ steps' = steps
BY DEF Finish, TaskOK, Idle, TaskOp, TaskStep, PeerOp

LEMMA EnableType ==
    ASSUME TInv, NEW E, NEW yes \in BOOLEAN, Enable(E, yes)
    PROVE  enabled' \in [EndName -> BOOLEAN]
BY DEF TInv, TypeOK, NetTypeOK, Enable

\* A step that leaves the calls alone
LEMMA CallsKept ==
    ASSUME TInv, UNCHANGED callVars,
           \A e \in EndName : connections[e] \in Peer => connections'[e] \in Peer
    PROVE  \A c \in Call : CallOK(c)'
<1> SUFFICES ASSUME NEW c \in Call PROVE CallOK(c)'
  OBVIOUS
<1>1. CallOK(c) /\ pc' = pc /\ req' = req /\ handler' = handler
  BY DEF TInv, callVars
<1> QED BY <1>1 DEF CallOK

LEMMA ConnectTypes ==
    ASSUME TInv, NEW i \in Peer, Connect(i) \/ Disconnect(i, "disconnect") \/ Disconnect(i, "crash1")
             \/ (endnames[i] < MaxGen /\ Disconnect(i, "start1"))
    PROVE  TInv'
<1>1. PICK op \in PeerOp : /\ Begin(op, i, "incoming") /\ (op = "start1" => endnames[i] < MaxGen)
  BY DEF Connect, Disconnect, PeerOp
<1>2. /\ connected' \in [Peer -> BOOLEAN] /\ enabled' \in [EndName -> BOOLEAN]
  BY DEF TInv, TypeOK, NetTypeOK, Connect, Disconnect, Enable
<1>3. UNCHANGED <<connections, servers, reliable, done, serving, callVars, endnames, rafts, started, saved,
                  persister, logs, err, delivered, failed, one, result>>
  BY DEF Connect, Disconnect, logVars, oneVars
<1>4. steps' \in 0..MaxSteps /\ task' = [op |-> op, i |-> i, step |-> "incoming"] /\ task'.op = op /\ task'.i = i
      /\ task'.step = "incoming"
  BY <1>1, BeginTask
<1>5. TypeOK'
  BY <1>2, <1>3, <1>4 DEF TInv, TypeOK, NetTypeOK, callVars
<1>6. TaskOK'
  BY <1>1, <1>3, <1>4 DEF TaskOK, TaskOp, TaskStep, PeerOp
<1>7. OneOK'
  BY <1>1, <1>3, <1>4 DEF TInv, OneOK, PeerOp
<1>8. \A c \in Call : CallOK(c)'
  BY <1>3, CallsKept
<1> QED BY <1>5, <1>6, <1>7, <1>8 DEF TInv

LEMMA IncomingTypes ==
    ASSUME TInv, ConnectIncoming \/ DisconnectIncoming
    PROVE  TInv'
<1>1. UNCHANGED <<connections, servers, reliable, done, serving, callVars, endnames, connected, rafts, started,
                  saved, persister, logs, err, delivered, failed, one, result>>
  BY DEF ConnectIncoming, DisconnectIncoming, cfgVars, logVars, oneVars
<1>2. enabled' \in [EndName -> BOOLEAN]
  BY EnableType DEF ConnectIncoming, DisconnectIncoming
<1>3. Finish \/ (Then("delete") /\ task.op \in {"crash1", "start1"} /\ task.step = "incoming")
  BY DEF ConnectIncoming, DisconnectIncoming, At
<1>4. TaskOK' /\ steps' = steps /\ task'.op # "one"
  <2>1. CASE Finish
    BY <2>1, FinishTask
  <2>2. CASE Then("delete") /\ task.op \in {"crash1", "start1"} /\ task.step = "incoming"
    BY <1>1, <2>2, ThenTask DEF TInv, TaskOK, PeerOp, TaskStep
  <2> QED BY <1>3, <2>1, <2>2
<1>5. TypeOK'
  BY <1>1, <1>2, <1>4 DEF TInv, TypeOK, NetTypeOK, callVars
<1>7. OneOK'
  BY <1>1, <1>4 DEF TInv, OneOK
<1>8. \A c \in Call : CallOK(c)'
  BY <1>1, CallsKept
<1> QED BY <1>4, <1>5, <1>7, <1>8 DEF TInv

LEMMA CrashTypes ==
    ASSUME TInv, CrashDelete \/ CrashCopy \/ CrashKill
    PROVE  TInv'
<1>1. UNCHANGED <<connections, enabled, reliable, done, serving, callVars, endnames, connected, started,
                  logs, err, delivered, failed, one, result>>
  BY DEF CrashDelete, CrashCopy, CrashKill, cfgVars, logVars, oneVars, netVars, adminVars
<1>2. task.op \in {"crash1", "start1"} /\ task.i \in Peer /\ task.step \in {"delete", "copy", "kill"}
  BY DEF TInv, TaskOK, PeerOp, CrashDelete, CrashCopy, CrashKill, At
<1>3. TaskOK' /\ steps' = steps /\ task'.op # "one"
  <2>1. CASE Finish
    BY <2>1, FinishTask
  <2>2. CASE Then("copy") \/ Then("kill")
    BY <1>1, <1>2, <2>2, ThenTask DEF TInv, TaskOK, PeerOp, TaskStep
  <2>3. CASE Then("ends") /\ task.op # "crash1"
    BY <1>1, <1>2, <2>3, ThenTask DEF TInv, TaskOK, PeerOp, TaskStep
  <2> QED BY <2>1, <2>2, <2>3 DEF CrashDelete, CrashCopy, CrashKill
<1>4. /\ servers' \in [ServerName -> Server \cup {Nil}] /\ rafts' \in [Peer -> Gen \cup {Nil}]
      /\ saved' \in [Peer -> 0..MaxGen]
  <2>1. /\ servers \in [ServerName -> Server \cup {Nil}] /\ rafts \in [Peer -> Gen \cup {Nil}]
        /\ saved \in [Peer -> 0..MaxGen] /\ 0 \in 0..MaxGen
    BY Names DEF TInv, TypeOK, NetTypeOK
  <2>2. /\ servers' = servers \/ servers' = [servers EXCEPT ![task.i] = Nil]
        /\ rafts' = rafts \/ rafts' = [rafts EXCEPT ![task.i] = Nil]
        /\ saved' = saved \/ saved' = [saved EXCEPT ![task.i] = 0]
    BY DEF CrashDelete, CrashCopy, CrashKill, DeleteServer, netVars, adminVars, cfgVars
  <2> QED BY <2>1, <2>2
<1>5. persister' \in [Peer -> [0..MaxGen -> SUBSET Call]]
  <2>1. CASE CrashCopy
    <3>0. saved[task.i] \in 0..MaxGen /\ persister[task.i] \in [0..MaxGen -> SUBSET Call]
      BY <1>2 DEF TInv, TypeOK
    <3>1. persister[task.i][saved[task.i]] \in SUBSET Call
      BY <3>0
    <3> QED BY <1>2, <2>1, <3>1 DEF TInv, TypeOK, CrashCopy, Copy
  <2>2. CASE ~CrashCopy
    BY <2>2 DEF TInv, TypeOK, CrashDelete, CrashKill, cfgVars
  <2> QED BY <2>1, <2>2
<1>6. TypeOK'
  BY <1>1, <1>3, <1>4, <1>5 DEF TInv, TypeOK, NetTypeOK, callVars
<1>7. OneOK'
  BY <1>1, <1>3 DEF TInv, OneOK
<1>8. \A c \in Call : CallOK(c)'
  BY <1>1, CallsKept
<1> QED BY <1>3, <1>6, <1>7, <1>8 DEF TInv

LEMMA StartTypes ==
    ASSUME TInv, StartEnds \/ StartMake \/ StartAdd
    PROVE  TInv'
<1>1. UNCHANGED <<reliable, done, serving, callVars, connected, logs, err, delivered, failed, one, result>>
  BY DEF StartEnds, StartMake, StartAdd, cfgVars, logVars, oneVars, netVars, adminVars
<1>2. task.op = "start1" /\ task.i \in Peer /\ task.step \in {"ends", "make", "add"}
  BY DEF TInv, TaskOK, PeerOp, StartEnds, StartMake, StartAdd, At
<1>0. endnames[task.i] \in Gen /\ 0 \in 0..MaxGen
  <2>1. endnames[task.i] \in Gen
    BY <1>2 DEF TInv, TypeOK
  <2> QED BY <2>1, Names
<1>3. TaskOK' /\ steps' = steps /\ task'.op # "one"
  <2>1. CASE Finish
    BY <2>1, FinishTask
  <2>2. CASE Then("make") \/ Then("add")
    BY <1>2, <2>2, ThenTask DEF TInv, TaskOK, PeerOp, TaskStep
  <2> QED BY <2>1, <2>2 DEF StartEnds, StartMake, StartAdd
<1>4. CASE StartEnds
  <2>1. endnames' = [endnames EXCEPT ![task.i] = endnames[task.i] + 1]
    BY <1>4 DEF StartEnds
  <2>2. endnames[task.i] + 1 \in Gen
    BY <1>0, <1>2, <1>4, Names DEF TInv, TaskOK, StartEnds, At, Gen
  <2>3. \A e \in {task.i} \X {endnames[task.i] + 1} \X Peer : e[3] \in Peer
    OBVIOUS
  <2>4. /\ connections' \in [EndName -> ServerName \cup {Nil}] /\ enabled' \in [EndName -> BOOLEAN]
        /\ \A e \in EndName : connections[e] \in Peer => connections'[e] \in Peer
    BY <1>4, <2>3, Names DEF StartEnds, MakeEnds, TInv, TypeOK, NetTypeOK
  <2>5. UNCHANGED <<servers, rafts, started, saved, persister>>
    BY <1>4 DEF StartEnds
  <2>6. endnames' \in [Peer -> Gen]
    BY <2>1, <2>2 DEF TInv, TypeOK
  <2>7. TypeOK'
    BY <1>1, <1>3, <2>4, <2>5, <2>6 DEF TInv, TypeOK, NetTypeOK, callVars
  <2> QED BY <1>1, <1>3, <2>4, <2>7, CallsKept DEF TInv, OneOK
<1>5. CASE StartMake
  <2>1. UNCHANGED <<netVars, endnames>> /\ UNCHANGED <<connections, enabled, servers>>
    BY <1>5 DEF StartMake, netVars, adminVars
  <2>2. persister[task.i][0] \in SUBSET Call /\ endnames[task.i] \in 0..MaxGen
    <3>1. persister[task.i] \in [0..MaxGen -> SUBSET Call]
      BY <1>2 DEF TInv, TypeOK
    <3> QED BY <1>0, <3>1, Names DEF Gen
  <2>3. persister' \in [Peer -> [0..MaxGen -> SUBSET Call]]
    BY <1>5, <1>2, <2>2 DEF TInv, TypeOK, StartMake, Copy
  <2>4. /\ rafts' \in [Peer -> Gen \cup {Nil}] /\ saved' \in [Peer -> 0..MaxGen]
        /\ started' \in [Peer -> SUBSET Gen]
    BY <1>0, <1>2, <1>5, <2>2 DEF TInv, TypeOK, StartMake
  <2>5. TypeOK'
    BY <1>1, <1>3, <2>1, <2>3, <2>4 DEF TInv, TypeOK, NetTypeOK, callVars
  <2> QED BY <1>1, <1>3, <2>1, <2>5, CallsKept DEF TInv, OneOK
<1>6. CASE StartAdd
  <2>1. UNCHANGED <<connections, enabled, cfgVars>> /\ UNCHANGED <<endnames, rafts, started, saved, persister>>
    BY <1>6 DEF StartAdd, cfgVars
  <2>2. servers' \in [ServerName -> Server \cup {Nil}]
    BY <1>0, <1>6, Names DEF TInv, TypeOK, NetTypeOK, StartAdd, AddServer
  <2>3. TypeOK'
    BY <1>1, <1>3, <2>1, <2>2 DEF TInv, TypeOK, NetTypeOK, callVars
  <2> QED BY <1>1, <1>3, <2>1, <2>3, CallsKept DEF TInv, OneOK
<1> QED BY <1>4, <1>5, <1>6

-----------------------------------------------------------------------------
(* The calls.                                                              *)

\* What a call may become in one step of the network: its processReq goes on, its
\* handler is started, or nothing but the place in processReq changes.
LEMMA CarryCases ==
    ASSUME TInv, NEW c \in Call, Carry(c)
    PROVE  /\ UNCHANGED <<adminVars, done, serving>>
           /\ pc' = [pc EXCEPT ![c] = pc'[c]]
           /\ \/ /\ pc[c] = "sent" /\ pc'[c] = "request" /\ handler' = handler
                 /\ enabled[req[c].end] /\ servers[connections[req[c].end]] # Nil
                 /\ req' = [req EXCEPT ![c] = [end |-> req[c].end, name |-> connections[req[c].end],
                                               server |-> servers[connections[req[c].end]], reliable |-> reliable]]
              \/ /\ pc[c] \in {"sent", "request", "waiting", "replied"} /\ pc'[c] = "lost" /\ UNCHANGED <<req, handler>>
              \/ /\ pc[c] = "request" /\ pc'[c] = "waiting" /\ req' = req
                 /\ handler' = [handler EXCEPT ![c] = "running"]
              \/ /\ pc[c] = "waiting" /\ pc'[c] = "replied" /\ handler[c] = "done" /\ UNCHANGED <<req, handler>>
              \/ /\ pc[c] = "replied" /\ pc'[c] = "reply" /\ ~IsServerDead(c) /\ UNCHANGED <<req, handler>>
              \/ /\ pc[c] = "reply" /\ pc'[c] = "true" /\ UNCHANGED <<req, handler>>
              \/ /\ pc[c] = "lost" /\ pc'[c] = "false" /\ UNCHANGED <<req, handler>>
<1>1. pc \in [Call -> {"idle", "sent", "request", "waiting", "replied", "reply", "lost", "true", "false"}]
  BY DEF TInv, TypeOK, NetTypeOK
<1>2. \A label : Goto(c, label) => pc'[c] = label /\ pc' = [pc EXCEPT ![c] = pc'[c]]
  BY <1>1 DEF Goto
<1>3. CASE ReadEndnameInfo(c)
  BY <1>2, <1>3 DEF ReadEndnameInfo
<1>4. CASE DropRequest(c)
  BY <1>2, <1>4 DEF DropRequest
<1>5. CASE Dispatch(c)
  BY <1>2, <1>5 DEF Dispatch
<1>6. CASE ReceiveReply(c)
  BY <1>2, <1>6 DEF ReceiveReply
<1>7. CASE StopWaiting(c)
  BY <1>2, <1>7 DEF StopWaiting
<1>8. CASE CheckReply(c)
  BY <1>2, <1>8 DEF CheckReply
<1>9. CASE CallReturnsTrue(c)
  BY <1>2, <1>9 DEF CallReturnsTrue
<1>10. CASE CallReturnsFalse(c)
  BY <1>2, <1>10 DEF CallReturnsFalse
<1> QED BY <1>3, <1>4, <1>5, <1>6, <1>7, <1>8, <1>9, <1>10 DEF Carry

Pc == {"idle", "sent", "request", "waiting", "replied", "reply", "lost", "true", "false"}
Req == [end : EndName \cup {Nil}, name : Peer \cup {Nil}, server : Gen \cup {Nil}, reliable : BOOLEAN]

LEMMA NetTypes ==
    ASSUME TInv
    PROVE  /\ connections \in [EndName -> Peer \cup {Nil}] /\ enabled \in [EndName -> BOOLEAN]
           /\ servers \in [Peer -> Gen \cup {Nil}] /\ reliable \in BOOLEAN
           /\ pc \in [Call -> Pc] /\ req \in [Call -> Req] /\ handler \in [Call -> {"none", "running", "done"}]
BY Names DEF TInv, TypeOK, NetTypeOK, Pc, Req

\* A step of call c that keeps its own types keeps all.
LEMMA CallTypes ==
    ASSUME TInv, NEW c \in Call,
           UNCHANGED <<adminVars, done, serving, endnames, connected, rafts, started, saved, logs, err, delivered,
                       failed, task, one, result>>,
           steps' \in 0..MaxSteps, persister' \in [Peer -> [0..MaxGen -> SUBSET Call]],
           pc' \in [Call -> Pc], req' \in [Call -> Req], handler' \in [Call -> {"none", "running", "done"}],
           \A d \in Call \ {c} : pc'[d] = pc[d] /\ req'[d] = req[d] /\ handler'[d] = handler[d],
           CallOK(c)'
    PROVE  TInv'
<1>1. UNCHANGED <<connections, enabled, servers, reliable>>
  BY DEF adminVars
<1>2. TypeOK'
  BY <1>1, Names DEF TInv, TypeOK, NetTypeOK, Pc, Req
<1>3. TaskOK' /\ OneOK'
  BY DEF TInv, TaskOK, OneOK
<1>4. \A d \in Call : CallOK(d)'
  <2> SUFFICES ASSUME NEW d \in Call, d # c PROVE CallOK(d)'
    OBVIOUS
  <2> QED BY <1>1 DEF TInv, CallOK
<1> QED BY <1>2, <1>3, <1>4 DEF TInv

LEMMA NetworkTypes ==
    ASSUME TInv, NEW c \in Call, NetworkStep(c)
    PROVE  TInv'
<1>1. /\ Carry(c) /\ UNCHANGED <<endnames, connected, rafts, started, saved, persister, logs, err, delivered, failed,
                                 task, one, result, steps>>
  BY DEF NetworkStep, cfgVars, logVars, oneVars
<1>2. UNCHANGED <<adminVars, done, serving>> /\ pc' = [pc EXCEPT ![c] = pc'[c]]
  BY <1>1, CarryCases
<1>0. CallOK(c)
  BY DEF TInv
<1>t. /\ connections \in [EndName -> Peer \cup {Nil}] /\ servers \in [Peer -> Gen \cup {Nil}]
      /\ pc \in [Call -> Pc] /\ req \in [Call -> Req] /\ handler \in [Call -> {"none", "running", "done"}]
      /\ reliable \in BOOLEAN
  BY NetTypes
<1>3. /\ pc'[c] \in Pc /\ req' \in [Call -> Req] /\ handler' \in [Call -> {"none", "running", "done"}]
      /\ \A d \in Call \ {c} : req'[d] = req[d] /\ handler'[d] = handler[d]
      /\ CallOK(c)'
  <2>0. UNCHANGED <<connections, enabled, servers>>
    BY <1>2 DEF adminVars
  <2>1. CASE /\ pc[c] = "sent" /\ pc'[c] = "request" /\ handler' = handler
             /\ servers[connections[req[c].end]] # Nil
             /\ req' = [req EXCEPT ![c] = [end |-> req[c].end, name |-> connections[req[c].end],
                                           server |-> servers[connections[req[c].end]], reliable |-> reliable]]
    <3>1. req[c].end \in EndName /\ connections[req[c].end] \in Peer /\ servers[connections[req[c].end]] \in Gen
      BY <1>0, <1>t, <2>1 DEF CallOK
    <3>2. req'[c] \in Req /\ req'[c].end = req[c].end /\ req'[c].name \in Peer /\ req'[c].server \in Gen
      BY <1>t, <2>1, <3>1 DEF Req
    <3>3. req' \in [Call -> Req]
      BY <1>t, <2>1, <3>2
    <3>4. \A d \in Call \ {c} : req'[d] = req[d]
      BY <1>t, <2>1
    <3>5. CallOK(c)'
      BY <1>0, <2>0, <2>1, <3>1, <3>2 DEF CallOK
    <3> QED BY <1>t, <2>1, <3>3, <3>4, <3>5 DEF Pc
  <2>2. CASE /\ pc[c] \in {"sent", "request", "waiting", "replied"} /\ pc'[c] = "lost" /\ UNCHANGED <<req, handler>>
    BY <1>0, <1>t, <2>0, <2>2 DEF CallOK, Pc
  <2>3. CASE /\ pc[c] = "request" /\ pc'[c] = "waiting" /\ req' = req
             /\ handler' = [handler EXCEPT ![c] = "running"]
    BY <1>0, <1>t, <2>0, <2>3 DEF CallOK, Pc
  <2>4. CASE /\ pc[c] = "waiting" /\ pc'[c] = "replied" /\ handler[c] = "done" /\ UNCHANGED <<req, handler>>
    BY <1>0, <1>t, <2>0, <2>4 DEF CallOK, Pc
  <2>5. CASE /\ pc[c] = "replied" /\ pc'[c] = "reply" /\ UNCHANGED <<req, handler>>
    BY <1>0, <1>t, <2>0, <2>5 DEF CallOK, Pc
  <2>6. CASE /\ pc[c] = "reply" /\ pc'[c] = "true" /\ UNCHANGED <<req, handler>>
    BY <1>0, <1>t, <2>0, <2>6 DEF CallOK, Pc
  <2>7. CASE /\ pc[c] = "lost" /\ pc'[c] = "false" /\ UNCHANGED <<req, handler>>
    BY <1>0, <1>t, <2>0, <2>7 DEF CallOK, Pc
  <2> QED BY <1>1, CarryCases, <2>1, <2>2, <2>3, <2>4, <2>5, <2>6, <2>7
<1>4. pc' \in [Call -> Pc] /\ \A d \in Call \ {c} : pc'[d] = pc[d]
  BY <1>2, <1>3, <1>t
<1>5. steps' \in 0..MaxSteps /\ persister' \in [Peer -> [0..MaxGen -> SUBSET Call]]
  BY <1>1 DEF TInv, TypeOK
<1> QED BY <1>1, <1>2, <1>3, <1>4, <1>5, CallTypes

LEMMA PeerCallTypes ==
    ASSUME TInv, NEW c \in Call, NEW i \in Peer, NEW g \in Gen, NEW j \in Peer, PeerCall(c, i, g, j)
    PROVE  TInv'
<1> DEFINE e == <<i, g, j>>
<1>1. /\ UNCHANGED <<adminVars, done, serving, handler, endnames, connected, rafts, started, saved, persister,
                     logs, err, delivered, failed, task, one, result>>
      /\ steps < MaxSteps /\ steps' = steps + 1 /\ pc[c] = "idle" /\ connections[e] # Nil
      /\ req' = [req EXCEPT ![c].end = e]
      /\ pc' = [pc EXCEPT ![c] = "sent"] \/ pc' = [pc EXCEPT ![c] = "false"]
  BY DEF PeerCall, CallSend, CallDone, Goto, Event, cfgVars, logVars, oneVars
<1>2. e \in EndName
  BY Names
<1>t. /\ connections \in [EndName -> Peer \cup {Nil}] /\ pc \in [Call -> Pc] /\ req \in [Call -> Req]
      /\ handler \in [Call -> {"none", "running", "done"}]
  BY NetTypes
<1>3. steps' \in 0..MaxSteps /\ persister' \in [Peer -> [0..MaxGen -> SUBSET Call]]
  <2>1. steps \in 0..MaxSteps /\ persister \in [Peer -> [0..MaxGen -> SUBSET Call]]
    BY DEF TInv, TypeOK
  <2> QED BY <1>1, <2>1, Names
<1> HIDE DEF e
<1>4. /\ pc' \in [Call -> Pc] /\ pc'[c] \in {"sent", "false"} /\ \A d \in Call \ {c} : pc'[d] = pc[d]
  BY <1>1, <1>t DEF Pc
<1>5. /\ req' \in [Call -> Req] /\ req'[c].end = e /\ \A d \in Call \ {c} : req'[d] = req[d]
  BY <1>1, <1>2, <1>t DEF Req
<1>6. CallOK(c)'
  <2>1. handler[c] = "none"
    BY <1>1 DEF TInv, CallOK
  <2>2. connections[e] \in Peer /\ connections' = connections
    BY <1>1, <1>2, <1>t DEF adminVars
  <2> QED BY <1>1, <1>2, <1>4, <1>5, <2>1, <2>2 DEF CallOK
<1> QED BY <1>1, <1>3, <1>4, <1>5, <1>6, <1>t, CallTypes

LEMMA PeerHandlesTypes ==
    ASSUME TInv, NEW c \in Call, PeerHandles(c)
    PROVE  TInv'
<1>1. /\ UNCHANGED <<adminVars, done, serving, pc, req, endnames, connected, rafts, started, saved,
                     logs, err, delivered, failed, task, one, result, steps>>
      /\ handler[c] = "running" /\ handler' = [handler EXCEPT ![c] = "done"]
      /\ persister' = [persister EXCEPT ![req[c].name][req[c].server] = @ \cup {c}]
  BY DEF PeerHandles, HandlerReturns, Save, logVars, oneVars
<1>t. /\ pc \in [Call -> Pc] /\ req \in [Call -> Req] /\ handler \in [Call -> {"none", "running", "done"}]
  BY NetTypes
<1>2. CallOK(c) /\ req[c].name \in Peer /\ req[c].server \in Gen
  BY <1>1 DEF TInv, CallOK
<1>3. persister' \in [Peer -> [0..MaxGen -> SUBSET Call]] /\ steps' \in 0..MaxSteps
  <2>1. persister \in [Peer -> [0..MaxGen -> SUBSET Call]] /\ steps \in 0..MaxSteps
    BY DEF TInv, TypeOK
  <2> QED BY <1>1, <2>1
<1>4. CallOK(c)'
  <2>1. connections' = connections
    BY <1>1 DEF adminVars
  <2> QED BY <1>1, <1>2, <1>t, <2>1 DEF CallOK
<1> QED BY <1>1, <1>3, <1>4, <1>t, CallTypes

-----------------------------------------------------------------------------
(* The other steps.                                                        *)

LEMMA NetAdminTypes ==
    ASSUME TInv, NetworkStops \/ CleanupCfg \/ \E unrel \in BOOLEAN : SetUnreliable(unrel)
    PROVE  TInv'
<1>1. UNCHANGED <<connections, enabled, servers, pc, req, handler, endnames, connected, rafts, started, saved,
                  persister, logs, err, delivered, failed, task, one, result>>
  BY DEF NetworkStops, StopServing, CleanupCfg, SetUnreliable, adminVars, callVars, cfgVars, logVars, oneVars
<1>2. reliable' \in BOOLEAN /\ done' \in BOOLEAN /\ serving' \in BOOLEAN
  BY DEF TInv, TypeOK, NetTypeOK, NetworkStops, StopServing, CleanupCfg, Cleanup, SetUnreliable, Reliable, adminVars
<1>3. steps' \in 0..MaxSteps
  <2>1. steps \in 0..MaxSteps
    BY DEF TInv, TypeOK
  <2>2. steps' = steps \/ (steps < MaxSteps /\ steps' = steps + 1)
    BY DEF NetworkStops, CleanupCfg, SetUnreliable
  <2> QED BY <2>1, <2>2, Names
<1>4. TypeOK'
  BY <1>1, <1>2, <1>3 DEF TInv, TypeOK, NetTypeOK
<1>5. TaskOK' /\ OneOK'
  BY <1>1 DEF TInv, TaskOK, OneOK
<1> QED BY <1>1, <1>4, <1>5, CallsKept DEF TInv, callVars

\* The steps that leave the network and the instances alone
LEMMA LogTypes ==
    ASSUME TInv, UNCHANGED <<netVars, cfgVars>>,
           logs' \in [Peer -> [1..MaxIndex -> Cmd \cup {Nil}]], failed' \in BOOLEAN,
           err' \subseteq Peer \X Gen, delivered' \subseteq (1..MaxIndex) \X Cmd, steps' \in 0..MaxSteps, TaskOK', OneOK'
    PROVE  TInv'
<1>1. /\ UNCHANGED <<connections, enabled, servers, reliable, done, serving, pc, req, handler>>
      /\ UNCHANGED <<endnames, connected, rafts, started, saved, persister>>
  BY DEF netVars, adminVars, callVars, cfgVars
<1>2. TypeOK'
  BY <1>1 DEF TInv, TypeOK, NetTypeOK
<1> QED BY <1>1, <1>2, CallsKept DEF TInv, callVars

LEMMA ApplierTypes ==
    ASSUME TInv, NEW i \in Peer, NEW g \in Gen, NEW k \in 1..MaxIndex, NEW v \in Cmd, Applier(i, g, k, v)
    PROVE  TInv'
<1>1. /\ UNCHANGED <<netVars, cfgVars, task, one, result>> /\ steps < MaxSteps /\ steps' = steps + 1
      /\ logs' = [logs EXCEPT ![i][k] = v] /\ delivered' = delivered \cup {<<k, v>>}
      /\ failed' = failed /\ err' \in {err, err \cup {<<i, g>>}}
  BY DEF Applier, Event, oneVars
<1>2. failed' \in BOOLEAN /\ err' \subseteq Peer \X Gen
  BY <1>1 DEF TInv, TypeOK
<1>3. /\ logs \in [Peer -> [1..MaxIndex -> Cmd \cup {Nil}]]
      /\ delivered \subseteq (1..MaxIndex) \X Cmd /\ steps \in 0..MaxSteps
  BY DEF TInv, TypeOK
<1>4. logs' \in [Peer -> [1..MaxIndex -> Cmd \cup {Nil}]]
  BY <1>1, <1>3
<1>5. delivered' \subseteq (1..MaxIndex) \X Cmd
  BY <1>1, <1>3
<1>6. steps' \in 0..MaxSteps
  BY <1>1, <1>3, Names
<1>7. TaskOK' /\ OneOK'
  BY <1>1 DEF TInv, TaskOK, OneOK, cfgVars
<1> QED BY <1>1, <1>2, <1>4, <1>5, <1>6, <1>7, LogTypes

\* What one() does to its variables
LEMMA OneTypes ==
    ASSUME TInv,
           \/ \E cmd \in Cmd, n \in Peer : One(cmd, n + 1)
           \/ \E i \in Peer, k \in 1..MaxIndex : OneStart(i, k)
           \/ OneCount \/ OneReturns \/ OneWaits \/ OneGivesUp \/ OneFails
    PROVE  TInv'
<1>1. UNCHANGED <<netVars, cfgVars, logs, err, delivered>> /\ UNCHANGED endnames
  BY DEF One, OneStart, OneCount, OneReturns, OneWaits, OneGivesUp, OneFails, logVars, cfgVars
<1>2. failed' \in BOOLEAN
  BY DEF TInv, TypeOK, One, OneStart, OneCount, OneReturns, OneWaits, OneGivesUp, OneFails
<1>3. /\ one \in OneType /\ result \in OneType /\ (task.op = "one" => one.cmd \in Cmd)
      /\ (task.op = "one" /\ task.step = "count" => one.index # 0)
      /\ (result.index # 0 => result.cmd \in Cmd)
      /\ logs \in [Peer -> [1..MaxIndex -> Cmd \cup {Nil}]]
      /\ steps \in 0..MaxSteps /\ delivered \subseteq (1..MaxIndex) \X Cmd /\ err \subseteq Peer \X Gen
  BY DEF TInv, OneOK, TypeOK
<1>n. NoOne \in OneType /\ NoOne.index = 0
  BY Names DEF NoOne, OneType
<1>4. ASSUME NEW cmd \in Cmd, NEW n \in Peer, One(cmd, n + 1)
      PROVE  TaskOK' /\ OneOK' /\ steps' \in 0..MaxSteps
  <2>1. /\ task' = [op |-> "one", i |-> Nil, step |-> "try"] /\ steps' \in 0..MaxSteps
        /\ one' = [NoOne EXCEPT !.cmd = cmd, !.expected = n + 1] /\ result' = result
    BY <1>4, BeginTask DEF One
  <2>2. TaskOK'
    BY <2>1 DEF TaskOK, TaskOp, TaskStep, PeerOp
  <2>3. n + 1 \in Nat
    BY Names
  <2>4. one' \in OneType /\ one'.cmd = cmd
    BY <1>n, <2>1, <2>3 DEF OneType, NoOne
  <2> QED BY <1>3, <2>1, <2>2, <2>4 DEF OneOK
<1>5. ASSUME NEW i \in Peer, NEW k \in 1..MaxIndex, OneStart(i, k)
      PROVE  TaskOK' /\ OneOK' /\ steps' \in 0..MaxSteps
  <2>1. /\ task.op = "one" /\ Then("count") /\ result' = result
        /\ one' = [one EXCEPT !.index = k, !.next = 0, !.count = 0, !.seen = Nil]
    BY <1>5 DEF OneStart, At
  <2>2. TaskOK' /\ steps' = steps
    BY <1>1, <2>1, ThenTask DEF TInv, TaskOK, TaskStep, PeerOp
  <2>3. one' \in OneType /\ one'.cmd = one.cmd /\ one'.index = k /\ k # 0
    <3>1. 0 \in 0..N /\ k \in 0..MaxIndex /\ k # 0
      BY Names
    <3> QED BY <1>3, <2>1, <3>1 DEF OneType
  <2> QED BY <1>3, <2>1, <2>2, <2>3 DEF OneOK
<1>6. ASSUME OneCount
      PROVE  TaskOK' /\ OneOK' /\ steps' \in 0..MaxSteps
  <2>1. /\ task.op = "one" /\ task.step = "count" /\ UNCHANGED <<task, result, steps>> /\ one.next < N
        /\ one' = [one EXCEPT !.next = @ + 1,
                     !.count = IF logs[one.next][one.index] = Nil THEN @ ELSE @ + 1,
                     !.seen = IF logs[one.next][one.index] = Nil THEN @ ELSE logs[one.next][one.index]]
    BY <1>6 DEF OneCount, At
  <2>2. one.next \in Peer /\ one.index \in 1..MaxIndex
    BY <1>3, <2>1, Names DEF OneType, Peer
  <2>3. logs[one.next][one.index] \in Cmd \cup {Nil}
    BY <1>3, <2>2
  <2>4. one' \in OneType /\ one'.cmd = one.cmd /\ one'.index = one.index
    <3>0. one.next \in Nat /\ one.count \in Nat /\ N \in Nat
      BY <1>3, Names DEF OneType
    <3>1. one.next + 1 \in 0..N /\ one.count + 1 \in Nat
      BY <2>1, <3>0
    <3> QED BY <1>3, <2>1, <2>3, <3>1 DEF OneType
  <2> QED BY <1>1, <1>3, <2>1, <2>4 DEF TInv, TaskOK, OneOK
<1>7. ASSUME OneReturns
      PROVE  TaskOK' /\ OneOK' /\ steps' \in 0..MaxSteps
  <2>1. task.op = "one" /\ result' = one /\ one' = NoOne /\ Finish
    BY <1>7 DEF OneReturns, At
  <2>2. TaskOK' /\ steps' = steps /\ task'.op = "idle"
    BY <2>1, FinishTask
  <2> QED BY <1>3, <1>n, <2>1, <2>2 DEF OneOK
<1>8. ASSUME OneWaits
      PROVE  TaskOK' /\ OneOK' /\ steps' \in 0..MaxSteps
  <2>1. /\ UNCHANGED <<task, result, steps>>
        /\ one' = [one EXCEPT !.next = 0, !.count = 0, !.seen = Nil]
    BY <1>8 DEF OneWaits
  <2>2. one' \in OneType /\ one'.cmd = one.cmd /\ one'.index = one.index
    <3>1. 0 \in 0..N
      BY Names
    <3> QED BY <1>3, <2>1, <3>1 DEF OneType
  <2> QED BY <1>1, <1>3, <2>1, <2>2 DEF TInv, TaskOK, OneOK
<1>9. ASSUME OneGivesUp \/ OneFails
      PROVE  TaskOK' /\ OneOK' /\ steps' \in 0..MaxSteps
  <2>1. /\ UNCHANGED <<one, result>> /\ task.op = "one"
        /\ Then("try") \/ UNCHANGED <<task, steps>>
    BY <1>9 DEF OneGivesUp, OneFails, At, oneVars
  <2>2. CASE Then("try")
    <3>1. TaskOK' /\ steps' = steps /\ task'.step = "try" /\ task'.op = "one"
      BY <1>1, <2>1, <2>2, ThenTask DEF TInv, TaskOK, TaskStep, PeerOp
    <3> QED BY <1>3, <2>1, <3>1 DEF OneOK
  <2>3. CASE UNCHANGED <<task, steps>>
    BY <1>1, <1>3, <2>1, <2>3 DEF TInv, TaskOK, OneOK
  <2> QED BY <2>1, <2>2, <2>3
<1>10. TaskOK' /\ OneOK' /\ steps' \in 0..MaxSteps
  BY <1>4, <1>5, <1>6, <1>7, <1>8, <1>9
<1> QED BY <1>1, <1>2, <1>3, <1>10, LogTypes

LEMMA ErrorTypes ==
    ASSUME TInv, ApplyError
    PROVE  TInv'
<1>1. UNCHANGED <<netVars, cfgVars, logs, err, delivered, task, one, result, steps>> /\ failed' = TRUE
  BY DEF ApplyError, logVars, oneVars
<1>2. failed' \in BOOLEAN
  BY <1>1, Zenon
<1>3. /\ logs' \in [Peer -> [1..MaxIndex -> Cmd \cup {Nil}]] /\ err' \subseteq Peer \X Gen
      /\ delivered' \subseteq (1..MaxIndex) \X Cmd /\ steps' \in 0..MaxSteps
  BY <1>1 DEF TInv, TypeOK
<1>4. TaskOK' /\ OneOK'
  BY <1>1 DEF TInv, TaskOK, OneOK, cfgVars
<1> QED BY <1>1, <1>2, <1>3, <1>4, LogTypes

LEMMA TNext == TInv /\ [Next]_vars => TInv'
<1> SUFFICES ASSUME TInv, [Next]_vars PROVE TInv'
  OBVIOUS
<1>1. CASE TesterNext
  BY <1>1, ConnectTypes, IncomingTypes, CrashTypes, StartTypes, NetAdminTypes, OneTypes DEF TesterNext
<1>2. CASE PeerNext
  BY <1>2, PeerCallTypes, PeerHandlesTypes, NetworkTypes, NetAdminTypes, ApplierTypes, ErrorTypes DEF PeerNext
<1>3. CASE UNCHANGED vars
  <2>1. UNCHANGED <<netVars, cfgVars, logs, err, delivered, failed, task, one, result, steps>>
    BY <1>3 DEF vars, logVars, oneVars
  <2>2. /\ logs' \in [Peer -> [1..MaxIndex -> Cmd \cup {Nil}]] /\ failed' \in BOOLEAN
        /\ err' \subseteq Peer \X Gen /\ delivered' \subseteq (1..MaxIndex) \X Cmd /\ steps' \in 0..MaxSteps
    BY <2>1 DEF TInv, TypeOK
  <2>3. TaskOK' /\ OneOK'
    BY <2>1 DEF TInv, TaskOK, OneOK, cfgVars
  <2> QED BY <2>1, <2>2, <2>3, LogTypes
<1> QED BY <1>1, <1>2, <1>3 DEF Next

LEMMA TInvariant == Spec => []TInv
BY TInit, TNext, PTL DEF Spec

\* Type correctness of the network, the tester and its instances.  The clock and the
\* random choices of the tester play no part: any order of its operations is covered.
THEOREM RtTypeCorrect == Spec => []TypeOK
<1>1. TInv => TypeOK
  BY DEF TInv
<1> QED BY <1>1, TInvariant, PTL

-----------------------------------------------------------------------------
(* Durability.  The argument of config.go: the server is deleted from the  *)
(* network before its Persister is copied, so that a call the old instance *)
(* executes after the copy is not answered.                                *)

InCrash(after) == task.op \in {"crash1", "start1"} /\ task.step \in after

\* The instance the network knows is the one whose Persister will be copied
ServerIsSaved ==
    \A i \in Peer : servers[i] # Nil => servers[i] = saved[i] /\ servers[i] \in started[i]

RestartSteps ==
    /\ \A i \in Peer : \A g \in started[i] : g <= endnames[i]
    /\ InCrash({"copy", "kill", "ends", "make", "add"}) => servers[task.i] = Nil
    /\ InCrash({"kill", "ends", "make"}) => saved[task.i] = 0
    /\ InCrash({"make"}) => endnames[task.i] \notin started[task.i]
    /\ InCrash({"add"}) => saved[task.i] = endnames[task.i] /\ endnames[task.i] \in started[task.i]

\* A handler runs in an instance that was started, and has recorded its call when it is done
Recorded(c) ==
    /\ pc[c] = "request" \/ handler[c] # "none" => req[c].server \in started[req[c].name]
    /\ handler[c] = "done" => c \in persister[req[c].name][req[c].server]

SInv == ServerIsSaved /\ RestartSteps /\ (\A c \in Call : Recorded(c)) /\ AckedIsDurable

LEMMA SInit == Init => SInv
<1> SUFFICES ASSUME Init PROVE SInv
  OBVIOUS
<1>1. task.op = "idle" /\ \A c \in Call : pc[c] = "idle" /\ handler[c] = "none"
  BY DEF Init, Idle, NetworkRuns
<1>2. \A i \in Peer : servers[i] = 1 /\ saved[i] = 1 /\ started[i] = {1} /\ endnames[i] = 1
  BY DEF Init
<1>3. ServerIsSaved
  BY <1>2 DEF ServerIsSaved
<1>4. RestartSteps
  BY <1>1, <1>2 DEF RestartSteps, InCrash
<1> QED BY <1>1, <1>3, <1>4 DEF SInv, Recorded, AckedIsDurable

\* The types the steps below need
LEMMA CfgTypes ==
    ASSUME TInv
    PROVE  /\ servers \in [Peer -> Gen \cup {Nil}] /\ saved \in [Peer -> 0..MaxGen]
           /\ started \in [Peer -> SUBSET Gen] /\ endnames \in [Peer -> Gen]
           /\ persister \in [Peer -> [0..MaxGen -> SUBSET Call]]
           /\ pc \in [Call -> Pc] /\ req \in [Call -> Req] /\ handler \in [Call -> {"none", "running", "done"}]
           /\ \A c \in Call : CallOK(c)
           /\ InCrash({"incoming", "delete", "copy", "kill", "ends", "make", "add"}) => task.i \in Peer
           /\ 0 \in 0..MaxGen /\ Gen \subseteq 0..MaxGen
<1>1. 0 \in 0..MaxGen /\ Gen \subseteq 0..MaxGen
  BY Names DEF Gen
<1>2. InCrash({"incoming", "delete", "copy", "kill", "ends", "make", "add"}) => task.i \in Peer
  BY DEF TInv, TaskOK, InCrash, PeerOp
<1> QED BY <1>1, <1>2, NetTypes DEF TInv, TypeOK

\* A step that only begins or ends an operation of the tester
LEMMA SKept ==
    ASSUME TInv, SInv, UNCHANGED <<servers, saved, started, endnames, persister, pc, req, handler>>,
           task' = task \/ task'.op \notin {"crash1", "start1"} \/ task'.step \in {"incoming", "delete"}
    PROVE  SInv'
<1>0. ServerIsSaved /\ RestartSteps /\ (\A c \in Call : Recorded(c)) /\ AckedIsDurable
  BY DEF SInv
<1>1. ServerIsSaved'
  BY <1>0 DEF ServerIsSaved
<1>2. RestartSteps'
  <2>1. CASE task' = task
    BY <1>0, <2>1 DEF RestartSteps, InCrash
  <2>2. CASE task'.op \notin {"crash1", "start1"} \/ task'.step \in {"incoming", "delete"}
    BY <1>0, <2>2 DEF RestartSteps, InCrash
  <2> QED BY <2>1, <2>2
<1>3. (\A c \in Call : Recorded(c))' /\ AckedIsDurable'
  BY <1>0 DEF Recorded, AckedIsDurable
<1> QED BY <1>1, <1>2, <1>3 DEF SInv

LEMMA SDelete ==
    ASSUME TInv, SInv, CrashDelete
    PROVE  SInv'
<1>0. ServerIsSaved /\ RestartSteps /\ (\A c \in Call : Recorded(c)) /\ AckedIsDurable
  BY DEF SInv
<1>1. /\ servers' = [servers EXCEPT ![task.i] = Nil] /\ Then("copy")
      /\ UNCHANGED <<saved, started, endnames, persister, pc, req, handler>>
      /\ InCrash({"delete"})
  BY DEF CrashDelete, DeleteServer, callVars, cfgVars, At, InCrash
<1>2. task'.step = "copy" /\ task'.i = task.i /\ task.i \in Peer /\ servers \in [Peer -> Gen \cup {Nil}]
  BY <1>1, ThenTask, CfgTypes DEF InCrash
<1>3. \A i \in Peer : servers'[i] = IF i = task.i THEN Nil ELSE servers[i]
  BY <1>1, <1>2
<1>4. ServerIsSaved'
  BY <1>0, <1>1, <1>3 DEF ServerIsSaved
<1>5. RestartSteps'
  BY <1>0, <1>1, <1>2, <1>3 DEF RestartSteps, InCrash
<1>6. (\A c \in Call : Recorded(c))' /\ AckedIsDurable'
  BY <1>0, <1>1 DEF Recorded, AckedIsDurable
<1> QED BY <1>4, <1>5, <1>6 DEF SInv

\* A Persister other than those of started instances is given the content of the one that
\* was saved, and becomes the saved one: nothing recorded is lost.
LEMMA CopyKeeps ==
    ASSUME TInv, SInv, NEW i \in Peer, NEW to \in 0..MaxGen, to \notin started[i],
           Copy(i, saved[i], to), saved' = [saved EXCEPT ![i] = to],
           UNCHANGED <<pc, req, handler>>, \A j \in Peer : started[j] \subseteq started'[j]
    PROVE  (\A c \in Call : Recorded(c))' /\ AckedIsDurable'
<1>0. (\A c \in Call : Recorded(c)) /\ AckedIsDurable
  BY DEF SInv
<1>t. /\ saved \in [Peer -> 0..MaxGen] /\ persister \in [Peer -> [0..MaxGen -> SUBSET Call]]
      /\ \A c \in Call : CallOK(c) /\ Gen \subseteq 0..MaxGen
  BY CfgTypes
<1>1. /\ \A j \in Peer, g \in 0..MaxGen :
           persister'[j][g] = IF j = i /\ g = to THEN persister[i][saved[i]] ELSE persister[j][g]
      /\ \A j \in Peer : saved'[j] = IF j = i THEN to ELSE saved[j]
      /\ \A j \in Peer : saved[j] \in 0..MaxGen
  BY <1>t DEF Copy
<1>2. \A j \in Peer : persister'[j][saved'[j]] = persister[j][saved[j]]
  BY <1>1
<1>3. \A c \in Call : Recorded(c)'
  <2> TAKE c \in Call
  <2>1. pc[c] = "request" \/ handler[c] # "none" =>
          /\ req[c].name \in Peer /\ req[c].server \in Gen /\ req[c].server \in started[req[c].name]
    BY <1>0, <1>t DEF Recorded, CallOK
  <2>2. handler[c] = "done" => ~(req[c].name = i /\ req[c].server = to) /\ req[c].server \in 0..MaxGen
    BY <1>t, <2>1
  <2> QED BY <1>0, <1>1, <2>1, <2>2 DEF Recorded
<1>4. AckedIsDurable'
  <2> SUFFICES ASSUME NEW c \in Call, pc[c] \in {"reply", "true"}
               PROVE  c \in persister'[req[c].name][saved'[req[c].name]]
    BY DEF AckedIsDurable
  <2>1. req[c].name \in Peer
    BY <1>t DEF CallOK
  <2> QED BY <1>0, <1>2, <2>1 DEF AckedIsDurable
<1> QED BY <1>3, <1>4

LEMMA SCopy ==
    ASSUME TInv, SInv, CrashCopy
    PROVE  SInv'
<1>0. ServerIsSaved /\ RestartSteps /\ (\A c \in Call : Recorded(c)) /\ AckedIsDurable
  BY DEF SInv
<1>1. /\ Copy(task.i, saved[task.i], 0) /\ saved' = [saved EXCEPT ![task.i] = 0] /\ Then("kill")
      /\ UNCHANGED <<servers, started, endnames, pc, req, handler>>
      /\ InCrash({"copy"})
  BY DEF CrashCopy, netVars, adminVars, callVars, cfgVars, At, InCrash
<1>2. /\ task'.step = "kill" /\ task'.i = task.i /\ task.i \in Peer /\ saved \in [Peer -> 0..MaxGen]
      /\ started \in [Peer -> SUBSET Gen] /\ 0 \in 0..MaxGen
  BY <1>1, ThenTask, CfgTypes DEF InCrash
<1>3. \A i \in Peer : saved'[i] = IF i = task.i THEN 0 ELSE saved[i]
  BY <1>1, <1>2
<1>4. ServerIsSaved'
  BY <1>0, <1>1, <1>3 DEF ServerIsSaved, RestartSteps, InCrash
<1>5. RestartSteps'
  BY <1>0, <1>1, <1>2, <1>3 DEF RestartSteps, InCrash
<1>6. 0 \notin started[task.i]
  BY <1>2 DEF Gen
<1>7. (\A c \in Call : Recorded(c))' /\ AckedIsDurable'
  BY <1>1, <1>2, <1>6, CopyKeeps
<1> QED BY <1>4, <1>5, <1>7 DEF SInv

LEMMA SKill ==
    ASSUME TInv, SInv, CrashKill
    PROVE  SInv'
<1>1. UNCHANGED <<servers, saved, started, endnames, persister, pc, req, handler>> /\ InCrash({"kill"})
  BY DEF CrashKill, netVars, adminVars, callVars, At, InCrash
<1>2. CASE Finish
  BY <1>1, <1>2, FinishTask, SKept
<1>3. CASE Then("ends")
  <2>1. task'.step = "ends" /\ task'.i = task.i
    BY <1>3, ThenTask
  <2>2. RestartSteps'
    BY <1>1, <2>1 DEF SInv, RestartSteps, InCrash
  <2>3. ServerIsSaved' /\ (\A c \in Call : Recorded(c))' /\ AckedIsDurable'
    BY <1>1 DEF SInv, ServerIsSaved, Recorded, AckedIsDurable
  <2> QED BY <2>2, <2>3 DEF SInv
<1> QED BY <1>2, <1>3 DEF CrashKill

LEMMA SEnds ==
    ASSUME TInv, SInv, StartEnds
    PROVE  SInv'
<1>0. ServerIsSaved /\ RestartSteps /\ (\A c \in Call : Recorded(c)) /\ AckedIsDurable
  BY DEF SInv
<1>1. /\ UNCHANGED <<servers, saved, started, persister, pc, req, handler>> /\ InCrash({"ends"})
      /\ endnames' = [endnames EXCEPT ![task.i] = endnames[task.i] + 1] /\ Then("make")
  BY DEF StartEnds, callVars, At, InCrash
<1>2. task'.step = "make" /\ task'.i = task.i /\ task.i \in Peer /\ endnames \in [Peer -> Gen]
      /\ started \in [Peer -> SUBSET Gen] /\ Gen \subseteq Nat
  BY <1>1, ThenTask, CfgTypes, Names DEF InCrash
<1>3. \A i \in Peer : endnames'[i] = IF i = task.i THEN endnames[i] + 1 ELSE endnames[i]
  BY <1>1, <1>2
<1>4. \A i \in Peer : \A g \in started[i] : g \in Nat /\ endnames[i] \in Nat /\ g <= endnames[i]
  BY <1>0, <1>2 DEF RestartSteps
<1>5. \A i \in Peer : \A g \in started[i] : g <= endnames'[i]
  BY <1>3, <1>4
<1>6. endnames'[task.i] \notin started[task.i]
  <2>1. endnames[task.i] \in Nat /\ endnames'[task.i] = endnames[task.i] + 1
    BY <1>2, <1>3
  <2>2. \A g \in started[task.i] : g \in Nat /\ g <= endnames[task.i]
    BY <1>2, <1>4
  <2> QED BY <2>1, <2>2
<1>7. RestartSteps'
  BY <1>0, <1>1, <1>2, <1>5, <1>6 DEF RestartSteps, InCrash
<1>8. ServerIsSaved' /\ (\A c \in Call : Recorded(c))' /\ AckedIsDurable'
  BY <1>0, <1>1 DEF ServerIsSaved, Recorded, AckedIsDurable
<1> QED BY <1>7, <1>8 DEF SInv

LEMMA SMake ==
    ASSUME TInv, SInv, StartMake
    PROVE  SInv'
<1>0. ServerIsSaved /\ RestartSteps /\ (\A c \in Call : Recorded(c)) /\ AckedIsDurable
  BY DEF SInv
<1> DEFINE i == task.i
           g == endnames[task.i]
<1>1. /\ Copy(i, 0, g) /\ saved' = [saved EXCEPT ![i] = g] /\ Then("add")
      /\ started' = [started EXCEPT ![i] = @ \cup {g}]
      /\ UNCHANGED <<servers, endnames, pc, req, handler>>
      /\ InCrash({"make"})
  BY DEF StartMake, netVars, adminVars, callVars, cfgVars, At, InCrash
<1>2. /\ task'.step = "add" /\ task'.i = i /\ i \in Peer /\ saved \in [Peer -> 0..MaxGen]
      /\ started \in [Peer -> SUBSET Gen] /\ endnames \in [Peer -> Gen] /\ Gen \subseteq 0..MaxGen /\ Gen \subseteq Nat
  BY <1>1, ThenTask, CfgTypes, Names DEF InCrash
<1>3. /\ \A j \in Peer : saved'[j] = IF j = i THEN g ELSE saved[j]
      /\ \A j \in Peer : started'[j] = IF j = i THEN started[i] \cup {g} ELSE started[j]
  BY <1>1, <1>2
<1>4. g \in 0..MaxGen /\ g \notin started[i] /\ saved[i] = 0 /\ servers[i] = Nil /\ g \in Nat
  BY <1>0, <1>1, <1>2 DEF RestartSteps, InCrash
<1>5. ServerIsSaved'
  BY <1>0, <1>1, <1>3, <1>4 DEF ServerIsSaved
<1>6. RestartSteps'
  <2>1. \A j \in Peer : \A h \in started'[j] : h <= endnames'[j]
    BY <1>0, <1>1, <1>3, <1>4 DEF RestartSteps
  <2> QED BY <1>1, <1>2, <1>3, <1>4, <2>1 DEF RestartSteps, InCrash
<1>7. (\A c \in Call : Recorded(c))' /\ AckedIsDurable'
  <2>1. \A j \in Peer : started[j] \subseteq started'[j]
    BY <1>3
  <2> HIDE DEF i, g
  <2> QED BY <1>1, <1>2, <1>4, <2>1, CopyKeeps
<1> QED BY <1>5, <1>6, <1>7 DEF SInv

LEMMA SAdd ==
    ASSUME TInv, SInv, StartAdd
    PROVE  SInv'
<1>0. ServerIsSaved /\ RestartSteps /\ (\A c \in Call : Recorded(c)) /\ AckedIsDurable
  BY DEF SInv
<1>1. /\ servers' = [servers EXCEPT ![task.i] = endnames[task.i]] /\ Finish
      /\ UNCHANGED <<saved, started, endnames, persister, pc, req, handler>> /\ InCrash({"add"})
  BY DEF StartAdd, AddServer, callVars, cfgVars, At, InCrash
<1>2. task'.op = "idle" /\ task.i \in Peer /\ servers \in [Peer -> Gen \cup {Nil}]
  BY <1>1, FinishTask, CfgTypes DEF InCrash
<1>3. ServerIsSaved'
  BY <1>0, <1>1, <1>2 DEF ServerIsSaved, RestartSteps, InCrash
<1>4. RestartSteps'
  BY <1>0, <1>1, <1>2 DEF RestartSteps, InCrash
<1>5. (\A c \in Call : Recorded(c))' /\ AckedIsDurable'
  BY <1>0, <1>1 DEF Recorded, AckedIsDurable
<1> QED BY <1>3, <1>4, <1>5 DEF SInv

\* A call goes on: the Persisters only grow
LEMMA SCallStep ==
    ASSUME TInv, SInv, NEW c \in Call,
           UNCHANGED <<servers, saved, started, endnames, task>>,
           \A i \in Peer, g \in 0..MaxGen : persister[i][g] \subseteq persister'[i][g],
           \A d \in Call \ {c} : pc'[d] = pc[d] /\ req'[d] = req[d] /\ handler'[d] = handler[d],
           Recorded(c)', pc'[c] \in {"reply", "true"} => c \in persister'[req'[c].name][saved[req'[c].name]]
    PROVE  SInv'
<1>0. ServerIsSaved /\ RestartSteps /\ (\A d \in Call : Recorded(d)) /\ AckedIsDurable
  BY DEF SInv
<1>t. /\ saved \in [Peer -> 0..MaxGen] /\ (\A d \in Call : CallOK(d)) /\ Gen \subseteq 0..MaxGen
  BY CfgTypes
<1>1. ServerIsSaved' /\ RestartSteps'
  BY <1>0 DEF ServerIsSaved, RestartSteps, InCrash
<1>2. ASSUME NEW d \in Call, d # c
      PROVE  /\ Recorded(d)'
             /\ pc'[d] \in {"reply", "true"} => d \in persister'[req'[d].name][saved'[req'[d].name]]
  <2>1. pc[d] = "request" \/ handler[d] # "none" => req[d].name \in Peer /\ req[d].server \in 0..MaxGen
    BY <1>t DEF CallOK
  <2>2. pc[d] \in {"reply", "true"} => req[d].name \in Peer /\ saved[req[d].name] \in 0..MaxGen
    BY <1>t DEF CallOK
  <2> QED BY <1>0, <1>2, <2>1, <2>2 DEF Recorded, AckedIsDurable
<1>3. (\A d \in Call : Recorded(d))' /\ AckedIsDurable'
  BY <1>2 DEF AckedIsDurable
<1> QED BY <1>1, <1>3 DEF SInv

LEMMA SHandles ==
    ASSUME TInv, SInv, NEW c \in Call, PeerHandles(c)
    PROVE  SInv'
<1>1. /\ UNCHANGED <<servers, pc, req, endnames, started, saved, task>>
      /\ handler[c] = "running" /\ handler' = [handler EXCEPT ![c] = "done"]
      /\ persister' = [persister EXCEPT ![req[c].name][req[c].server] = @ \cup {c}]
  BY DEF PeerHandles, HandlerReturns, Save, adminVars
<1>t. /\ persister \in [Peer -> [0..MaxGen -> SUBSET Call]] /\ handler \in [Call -> {"none", "running", "done"}]
      /\ CallOK(c) /\ Gen \subseteq 0..MaxGen
  BY CfgTypes
<1>2. /\ req[c].name \in Peer /\ req[c].server \in 0..MaxGen /\ req[c].server \in started[req[c].name]
      /\ pc[c] \notin {"reply", "true"}
  BY <1>1, <1>t DEF CallOK, SInv, Recorded
<1>3. /\ \A i \in Peer, g \in 0..MaxGen : persister[i][g] \subseteq persister'[i][g]
      /\ c \in persister'[req[c].name][req[c].server]
  BY <1>1, <1>2, <1>t
<1>4. handler'[c] = "done" /\ \A d \in Call \ {c} : handler'[d] = handler[d]
  BY <1>1, <1>t
<1>5. Recorded(c)'
  BY <1>1, <1>2, <1>3, <1>4 DEF Recorded
<1> QED BY <1>1, <1>2, <1>3, <1>4, <1>5, SCallStep

LEMMA SPeerCall ==
    ASSUME TInv, SInv, NEW c \in Call, NEW i \in Peer, NEW g \in Gen, NEW j \in Peer, PeerCall(c, i, g, j)
    PROVE  SInv'
<1>1. /\ UNCHANGED <<servers, handler, endnames, started, saved, persister, task>> /\ pc[c] = "idle"
      /\ req' = [req EXCEPT ![c].end = <<i, g, j>>]
      /\ pc' = [pc EXCEPT ![c] = "sent"] \/ pc' = [pc EXCEPT ![c] = "false"]
  BY DEF PeerCall, CallSend, CallDone, Goto, adminVars, cfgVars
<1>t. /\ pc \in [Call -> Pc] /\ req \in [Call -> Req] /\ CallOK(c)
  BY CfgTypes
<1>2. /\ pc'[c] \in {"sent", "false"} /\ handler'[c] = "none"
      /\ \A d \in Call \ {c} : pc'[d] = pc[d] /\ req'[d] = req[d]
  BY <1>1, <1>t DEF CallOK
<1>3. Recorded(c)'
  BY <1>2 DEF Recorded
<1> QED BY <1>1, <1>2, <1>3, SCallStep

\* A reply is passed on only while the server that was asked is the one the network
\* knows, and that one's Persister is the saved one.
LEMMA SNetwork ==
    ASSUME TInv, SInv, NEW c \in Call, NetworkStep(c)
    PROVE  SInv'
<1>0. ServerIsSaved /\ Recorded(c) /\ AckedIsDurable
  BY DEF SInv
<1>1. /\ Carry(c) /\ UNCHANGED <<servers, connections, endnames, started, saved, persister, task>>
  BY CarryCases DEF NetworkStep, cfgVars, adminVars
<1>t. /\ pc \in [Call -> Pc] /\ req \in [Call -> Req] /\ handler \in [Call -> {"none", "running", "done"}]
      /\ CallOK(c) /\ connections \in [EndName -> Peer \cup {Nil}]
  BY CfgTypes, NetTypes
<1>2. \A d \in Call \ {c} : pc'[d] = pc[d]
  BY <1>1, <1>t, CarryCases
<1>3. /\ \A d \in Call \ {c} : req'[d] = req[d] /\ handler'[d] = handler[d]
      /\ Recorded(c)' /\ (pc'[c] \in {"reply", "true"} => c \in persister'[req'[c].name][saved[req'[c].name]])
  <2>1. CASE /\ pc[c] = "sent" /\ pc'[c] = "request" /\ handler' = handler
             /\ servers[connections[req[c].end]] # Nil
             /\ req' = [req EXCEPT ![c] = [end |-> req[c].end, name |-> connections[req[c].end],
                                           server |-> servers[connections[req[c].end]], reliable |-> reliable]]
    <3>1. connections[req[c].end] \in Peer /\ handler[c] = "none"
      BY <1>t, <2>1 DEF CallOK
    <3>2. /\ req'[c].name = connections[req[c].end] /\ req'[c].server = servers[connections[req[c].end]]
          /\ \A d \in Call \ {c} : req'[d] = req[d]
      BY <1>t, <2>1
    <3>3. req'[c].server \in started[req'[c].name]
      BY <1>0, <2>1, <3>1, <3>2 DEF ServerIsSaved
    <3> QED BY <1>1, <2>1, <3>1, <3>2, <3>3 DEF Recorded
  <2>2. CASE /\ pc[c] \in {"sent", "request", "waiting", "replied"} /\ pc'[c] = "lost" /\ UNCHANGED <<req, handler>>
    BY <1>0, <1>1, <2>2 DEF Recorded
  <2>3. CASE /\ pc[c] = "request" /\ pc'[c] = "waiting" /\ req' = req
             /\ handler' = [handler EXCEPT ![c] = "running"]
    BY <1>0, <1>1, <1>t, <2>3 DEF Recorded
  <2>4. CASE /\ pc[c] = "waiting" /\ pc'[c] = "replied" /\ handler[c] = "done" /\ UNCHANGED <<req, handler>>
    BY <1>0, <1>1, <2>4 DEF Recorded
  <2>5. CASE /\ pc[c] = "replied" /\ pc'[c] = "reply" /\ ~IsServerDead(c) /\ UNCHANGED <<req, handler>>
    <3>1. handler[c] = "done" /\ req[c].name \in Peer /\ req[c].server \in Gen
      BY <1>t, <2>5 DEF CallOK
    <3>2. servers[req[c].name] = req[c].server /\ req[c].server # Nil
      BY <2>5, <3>1, Names DEF IsServerDead
    <3>3. saved[req[c].name] = req[c].server
      BY <1>0, <3>1, <3>2 DEF ServerIsSaved
    <3> QED BY <1>0, <1>1, <2>5, <3>1, <3>3 DEF Recorded
  <2>6. CASE /\ pc[c] = "reply" /\ pc'[c] = "true" /\ UNCHANGED <<req, handler>>
    BY <1>0, <1>1, <2>6 DEF Recorded, AckedIsDurable
  <2>7. CASE /\ pc[c] = "lost" /\ pc'[c] = "false" /\ UNCHANGED <<req, handler>>
    BY <1>0, <1>1, <2>7 DEF Recorded
  <2> QED BY <1>1, CarryCases, <2>1, <2>2, <2>3, <2>4, <2>5, <2>6, <2>7
<1> QED BY <1>1, <1>2, <1>3, SCallStep

LEMMA SNext == TInv /\ SInv /\ [Next]_vars => SInv'
<1> SUFFICES ASSUME TInv, SInv, [Next]_vars PROVE SInv'
  OBVIOUS
<1>1. ASSUME NEW i \in Peer, NEW op, Connect(i) \/ Disconnect(i, op) PROVE SInv'
  <2>1. /\ UNCHANGED <<servers, saved, started, endnames, persister, pc, req, handler>>
        /\ \E o : Begin(o, i, "incoming")
    BY <1>1 DEF Connect, Disconnect, callVars
  <2> QED BY <2>1, BeginTask, SKept
<1>2. CASE ConnectIncoming \/ DisconnectIncoming
  <2>1. /\ UNCHANGED <<servers, saved, started, endnames, persister, pc, req, handler>>
        /\ Finish \/ Then("delete")
    BY <1>2 DEF ConnectIncoming, DisconnectIncoming, callVars, cfgVars
  <2> QED BY <2>1, FinishTask, ThenTask, SKept
<1>3. ASSUME \/ \E unrel \in BOOLEAN : SetUnreliable(unrel)
             \/ CleanupCfg \/ NetworkStops \/ ApplyError
             \/ \E i \in Peer, g \in Gen, k \in 1..MaxIndex, v \in Cmd : Applier(i, g, k, v)
             \/ OneCount \/ OneWaits \/ OneFails
      PROVE  SInv'
  <2>1. UNCHANGED <<servers, saved, started, endnames, persister, pc, req, handler, task>>
    BY <1>3 DEF SetUnreliable, CleanupCfg, NetworkStops, StopServing, Applier, ApplyError, OneCount, OneWaits, OneFails,
                netVars, adminVars, callVars, cfgVars
  <2> QED BY <2>1, SKept
<1>4. ASSUME \/ \E cmd \in Cmd, n \in Peer : One(cmd, n + 1)
             \/ \E i \in Peer, k \in 1..MaxIndex : OneStart(i, k)
             \/ OneReturns \/ OneGivesUp
      PROVE  SInv'
  <2>1. /\ UNCHANGED <<servers, saved, started, endnames, persister, pc, req, handler>>
        /\ \/ Begin("one", Nil, "try") \/ Finish \/ task' = task
           \/ task.op = "one" /\ (Then("count") \/ Then("try"))
    BY <1>4 DEF One, OneStart, OneReturns, OneGivesUp, At, netVars, adminVars, callVars, cfgVars
  <2>2. task' = task \/ task'.op \notin {"crash1", "start1"}
    BY <2>1, BeginTask, FinishTask, ThenTask
  <2> QED BY <2>1, <2>2, SKept
<1>5. CASE UNCHANGED vars
  BY <1>5, SKept DEF vars, netVars, adminVars, callVars, cfgVars
<1>6. CASE TesterNext
  BY <1>1, <1>2, <1>3, <1>4, <1>6, SDelete, SCopy, SKill, SEnds, SMake, SAdd DEF TesterNext
<1>7. CASE PeerNext
  BY <1>3, <1>7, SHandles, SPeerCall, SNetwork DEF PeerNext
<1> QED BY <1>5, <1>6, <1>7 DEF Next

\* What a caller was told has happened is never lost by a crash and restart of the callee,
\* for any interleaving of the old and the new instance, their calls and the steps of
\* crash1 and start1 (config.go:109-138 and 273-330, labrpc.go:264-269).
THEOREM RtDurable == Spec => []AckedIsDurable
<1>1. Init => SInv
  BY SInit
<1>2. TInv /\ SInv /\ [Next]_vars => SInv'
  BY SNext
<1>3. SInv => AckedIsDurable
  BY DEF SInv
<1> QED BY <1>1, <1>2, <1>3, TInvariant, PTL DEF Spec

-----------------------------------------------------------------------------
(* The ends.  While the incoming ends of a peer are being changed, the     *)
(* outgoing ones already are as they should be.                            *)

EndsInv ==
    /\ \A e \in EndName :
         /\ e[2] # endnames[e[1]] => ~enabled[e]
         /\ e[2] = endnames[e[1]] =>
              IF task.step = "incoming" /\ e[3] = task.i /\ e[1] # task.i
              THEN task.op = "connect" /\ enabled[e] => connected[e[1]]
              ELSE enabled[e] <=> connected[e[1]] /\ connected[e[3]]
    /\ task.op = "connect" => connected[task.i]
    /\ task.op \in {"disconnect", "crash1", "start1"} => ~connected[task.i]

LEMMA EInit == Init => EndsInv
<1> SUFFICES ASSUME Init PROVE EndsInv
  OBVIOUS
<1>1. \A e \in EndName : e[1] \in Peer /\ e[3] \in Peer
  BY EndParts
<1>2. /\ \A i \in Peer : endnames[i] = 1 /\ connected[i]
      /\ \A e \in EndName : enabled[e] <=> e[2] = 1
      /\ task.op = "idle" /\ task.step = "none"
  BY DEF Init, Idle
<1> QED BY <1>1, <1>2 DEF EndsInv

LEMMA EndsTypes ==
    ASSUME TInv
    PROVE  /\ endnames \in [Peer -> Gen] /\ connected \in [Peer -> BOOLEAN] /\ enabled \in [EndName -> BOOLEAN]
           /\ \A e \in EndName : e[1] \in Peer /\ e[2] \in Gen /\ e[3] \in Peer
           /\ \A i \in Peer, e \in EndName :
                /\ e \in EndsOf(i) <=> e[1] = i /\ e[2] = endnames[i]
                /\ e \in EndsTo(i) <=> e[3] = i /\ e[2] = endnames[e[1]]
<1>1. \A i \in Peer, e \in EndName : e \in EndsOf(i) <=> e[1] = i /\ e[2] = endnames[i]
  BY EndParts DEF EndsOf
<1>2. \A i \in Peer, e \in EndName : e \in EndsTo(i) <=> e[3] = i /\ e[2] = endnames[e[1]]
  BY EndParts DEF EndsTo
<1>3. \A e \in EndName : e[1] \in Peer /\ e[2] \in Gen /\ e[3] \in Peer
  BY EndParts
<1>4. endnames \in [Peer -> Gen] /\ connected \in [Peer -> BOOLEAN] /\ enabled \in [EndName -> BOOLEAN]
  BY DEF TInv, TypeOK, NetTypeOK
<1> QED BY <1>1, <1>2, <1>3, <1>4

\* A step that leaves the ends alone and does not begin or end the change of incoming ones
LEMMA EKept ==
    ASSUME EndsInv, UNCHANGED <<enabled, connected, endnames>>,
           task'.step = "incoming" <=> task.step = "incoming",
           task.step = "incoming" => task' = task,
           task'.op = "connect" => task.op = "connect" /\ task'.i = task.i,
           task'.op \in {"disconnect", "crash1", "start1"} =>
             task.op \in {"disconnect", "crash1", "start1"} /\ task'.i = task.i
    PROVE  EndsInv'
<1>1. CASE task.step = "incoming"
  BY <1>1 DEF EndsInv
<1>2. CASE task.step # "incoming"
  BY <1>2 DEF EndsInv
<1> QED BY <1>1, <1>2

LEMMA EConnect ==
    ASSUME TInv, EndsInv, NEW i \in Peer, Connect(i)
    PROVE  EndsInv'
<1>1. /\ Begin("connect", i, "incoming") /\ connected' = [connected EXCEPT ![i] = TRUE]
      /\ Enable({e \in EndsOf(i) : connected'[e[3]]}, TRUE) /\ endnames' = endnames
  BY DEF Connect
<1>2. task'.op = "connect" /\ task'.i = i /\ task'.step = "incoming" /\ task.op = "idle" /\ task.step = "none"
  BY <1>1, BeginTask
<1>t. /\ endnames \in [Peer -> Gen] /\ connected \in [Peer -> BOOLEAN] /\ enabled \in [EndName -> BOOLEAN]
      /\ \A e \in EndName : e[1] \in Peer /\ e[2] \in Gen /\ e[3] \in Peer
      /\ \A e \in EndName : e \in EndsOf(i) <=> e[1] = i /\ e[2] = endnames[i]
  BY EndsTypes
<1>3. \A j \in Peer : connected'[j] <=> j = i \/ connected[j]
  BY <1>1, <1>t
<1>4. \A e \in EndName : enabled'[e] <=> (e[1] = i /\ e[2] = endnames[i] /\ (e[3] = i \/ connected[e[3]])) \/ enabled[e]
  <2> TAKE e \in EndName
  <2>1. enabled'[e] = IF e \in {d \in EndsOf(i) : connected'[d[3]]} THEN TRUE ELSE enabled[e]
    BY <1>1 DEF Enable
  <2>2. e \in {d \in EndsOf(i) : connected'[d[3]]} <=> e[1] = i /\ e[2] = endnames[i] /\ connected'[e[3]]
    BY <1>t
  <2> QED BY <1>3, <1>t, <2>1, <2>2
<1>5. \A e \in EndName :
         /\ e[2] # endnames[e[1]] => ~enabled[e]
         /\ e[2] = endnames[e[1]] => (enabled[e] <=> connected[e[1]] /\ connected[e[3]])
  BY <1>2 DEF EndsInv
<1>6. \A e \in EndName :
         /\ e[2] # endnames[e[1]] => ~enabled'[e]
         /\ e[2] = endnames[e[1]] =>
              IF e[3] = i /\ e[1] # i
              THEN enabled'[e] => connected'[e[1]]
              ELSE enabled'[e] <=> connected'[e[1]] /\ connected'[e[3]]
  BY <1>3, <1>4, <1>5, <1>t
<1> QED BY <1>1, <1>2, <1>3, <1>6 DEF EndsInv

LEMMA EConnectIncoming ==
    ASSUME TInv, EndsInv, ConnectIncoming
    PROVE  EndsInv'
<1> DEFINE i == task.i
<1>1. /\ task.op = "connect" /\ task.step = "incoming" /\ Finish
      /\ Enable({e \in EndsTo(i) : connected[e[1]]}, TRUE) /\ UNCHANGED <<endnames, connected>>
  BY DEF ConnectIncoming, At, cfgVars
<1>2. task'.op = "idle" /\ task'.step = "none" /\ i \in Peer /\ connected[i]
  BY <1>1, FinishTask DEF TInv, TaskOK, PeerOp, EndsInv
<1>t. /\ enabled \in [EndName -> BOOLEAN]
      /\ \A e \in EndName : e[1] \in Peer /\ e[2] \in Gen /\ e[3] \in Peer
      /\ \A e \in EndName : e \in EndsTo(i) <=> e[3] = i /\ e[2] = endnames[e[1]]
  BY <1>2, EndsTypes
<1>3. \A e \in EndName : enabled'[e] <=> (e[3] = i /\ e[2] = endnames[e[1]] /\ connected[e[1]]) \/ enabled[e]
  <2> TAKE e \in EndName
  <2>1. enabled'[e] = IF e \in {d \in EndsTo(i) : connected[d[1]]} THEN TRUE ELSE enabled[e]
    BY <1>1 DEF Enable
  <2> QED BY <1>t, <2>1
<1>4. \A e \in EndName :
         /\ e[2] # endnames[e[1]] => ~enabled[e]
         /\ e[2] = endnames[e[1]] =>
              IF e[3] = i /\ e[1] # i
              THEN enabled[e] => connected[e[1]]
              ELSE enabled[e] <=> connected[e[1]] /\ connected[e[3]]
  BY <1>1 DEF EndsInv
<1>5. \A e \in EndName :
         /\ e[2] # endnames[e[1]] => ~enabled'[e]
         /\ e[2] = endnames[e[1]] => (enabled'[e] <=> connected[e[1]] /\ connected[e[3]])
  BY <1>2, <1>3, <1>4
<1> QED BY <1>1, <1>2, <1>5 DEF EndsInv

LEMMA EDisconnect ==
    ASSUME TInv, EndsInv, NEW i \in Peer, NEW op \in {"disconnect", "crash1", "start1"}, Disconnect(i, op)
    PROVE  EndsInv'
<1>1. /\ Begin(op, i, "incoming") /\ connected' = [connected EXCEPT ![i] = FALSE]
      /\ Enable(EndsOf(i), FALSE) /\ endnames' = endnames
  BY DEF Disconnect
<1>2. task'.op = op /\ task'.i = i /\ task'.step = "incoming" /\ task.op = "idle" /\ task.step = "none"
  BY <1>1, BeginTask
<1>t. /\ connected \in [Peer -> BOOLEAN] /\ enabled \in [EndName -> BOOLEAN]
      /\ \A e \in EndName : e[1] \in Peer /\ e[2] \in Gen /\ e[3] \in Peer
      /\ \A e \in EndName : e \in EndsOf(i) <=> e[1] = i /\ e[2] = endnames[i]
  BY EndsTypes
<1>3. \A j \in Peer : connected'[j] <=> j # i /\ connected[j]
  BY <1>1, <1>t
<1>4. \A e \in EndName : enabled'[e] <=> ~(e[1] = i /\ e[2] = endnames[i]) /\ enabled[e]
  BY <1>1, <1>t DEF Enable
<1>5. \A e \in EndName :
         /\ e[2] # endnames[e[1]] => ~enabled[e]
         /\ e[2] = endnames[e[1]] => (enabled[e] <=> connected[e[1]] /\ connected[e[3]])
  BY <1>2 DEF EndsInv
<1>6. \A e \in EndName :
         /\ e[2] # endnames[e[1]] => ~enabled'[e]
         /\ e[2] = endnames[e[1]] =>
              (e[3] = i /\ e[1] # i) \/ (enabled'[e] <=> connected'[e[1]] /\ connected'[e[3]])
  BY <1>3, <1>4, <1>5, <1>t
<1> QED BY <1>1, <1>2, <1>3, <1>6 DEF EndsInv

LEMMA EDisconnectIncoming ==
    ASSUME TInv, EndsInv, DisconnectIncoming
    PROVE  EndsInv'
<1> DEFINE i == task.i
<1>1. /\ task.op \in {"disconnect", "crash1", "start1"} /\ task.step = "incoming"
      /\ Finish \/ (task.op # "disconnect" /\ Then("delete"))
      /\ Enable(EndsTo(i), FALSE) /\ UNCHANGED <<endnames, connected>>
  BY DEF DisconnectIncoming, At, cfgVars
<1>2. /\ i \in Peer /\ ~connected[i] /\ task'.step # "incoming"
      /\ task'.op = "idle" \/ (task'.op \in {"crash1", "start1"} /\ task'.i = i)
  BY <1>1, FinishTask, ThenTask DEF TInv, TaskOK, PeerOp, EndsInv
<1>t. /\ enabled \in [EndName -> BOOLEAN]
      /\ \A e \in EndName : e[1] \in Peer /\ e[2] \in Gen /\ e[3] \in Peer
      /\ \A e \in EndName : e \in EndsTo(i) <=> e[3] = i /\ e[2] = endnames[e[1]]
  BY <1>2, EndsTypes
<1>3. \A e \in EndName : enabled'[e] <=> ~(e[3] = i /\ e[2] = endnames[e[1]]) /\ enabled[e]
  BY <1>1, <1>t DEF Enable
<1>4. \A e \in EndName :
         /\ e[2] # endnames[e[1]] => ~enabled[e]
         /\ e[2] = endnames[e[1]] =>
              (e[3] = i /\ e[1] # i) \/ (enabled[e] <=> connected[e[1]] /\ connected[e[3]])
  BY <1>1 DEF EndsInv
<1>5. \A e \in EndName :
         /\ e[2] # endnames[e[1]] => ~enabled'[e]
         /\ e[2] = endnames[e[1]] => (enabled'[e] <=> connected[e[1]] /\ connected[e[3]])
  BY <1>2, <1>3, <1>4
<1> QED BY <1>1, <1>2, <1>5 DEF EndsInv

\* The new ends of a restarted peer are disabled, and so were its old ones.
LEMMA EStartEnds ==
    ASSUME TInv, EndsInv, StartEnds
    PROVE  EndsInv'
<1> DEFINE i == task.i
           g == endnames[task.i] + 1
<1>1. /\ task.op = "start1" /\ task.step = "ends" /\ Then("make") /\ connected' = connected
      /\ endnames' = [endnames EXCEPT ![i] = g]
      /\ enabled' = [e \in EndName |-> IF e \in {i} \X {g} \X Peer THEN FALSE ELSE enabled[e]]
  BY DEF StartEnds, At, MakeEnds
<1>2. task'.op = "start1" /\ task'.i = i /\ task'.step = "make" /\ i \in Peer /\ ~connected[i]
  BY <1>1, ThenTask DEF TInv, TaskOK, PeerOp, EndsInv
<1>t. /\ enabled \in [EndName -> BOOLEAN] /\ endnames \in [Peer -> Gen]
      /\ \A e \in EndName : e[1] \in Peer /\ e[2] \in Gen /\ e[3] \in Peer
  BY EndsTypes
<1>3. \A j \in Peer : endnames'[j] = IF j = i THEN g ELSE endnames[j]
  BY <1>1, <1>2, <1>t
<1>4. \A e \in EndName :
         /\ e[2] # endnames[e[1]] => ~enabled[e]
         /\ e[2] = endnames[e[1]] => (enabled[e] <=> connected[e[1]] /\ connected[e[3]])
  BY <1>1 DEF EndsInv
<1>5. \A e \in EndName : e[1] = i => ~enabled[e]
  BY <1>2, <1>4
<1>6. \A e \in EndName : e[1] = i => ~enabled'[e]
  BY <1>1, <1>5
<1>7. \A e \in EndName : e[1] # i => enabled'[e] = enabled[e]
  <2> SUFFICES ASSUME NEW e \in EndName, e[1] # i PROVE enabled'[e] = enabled[e]
    OBVIOUS
  <2>1. e \notin {i} \X {g} \X Peer
    OBVIOUS
  <2> QED BY <1>1, <2>1
<1>8. \A e \in EndName :
         /\ e[2] # endnames'[e[1]] => ~enabled'[e]
         /\ e[2] = endnames'[e[1]] => (enabled'[e] <=> connected[e[1]] /\ connected[e[3]])
  BY <1>2, <1>3, <1>4, <1>6, <1>7, <1>t
<1> HIDE DEF i, g
<1> QED BY <1>1, <1>2, <1>8 DEF EndsInv, i

LEMMA ENext == TInv /\ EndsInv /\ [Next]_vars => EndsInv'
<1> SUFFICES ASSUME TInv, EndsInv, [Next]_vars PROVE EndsInv'
  OBVIOUS
<1>0. ASSUME UNCHANGED <<enabled, connected, endnames, task>> PROVE EndsInv'
  BY <1>0, EKept
<1>1. ASSUME CrashDelete \/ CrashCopy \/ CrashKill \/ StartMake \/ StartAdd PROVE EndsInv'
  <2>1. /\ UNCHANGED <<enabled, connected, endnames>> /\ task.op \in {"crash1", "start1"}
        /\ task.step # "incoming"
        /\ Finish \/ Then("copy") \/ Then("kill") \/ Then("ends") \/ Then("add")
    BY <1>1 DEF CrashDelete, CrashCopy, CrashKill, StartMake, StartAdd, At, netVars, adminVars, cfgVars
  <2>2. task'.step # "incoming" /\ (task'.op = "idle" \/ (task'.op = task.op /\ task'.i = task.i))
    BY <2>1, FinishTask, ThenTask
  <2> QED BY <2>1, <2>2, EKept
<1>2. ASSUME \/ \E unrel \in BOOLEAN : SetUnreliable(unrel)
             \/ CleanupCfg \/ OneCount \/ OneWaits \/ OneFails \/ PeerNext \/ UNCHANGED vars
      PROVE  EndsInv'
  <2>1. ASSUME PeerNext PROVE UNCHANGED <<enabled, connected, endnames, task>>
    <3>1. ASSUME NEW c \in Call, NEW i \in Peer, NEW j \in Peer, NEW g \in Gen, PeerCall(c, i, g, j)
          PROVE  UNCHANGED <<enabled, connected, endnames, task>>
      BY <3>1 DEF PeerCall, CallSend, CallDone, adminVars, cfgVars
    <3>2. ASSUME NEW c \in Call, PeerHandles(c) \/ NetworkStep(c)
          PROVE  UNCHANGED <<enabled, connected, endnames, task>>
      BY <3>2, CarryCases DEF PeerHandles, NetworkStep, HandlerReturns, adminVars, cfgVars
    <3> QED BY <2>1, <3>1, <3>2 DEF PeerNext, NetworkStops, StopServing, Applier, ApplyError, netVars, adminVars, cfgVars
  <2>2. UNCHANGED <<enabled, connected, endnames, task>>
    BY <1>2, <2>1 DEF SetUnreliable, CleanupCfg, OneCount, OneWaits, OneFails, vars, netVars, adminVars, cfgVars
  <2> QED BY <2>2, <1>0
<1>3. ASSUME \/ \E cmd \in Cmd, n \in Peer : One(cmd, n + 1)
             \/ \E i \in Peer, k \in 1..MaxIndex : OneStart(i, k)
             \/ OneReturns \/ OneGivesUp
      PROVE  EndsInv'
  <2>1. /\ UNCHANGED <<enabled, connected, endnames>>
        /\ \/ Begin("one", Nil, "try") \/ task' = task
           \/ task.op = "one" /\ (Finish \/ Then("count") \/ Then("try"))
    BY <1>3 DEF One, OneStart, OneReturns, OneGivesUp, At, netVars, adminVars, cfgVars
  <2>2. task' = task \/ (task'.op \in {"one", "idle"} /\ task.step # "incoming" /\ task'.step # "incoming")
    BY <2>1, BeginTask, FinishTask, ThenTask DEF TInv, TaskOK
  <2> QED BY <1>0, <2>1, <2>2, EKept
<1>4. CASE TesterNext
  BY <1>1, <1>2, <1>3, <1>4, EConnect, EConnectIncoming, EDisconnect, EDisconnectIncoming, EStartEnds
     DEF TesterNext
<1> QED BY <1>2, <1>4 DEF Next

\* Between the tester's operations the enabled ends are exactly those between connected
\* servers, of the instances of now: "old crashed instance's ClientEnds can't send"
\* (config.go:276-277).
THEOREM RtEndsFollowConnected == Spec => []EndsFollowConnected
<1>1. TInv /\ EndsInv => EndsFollowConnected
  <2> SUFFICES ASSUME TInv, EndsInv, task.op \notin PeerOp, NEW e \in EndName
               PROVE  enabled[e] <=> e[2] = endnames[e[1]] /\ connected[e[1]] /\ connected[e[3]]
    BY DEF EndsFollowConnected, PeerOp
  <2>1. task.step # "incoming"
    BY DEF TInv, TaskOK, TaskOp, PeerOp, Idle
  <2> QED BY <2>1 DEF EndsInv
<1> QED BY <1>1, EInit, ENext, TInvariant, PTL DEF Spec

-----------------------------------------------------------------------------
(* What was delivered and what one() counts.  An entry of a log is never   *)
(* replaced by another command unless an applier finds an error.           *)

HasApplied(k, v) == {j \in Peer : logs[j][k] = v}

DeliveredIsLogged == err = {} => \A p \in delivered : \E j \in Peer : logs[j][p[1]] = p[2]

\* nCommitted: the logs counted so far hold the command seen
CountedIsLogged ==
    task.op = "one" /\ task.step = "count" /\ ~failed /\ err = {} /\ one.count > 0 =>
        /\ one.seen \in Cmd
        /\ one.count <= Cardinality({j \in HasApplied(one.index, one.seen) : j < one.next})

LInv == DeliveredIsLogged /\ DisagreementFails /\ CountedIsLogged /\ OneMeansCommitted

LEMMA PeerFinite == IsFiniteSet(Peer)
BY Names, FS_Interval DEF Peer

LEMMA SubsetCount ==
    ASSUME NEW S \in SUBSET Peer, NEW T \in SUBSET Peer, S \subseteq T
    PROVE  Cardinality(S) \in Nat /\ Cardinality(T) \in Nat /\ Cardinality(S) <= Cardinality(T)
<1>1. IsFiniteSet(S) /\ IsFiniteSet(T)
  BY PeerFinite, FS_Subset
<1> QED BY <1>1, FS_Subset, FS_CardinalityType

LEMMA LInit == Init => LInv
<1> SUFFICES ASSUME Init PROVE LInv
  OBVIOUS
<1>1. delivered = {} /\ task.op = "idle" /\ result.index = 0
  BY DEF Init, Idle, NoOne
<1> QED BY <1>1 DEF LInv, DeliveredIsLogged, DisagreementFails, CountedIsLogged, OneMeansCommitted

\* A step that leaves logs and deliveries alone
LEMMA LKept ==
    ASSUME LInv, UNCHANGED <<logs, err, delivered, result>>, CountedIsLogged'
    PROVE  LInv'
BY DEF LInv, DeliveredIsLogged, DisagreementFails, OneMeansCommitted

\* Such a step after which the test has failed
LEMMA LFailed ==
    ASSUME LInv, UNCHANGED <<logs, err, delivered, result>>, failed'
    PROVE  LInv'
<1>1. CountedIsLogged'
  BY DEF CountedIsLogged
<1> QED BY <1>1, LKept

\* The index and command of a delivery
LEMMA Delivery ==
    ASSUME TInv
    PROVE  \A p \in delivered : p[1] \in 1..MaxIndex /\ p[2] \in Cmd /\ p = <<p[1], p[2]>>
BY DEF TInv, TypeOK

\* An entry, once there, stays as it is or the applier finds an error.
LEMMA LApplier ==
    ASSUME TInv, LInv, NEW i \in Peer, NEW g \in Gen, NEW k \in 1..MaxIndex, NEW v \in Cmd, Applier(i, g, k, v)
    PROVE  LInv'
<1>0. DeliveredIsLogged /\ DisagreementFails /\ CountedIsLogged /\ OneMeansCommitted
  BY DEF LInv
<1>1. /\ UNCHANGED <<task, one, result, failed>> /\ ~failed /\ (err' = {} => err = {})
      /\ logs' = [logs EXCEPT ![i][k] = v] /\ delivered' = delivered \cup {<<k, v>>}
      /\ err' = {} => \A j \in Peer : logs[j][k] \in {Nil, v}
  BY DEF Applier, Event, oneVars, Differs
<1>2. logs \in [Peer -> [1..MaxIndex -> Cmd \cup {Nil}]]
  BY DEF TInv, TypeOK
<1>3. \A j \in Peer, n \in 1..MaxIndex : logs'[j][n] = IF j = i /\ n = k THEN v ELSE logs[j][n]
  BY <1>1, <1>2
<1>d. \A p \in delivered : p[1] \in 1..MaxIndex /\ p[2] \in Cmd /\ p = <<p[1], p[2]>>
  BY Delivery
<1>4. ASSUME err' = {}
      PROVE  \A p \in delivered : p[1] = k => p[2] = v
  <2> SUFFICES ASSUME NEW p \in delivered, p[1] = k PROVE p[2] = v
    OBVIOUS
  <2>1. PICK j \in Peer : logs[j][k] = p[2]
    BY <1>0, <1>1, <1>4 DEF DeliveredIsLogged
  <2>2. p[2] # Nil
    BY <1>d, Names
  <2> QED BY <1>1, <1>4, <2>1, <2>2
<1>5. DisagreementFails'
  <2> SUFFICES ASSUME err' = {}, NEW p \in delivered', NEW q \in delivered', p[1] = q[1], p[2] # q[2]
               PROVE  FALSE
    BY DEF DisagreementFails
  <2>1. p \in delivered \/ (p[1] = k /\ p[2] = v)
    BY <1>1
  <2>2. q \in delivered \/ (q[1] = k /\ q[2] = v)
    BY <1>1
  <2>3. ~(p \in delivered /\ q \in delivered)
    BY <1>0, <1>1 DEF DisagreementFails
  <2> QED BY <1>4, <2>1, <2>2, <2>3
<1>6. CASE err' # {}
  BY <1>6 DEF LInv, DeliveredIsLogged, DisagreementFails, CountedIsLogged, OneMeansCommitted
<1>7. CASE err' = {}
  <2>1. \A j \in Peer, n \in 1..MaxIndex : logs[j][n] # Nil => logs'[j][n] = logs[j][n]
    BY <1>1, <1>3, <1>7
  <2>2. DeliveredIsLogged'
    <3> SUFFICES ASSUME NEW p \in delivered' PROVE \E j \in Peer : logs'[j][p[1]] = p[2]
      BY DEF DeliveredIsLogged
    <3>1. CASE p \in delivered
      <4>1. PICK j \in Peer : logs[j][p[1]] = p[2]
        BY <1>0, <1>1, <1>7, <3>1 DEF DeliveredIsLogged
      <4>2. p[1] \in 1..MaxIndex /\ p[2] # Nil
        BY <1>d, <3>1, Names
      <4> QED BY <2>1, <4>1, <4>2
    <3>2. CASE p = <<k, v>>
      <4>1. logs'[i][k] = v
        BY <1>3
      <4> QED BY <3>2, <4>1
    <3> QED BY <1>1, <3>1, <3>2
  <2>3. ASSUME NEW n \in 1..MaxIndex, NEW u \in Cmd
        PROVE  HasApplied(n, u) \subseteq HasApplied(n, u)'
    BY <2>1, Names DEF HasApplied
  <2>4. CountedIsLogged'
    <3> SUFFICES ASSUME task.op = "one", task.step = "count", one.count > 0
                 PROVE  /\ one.seen \in Cmd
                        /\ one.count <= Cardinality({j \in HasApplied(one.index, one.seen)' : j < one.next})
      BY <1>1, <1>7 DEF CountedIsLogged, HasApplied
    <3> DEFINE S == {j \in HasApplied(one.index, one.seen) : j < one.next}
               T == {j \in HasApplied(one.index, one.seen)' : j < one.next}
    <3>1. one.seen \in Cmd /\ one.count <= Cardinality(S)
      BY <1>0, <1>1, <1>7 DEF CountedIsLogged
    <3>2. one.index \in 1..MaxIndex /\ one.count \in Nat
      BY Names DEF TInv, OneOK, OneType
    <3>3. S \subseteq T /\ S \in SUBSET Peer /\ T \in SUBSET Peer
      BY <1>1, <2>3, <3>1, <3>2 DEF HasApplied
    <3> HIDE DEF S, T
    <3>4. Cardinality(S) \in Nat /\ Cardinality(T) \in Nat /\ Cardinality(S) <= Cardinality(T)
      BY <3>3, SubsetCount
    <3>5. one.count <= Cardinality(T)
      BY <3>1, <3>2, <3>4
    <3> QED BY <3>1, <3>5 DEF T
  <2>5. OneMeansCommitted'
    <3> SUFFICES ASSUME result.index # 0
                 PROVE  Cardinality(HasApplied(result.index, result.cmd)') >= result.expected
      BY <1>1, <1>7 DEF OneMeansCommitted, HasApplied
    <3>1. result.index \in 1..MaxIndex /\ result.cmd \in Cmd /\ result.expected \in Nat
      BY Names DEF TInv, OneOK, OneType
    <3>2. HasApplied(result.index, result.cmd) \subseteq HasApplied(result.index, result.cmd)'
      BY <1>1, <2>3, <3>1 DEF HasApplied
    <3>3. Cardinality(HasApplied(result.index, result.cmd)) >= result.expected
      BY <1>0, <1>1, <1>7 DEF OneMeansCommitted, HasApplied
    <3> DEFINE A == HasApplied(result.index, result.cmd)
               B == HasApplied(result.index, result.cmd)'
    <3>4. A \in SUBSET Peer /\ B \in SUBSET Peer
      BY <1>1 DEF HasApplied
    <3> HIDE DEF A, B
    <3>5. Cardinality(A) \in Nat /\ Cardinality(B) \in Nat /\ Cardinality(A) <= Cardinality(B)
      BY <3>2, <3>4, SubsetCount DEF A, B
    <3>6. Cardinality(B) >= result.expected
      BY <3>1, <3>3, <3>5 DEF A
    <3> QED BY <3>6 DEF B
  <2> QED BY <1>5, <2>2, <2>4, <2>5 DEF LInv
<1> QED BY <1>6, <1>7

LEMMA LCount ==
    ASSUME TInv, LInv, OneCount
    PROVE  LInv'
<1>0. CountedIsLogged
  BY DEF LInv
<1> DEFINE x == logs[one.next][one.index]
<1>1. /\ task.op = "one" /\ task.step = "count" /\ UNCHANGED <<task, result, logs, err, delivered>> /\ one.next < N /\ ~failed
      /\ one' = [one EXCEPT !.next = @ + 1, !.count = IF x = Nil THEN @ ELSE @ + 1,
                            !.seen = IF x = Nil THEN @ ELSE x]
      /\ ~failed' => x = Nil \/ ~(one.count > 0) \/ one.seen = x
  BY DEF OneCount, At, logVars
<1>2. one \in OneType /\ one.next \in Peer /\ one.index \in 1..MaxIndex /\ one.next \in Nat /\ one.count \in Nat
  BY <1>1, Names DEF TInv, OneOK, OneType, Peer
<1>3. x \in Cmd \cup {Nil}
  <2>1. logs[one.next] \in [1..MaxIndex -> Cmd \cup {Nil}]
    BY <1>2 DEF TInv, TypeOK
  <2> QED BY <1>2, <2>1
<1>4. CASE failed'
  BY <1>1, <1>4, LFailed
<1>5. CASE ~failed'
  <2>0. failed' = failed
    <3>1. failed \in BOOLEAN /\ failed' \in BOOLEAN
      BY DEF TInv, TypeOK, OneCount
    <3> QED BY <1>1, <1>5, <3>1
  <2> SUFFICES CountedIsLogged'
    BY <1>1, <2>0, LKept
  <2> SUFFICES ASSUME one'.count > 0, err = {}
               PROVE  /\ one'.seen \in Cmd
                      /\ one'.count <= Cardinality({j \in HasApplied(one'.index, one'.seen) : j < one'.next})
    BY <1>1 DEF CountedIsLogged, HasApplied
  <2>1. /\ one'.index = one.index /\ one'.next = one.next + 1
        /\ one'.count = IF x = Nil THEN one.count ELSE one.count + 1
        /\ one'.seen = IF x = Nil THEN one.seen ELSE x
    BY <1>1, <1>2 DEF OneType
  <2> DEFINE S(u) == {j \in HasApplied(one.index, u) : j < one.next}
             T(u) == {j \in HasApplied(one.index, u) : j < one.next + 1}
  <2>2. \A u : S(u) \in SUBSET Peer /\ T(u) \in SUBSET Peer /\ S(u) \subseteq T(u) /\ one.next \notin S(u)
    <3>1. \A j \in Nat : j < one.next => j < one.next + 1
      BY <1>2
    <3>2. ~(one.next < one.next) /\ Peer \subseteq Nat
      BY <1>2, Names
    <3> QED BY <3>1, <3>2 DEF HasApplied
  <2>3. CASE x = Nil
    <3>1. one.seen \in Cmd /\ one.count <= Cardinality(S(one.seen)) /\ one'.count = one.count
      BY <1>0, <1>1, <1>5, <2>1, <2>3 DEF CountedIsLogged
    <3>2. Cardinality(S(one.seen)) \in Nat /\ Cardinality(T(one.seen)) \in Nat
          /\ Cardinality(S(one.seen)) <= Cardinality(T(one.seen))
      BY <2>2, SubsetCount
    <3>3. one.count <= Cardinality(T(one.seen))
      BY <1>2, <3>1, <3>2
    <3> QED BY <2>1, <2>3, <3>1, <3>3
  <2>4. CASE x # Nil
    <3>1. x \in Cmd /\ one'.seen = x /\ one'.count = one.count + 1
      BY <1>3, <2>1, <2>4
    <3>2. one.count <= Cardinality(S(x))
      <4>1. CASE one.count > 0
        BY <1>0, <1>1, <1>5, <2>4, <4>1 DEF CountedIsLogged
      <4>2. CASE ~(one.count > 0)
        <5>1. one.count = 0 /\ Cardinality(S(x)) \in Nat
          BY <1>2, <2>2, <4>2, SubsetCount
        <5> QED BY <5>1
      <4> QED BY <4>1, <4>2
    <3>3. S(x) \cup {one.next} \subseteq T(x)
      BY <1>2, <2>2 DEF HasApplied
    <3>4. IsFiniteSet(S(x))
      BY <2>2, PeerFinite, FS_Subset
    <3>5. Cardinality(S(x) \cup {one.next}) = Cardinality(S(x)) + 1 /\ Cardinality(S(x)) \in Nat
      BY <2>2, <3>4, FS_AddElement, FS_CardinalityType
    <3>6. /\ Cardinality(S(x) \cup {one.next}) <= Cardinality(T(x))
          /\ Cardinality(T(x)) \in Nat
      BY <1>2, <2>2, <3>3, SubsetCount
    <3>7. one.count + 1 <= Cardinality(T(x))
      BY <1>2, <3>2, <3>5, <3>6
    <3> QED BY <2>1, <3>1, <3>7
  <2> QED BY <2>3, <2>4
<1> QED BY <1>4, <1>5

LEMMA LReturns ==
    ASSUME TInv, LInv, OneReturns
    PROVE  LInv'
<1>1. /\ task.op = "one" /\ task.step = "count" /\ ~failed /\ Agreed /\ result' = one
      /\ UNCHANGED <<logs, err, delivered, failed>> /\ Finish
  BY DEF OneReturns, At, logVars
<1>2. task'.op = "idle"
  BY <1>1, FinishTask
<1>3. one.count \in Nat /\ one.expected \in Nat
  BY DEF TInv, OneOK, OneType
<1> DEFINE S == {j \in HasApplied(one.index, one.seen) : j < one.next}
           T == {j \in Peer : logs[j][one.index] = one.cmd}
<1>e. CASE err # {}
  BY <1>1, <1>2, <1>e DEF LInv, DeliveredIsLogged, DisagreementFails, CountedIsLogged, OneMeansCommitted
<1> SUFFICES ASSUME err = {} PROVE LInv'
  BY <1>e
<1>4. one.count <= Cardinality(S) /\ one.seen = one.cmd /\ one.count >= one.expected
  BY <1>1 DEF LInv, CountedIsLogged, Agreed
<1>5. S \subseteq T /\ S \in SUBSET Peer /\ T \in SUBSET Peer
  BY <1>4 DEF HasApplied
<1>6. Cardinality(S) \in Nat /\ Cardinality(T) \in Nat /\ Cardinality(S) <= Cardinality(T)
  BY <1>5, SubsetCount
<1>7. Cardinality(T) >= one.expected
  <2> HIDE DEF S, T
  <2> QED BY <1>3, <1>4, <1>6
<1>8. OneMeansCommitted'
  BY <1>1, <1>7 DEF OneMeansCommitted
<1>9. CountedIsLogged'
  BY <1>2 DEF CountedIsLogged
<1> QED BY <1>1, <1>8, <1>9 DEF LInv, DeliveredIsLogged, DisagreementFails

LEMMA LNext == TInv /\ LInv /\ [Next]_vars => LInv'
<1> SUFFICES ASSUME TInv, LInv, [Next]_vars PROVE LInv'
  OBVIOUS
<1>0. ASSUME UNCHANGED <<logs, err, delivered, failed, result>>,
             UNCHANGED <<one, task>> \/ task'.op # "one" \/ task'.step # "count" \/ one'.count = 0
      PROVE  LInv'
  <2>1. CountedIsLogged'
    <3>1. CASE UNCHANGED <<one, task>>
      BY <1>0, <3>1 DEF LInv, CountedIsLogged, HasApplied
    <3>2. CASE task'.op # "one" \/ task'.step # "count" \/ one'.count = 0
      BY <3>2 DEF CountedIsLogged
    <3> QED BY <1>0, <3>1, <3>2
  <2> QED BY <1>0, <2>1, LKept
<1>1. ASSUME NEW i \in Peer, NEW op \in PeerOp, Connect(i) \/ Disconnect(i, op) PROVE LInv'
  <2>1. UNCHANGED <<logs, err, delivered, failed, result>> /\ \E o \in PeerOp : Begin(o, i, "incoming")
    BY <1>1 DEF Connect, Disconnect, logVars, oneVars, PeerOp
  <2>2. task'.op # "one"
    BY <2>1, BeginTask DEF PeerOp
  <2> QED BY <1>0, <2>1, <2>2
<1>2. ASSUME \/ ConnectIncoming \/ DisconnectIncoming \/ CrashDelete \/ CrashCopy \/ CrashKill
             \/ StartEnds \/ StartMake \/ StartAdd
      PROVE  LInv'
  <2>1. /\ UNCHANGED <<logs, err, delivered, failed, result>> /\ task.op # "one"
        /\ \/ Finish \/ Then("delete") \/ Then("copy") \/ Then("kill") \/ Then("ends") \/ Then("make")
           \/ Then("add")
    BY <1>2 DEF ConnectIncoming, DisconnectIncoming, CrashDelete, CrashCopy, CrashKill, StartEnds, StartMake,
                StartAdd, At, logVars, oneVars
  <2>2. task'.op # "one"
    BY <2>1, FinishTask, ThenTask
  <2> QED BY <1>0, <2>1, <2>2
<1>3. ASSUME \/ \E unrel \in BOOLEAN : SetUnreliable(unrel)
             \/ CleanupCfg \/ NetworkStops \/ UNCHANGED vars
             \/ \E c \in Call, i, j \in Peer, g \in Gen : PeerCall(c, i, g, j)
             \/ \E c \in Call : PeerHandles(c) \/ NetworkStep(c)
      PROVE  LInv'
  <2>1. UNCHANGED <<logs, err, delivered, failed, result, one, task>>
    BY <1>3 DEF SetUnreliable, CleanupCfg, NetworkStops, PeerCall, PeerHandles, NetworkStep, vars, logVars, oneVars
  <2> QED BY <1>0, <2>1
<1>4. ASSUME \/ \E cmd \in Cmd, n \in Peer : One(cmd, n + 1)
             \/ \E i \in Peer, k \in 1..MaxIndex : OneStart(i, k)
             \/ OneWaits
      PROVE  LInv'
  <2>1. /\ UNCHANGED <<logs, err, delivered, failed, result>> /\ one \in OneType
        /\ \/ \E cmd \in Cmd, n \in Peer : one' = [NoOne EXCEPT !.cmd = cmd, !.expected = n + 1]
           \/ \E k \in 1..MaxIndex : one' = [one EXCEPT !.index = k, !.next = 0, !.count = 0, !.seen = Nil]
           \/ one' = [one EXCEPT !.next = 0, !.count = 0, !.seen = Nil]
    BY <1>4 DEF One, OneStart, OneWaits, TInv, OneOK, logVars
  <2>2. one'.count = 0
    BY <2>1 DEF OneType, NoOne
  <2> QED BY <1>0, <2>1, <2>2
<1>5. ASSUME OneGivesUp \/ OneFails PROVE LInv'
  <2>1. CASE failed'
    BY <1>5, <2>1, LFailed DEF OneGivesUp, OneFails, logVars, oneVars
  <2>2. CASE ~failed'
    <3>1. UNCHANGED <<logs, err, delivered, failed, result>> /\ Then("try")
      BY <1>5, <2>2 DEF OneGivesUp, OneFails, logVars, oneVars
    <3>2. task'.step # "count"
      BY <3>1, ThenTask
    <3> QED BY <1>0, <3>1, <3>2
  <2> QED BY <2>1, <2>2
<1>6. CASE TesterNext
  BY <1>1, <1>2, <1>3, <1>4, <1>5, <1>6, LCount, LReturns DEF TesterNext, PeerOp
<1>7. ASSUME ApplyError PROVE LInv'
  BY <1>7, LFailed DEF ApplyError, logVars, oneVars
<1>8. CASE PeerNext
  BY <1>3, <1>7, <1>8, LApplier DEF PeerNext
<1> QED BY <1>3, <1>6, <1>8 DEF Next

LEMMA LInvariant == Spec => []LInv
BY LInit, LNext, TInvariant, PTL DEF Spec

\* The tester never misses a disagreement: when two deliveries of any instances differ at
\* an index, an applier has found it and is about to end the program, although each
\* delivery overwrites an entry of cfg.logs.
THEOREM RtDisagreementFails == Spec => []DisagreementFails
<1>1. LInv => DisagreementFails
  BY DEF LInv
<1> QED BY <1>1, LInvariant, PTL

\* What one() returns has been applied by as many servers as it was asked for, although
\* nCommitted reads their logs one after the other while deliveries go on.
THEOREM RtOneMeansCommitted == Spec => []OneMeansCommitted
<1>1. LInv => OneMeansCommitted
  BY DEF LInv
<1> QED BY <1>1, LInvariant, PTL

=============================================================================
