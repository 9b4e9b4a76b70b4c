--------------------------- MODULE ShardKvProofs ---------------------------
(***************************************************************************)
(* Proofs about the clerk of the sharded service and the tester that       *)
(* restarts its servers, for any groups, servers, configurations and       *)
(* calls.                                                                  *)
(***************************************************************************)
EXTENDS ShardKv, TLAPS

Pc == {"idle", "sent", "request", "waiting", "replied", "reply", "lost", "true", "false"}
Req == [end : Call \cup {Nil}, name : ServerName \cup {Nil}, server : Gen \cup {Nil}, reliable : BOOLEAN]
Ck == [pc : {"idle", "group", "call", "sleep", "query", "ask"}, n : 0..MaxOps,
       op : {"Get", "Put", Nil}, key : Key \cup {Nil}, config : Configs,
       i : 1..(N + NCtl), call : Call \cup {Nil}]

-----------------------------------------------------------------------------
(* Types, the clerk's position and the calls.                              *)

\* The clerk's position is within the list it goes through, it has a call exactly while
\* it waits for one, and the call carries its operation
ClerkOK ==
    /\ ck.pc \in {"group", "sleep"} => ck.i \in 1..(N + 1)
    /\ ck.pc = "call" => ck.i \in 1..N
    /\ ck.pc \in {"query", "ask"} => ck.i \in 1..NCtl
    /\ ck.pc # "idle" => ck.n # 0
    /\ ck.pc \in {"call", "ask"} <=> ck.call \in Call
    /\ ck.pc = "call" => carries[ck.call] = ck.n

\* A call the clerk does not wait for is free, or its handler is still running
OthersOK(c) ==
    c # ck.call => \/ pc[c] = "idle" /\ connections[c] = Nil /\ handler[c] = "none"
                   \/ pc[c] = "false" /\ handler[c] = "running"

\* What processReq knows when it uses it
CallOK(c) ==
    /\ pc[c] # "idle" => connections[c] \in ServerName /\ req[c].end = c
    /\ pc[c] \in {"idle", "sent", "request"} => handler[c] = "none"
    /\ pc[c] \in {"replied", "reply", "true"} => handler[c] = "done"
    /\ pc[c] = "request" \/ handler[c] # "none" =>
         req[c].name = connections[c] /\ req[c].server \in Gen

TaskOK ==
    /\ task \in [op : {"idle", "shutdown", "start"}, server : GroupServer \cup {Nil}, step : 0..3]
    /\ task.op # "idle" => task.server \in GroupServer
    /\ task.op = "shutdown" => task.step \in 1..3
    /\ task.op = "start" => kvservers[task.server] # Nil

\* The clerk calls servers of the group its configuration assigns to the key
CallsGroup ==
    ck.pc = "call" =>
        GroupOf(ck) \in ck.config.Groups /\ connections[ck.call] \in {GroupOf(ck)} \X (1..N)

CInv ==
    /\ TypeOK /\ TaskOK /\ ClerkOK /\ CallsGroup
    /\ \A c \in Call : OthersOK(c) /\ CallOK(c)

LEMMA Names ==
    /\ N \in Nat \ {0} /\ NCtl \in Nat \ {0} /\ NShards \in Nat \ {0} /\ MaxGen \in Nat \ {0}
    /\ MaxOps \in Nat /\ MaxSteps \in Nat
    /\ EndName = Call /\ ServerName = GroupServer \cup Controller /\ Server = Gen
    /\ Nil \notin ServerName /\ Nil \notin Gen /\ Nil \notin Call
    /\ Gen \subseteq 0..MaxGen /\ Gen \subseteq Nat /\ 0 \in 0..MaxGen /\ 0 \notin Gen
<1>1. /\ N \in Nat \ {0} /\ NCtl \in Nat \ {0} /\ NShards \in Nat \ {0} /\ MaxGen \in Nat \ {0}
      /\ MaxOps \in Nat /\ MaxSteps \in Nat
  BY BoundsAssumption
<1>2. Gen \subseteq 0..MaxGen /\ Gen \subseteq Nat /\ 0 \in 0..MaxGen /\ 0 \notin Gen
  BY <1>1 DEF Gen
<1> QED BY <1>1, <1>2, NamesAssumption, NilAssumption

\* TypeOK, with the names of the network resolved
Typed ==
    /\ connections \in [Call -> ServerName \cup {Nil}] /\ enabled \in [Call -> BOOLEAN]
    /\ servers \in [ServerName -> Gen \cup {Nil}]
    /\ reliable \in BOOLEAN /\ done \in BOOLEAN /\ serving \in BOOLEAN
    /\ pc \in [Call -> Pc] /\ req \in [Call -> Req] /\ handler \in [Call -> {"none", "running", "done"}]
    /\ ck \in Ck /\ carries \in [Call -> 0..MaxOps] /\ answer \in [Call -> Reply]
    /\ acked \in [1..MaxOps -> GroupServer \cup {Nil}]
    /\ gen \in [GroupServer -> Gen] /\ kvservers \in [GroupServer -> Gen \cup {Nil}]
    /\ saved \in [GroupServer -> 0..MaxGen]
    /\ persister \in [GroupServer -> [0..MaxGen -> SUBSET (0..MaxOps)]]
    /\ steps \in 0..MaxSteps

LEMMA Types == (TypeOK <=> Typed) /\ (TypeOK' <=> Typed')
BY Names DEF TypeOK, NetTypeOK, Typed, Pc, Req, Ck

LEMMA ReplyTypes ==
    /\ NoReply \in Reply /\ GroupReply \subseteq Reply /\ ControllerReply \subseteq Reply
    /\ NoReply.Err = "" /\ \A r \in ControllerReply : r.Err = ""
<1>1. NoReply \in Reply /\ NoReply.Err = "" /\ NoReply.WrongLeader = FALSE /\ NoReply.Config = NoConfig
  BY ConfigsAssumption DEF NoReply, Reply
<1>2. ASSUME NEW r \in GroupReply PROVE r \in Reply
  <2>1. PICK e \in {"", "OK", "ErrNoKey", "ErrWrongGroup", "ErrWrongLeader"} : r = [NoReply EXCEPT !.Err = e]
    BY DEF GroupReply
  <2> QED BY <1>1, <2>1 DEF Reply
<1> QED BY <1>1, <1>2 DEF ControllerReply

LEMMA NoReqType == NoReq \in Req
BY DEF NoReq, Req

LEMMA CInit == Init => CInv
<1> SUFFICES ASSUME Init PROVE CInv
  OBVIOUS
<1>1. 1 \in Gen /\ 1 \in 0..MaxGen /\ 0 \in 0..MaxOps /\ 0 \in 0..MaxSteps /\ 1 \in 1..(N + NCtl)
  BY Names DEF Gen
<1>2. /\ connections \in [Call -> ServerName \cup {Nil}] /\ enabled \in [Call -> BOOLEAN]
      /\ servers \in [ServerName -> Gen \cup {Nil}]
      /\ reliable \in BOOLEAN
  BY <1>1 DEF Init
<1>3. /\ done \in BOOLEAN /\ serving \in BOOLEAN
      /\ pc \in [Call -> Pc] /\ req \in [Call -> Req] /\ handler \in [Call -> {"none", "running", "done"}]
  BY NoReqType DEF Init, NetworkRuns, Pc
<1>4. ck \in Ck
  BY <1>1, ConfigsAssumption DEF Init, Ck
<1>5. carries \in [Call -> 0..MaxOps] /\ answer \in [Call -> Reply]
  BY <1>1, ReplyTypes DEF Init
<1>6. /\ acked \in [1..MaxOps -> GroupServer \cup {Nil}]
      /\ gen \in [GroupServer -> Gen] /\ kvservers \in [GroupServer -> Gen \cup {Nil}]
      /\ saved \in [GroupServer -> 0..MaxGen]
  BY <1>1 DEF Init
<1>7. persister \in [GroupServer -> [0..MaxGen -> SUBSET (0..MaxOps)]]
  <2>1. [g \in 0..MaxGen |-> {}] \in [0..MaxGen -> SUBSET (0..MaxOps)]
    OBVIOUS
  <2> QED BY <2>1 DEF Init
<1>8. steps \in 0..MaxSteps /\ TaskOK
  BY <1>1 DEF Init, TaskOK, Idle
<1>9. TypeOK
  BY <1>2, <1>3, <1>4, <1>5, <1>6, <1>7, <1>8, Types DEF Typed
<1>10. ck.pc = "idle" /\ ck.call = Nil
  BY DEF Init
<1>11. \A c \in Call : OthersOK(c) /\ CallOK(c)
  BY DEF Init, NetworkRuns, OthersOK, CallOK
<1> QED BY <1>8, <1>9, <1>10, <1>11, Names DEF CInv, ClerkOK, CallsGroup

-----------------------------------------------------------------------------
(* The clerk.                                                              *)

\* A step of the clerk between two calls
LEMMA ClerkOnly ==
    ASSUME CInv, UNCHANGED <<netVars, acked, replyVars, cfgVars>>,
           ck' \in Ck, ck'.call = ck.call, ck'.pc \notin {"call", "ask"}, ck.pc \notin {"call", "ask"}, ClerkOK'
    PROVE  CInv'
<1>1. UNCHANGED <<connections, enabled, servers, reliable, done, serving, pc, req, handler, acked,
                  carries, answer, gen, kvservers, saved, persister, task, steps>>
  BY DEF netVars, adminVars, callVars, replyVars, cfgVars
<1>2. TypeOK'
  BY <1>1, Types DEF CInv, Typed
<1>3. TaskOK' /\ CallsGroup'
  BY <1>1 DEF CInv, TaskOK, CallsGroup
<1>4. \A c \in Call : OthersOK(c)' /\ CallOK(c)'
  BY <1>1 DEF CInv, OthersOK, CallOK
<1> QED BY <1>2, <1>3, <1>4 DEF CInv

LEMMA CkFields ==
    ASSUME CInv
    PROVE  /\ ck \in Ck /\ ck.i \in Nat /\ ck.n \in Nat /\ ck.n <= MaxOps
           /\ ck.pc \in {"idle", "group", "call", "sleep", "query", "ask"}
           /\ ck.config \in Configs /\ ck.config.Groups \subseteq Gid
           /\ ck.pc \notin {"call", "ask"} => ck.call = Nil
<1>1. ck \in Ck
  BY Types DEF CInv, Typed
<1>2. ck.config \in Configs
  BY <1>1 DEF Ck
<1>3. ck.pc \notin {"call", "ask"} => ck.call = Nil
  BY <1>1 DEF CInv, ClerkOK, Ck
<1> QED BY <1>1, <1>2, <1>3, ConfigsAssumption, Names DEF Ck

LEMMA COperation ==
    ASSUME CInv, NEW op \in {"Get", "Put"}, NEW key \in Key, Operation(op, key)
    PROVE  CInv'
<1>1. /\ ck.pc = "idle" /\ ck.n < MaxOps /\ UNCHANGED <<netVars, acked, replyVars, cfgVars>>
      /\ ck' = [ck EXCEPT !.pc = "group", !.n = @ + 1, !.op = op, !.key = key, !.i = 1]
  BY DEF Operation
<1>2. ck \in Ck /\ ck.n \in Nat /\ ck.call = Nil
  BY <1>1, CkFields
<1>3. ck.n + 1 \in 0..MaxOps /\ ck.n + 1 # 0 /\ 1 \in 1..(N + NCtl) /\ 1 \in 1..(N + 1)
  BY <1>1, <1>2, Names
<1>4. /\ ck' \in Ck /\ ck'.pc = "group" /\ ck'.i = 1 /\ ck'.n = ck.n + 1 /\ ck'.call = Nil
  BY <1>1, <1>2, <1>3 DEF Ck
<1>5. ClerkOK'
  BY <1>1, <1>3, <1>4, Names DEF CInv, ClerkOK
<1> QED BY <1>1, <1>2, <1>4, <1>5, ClerkOnly

LEMMA CNoServerLeft ==
    ASSUME CInv, NoServerLeft
    PROVE  CInv'
<1>1. /\ ck.pc = "group" /\ UNCHANGED <<netVars, acked, replyVars, cfgVars>>
      /\ ck' = [ck EXCEPT !.pc = "sleep"]
  BY DEF NoServerLeft
<1>2. ck \in Ck
  BY CkFields
<1>3. ck' \in Ck /\ ck'.pc = "sleep" /\ ck'.i = ck.i /\ ck'.n = ck.n /\ ck'.call = ck.call
  BY <1>1, <1>2 DEF Ck
<1>4. ClerkOK'
  BY <1>1, <1>3 DEF CInv, ClerkOK
<1> QED BY <1>1, <1>3, <1>4, ClerkOnly

LEMMA CQuery ==
    ASSUME CInv, Query
    PROVE  CInv'
<1>1. /\ ck.pc = "sleep" /\ UNCHANGED <<netVars, acked, replyVars, cfgVars>>
      /\ ck' = [ck EXCEPT !.pc = "query", !.i = 1]
  BY DEF Query
<1>2. ck \in Ck /\ 1 \in 1..(N + NCtl) /\ 1 \in 1..NCtl
  BY CkFields, Names
<1>3. ck' \in Ck /\ ck'.pc = "query" /\ ck'.i = 1 /\ ck'.n = ck.n /\ ck'.call = ck.call
  BY <1>1, <1>2 DEF Ck
<1>4. ClerkOK'
  BY <1>1, <1>2, <1>3 DEF CInv, ClerkOK
<1> QED BY <1>1, <1>3, <1>4, ClerkOnly

\* A new end: nobody else uses its call
LEMMA CMakeEnd ==
    ASSUME CInv, NEW to \in ServerName, NEW n \in 0..MaxOps, NEW label \in {"call", "ask"},
           MakeEnd(to, n, label), ck.pc \in {"group", "query"},
           label = "call" => /\ n = ck.n /\ ck.i \in 1..N /\ GroupOf(ck) \in ck.config.Groups
                             /\ to \in {GroupOf(ck)} \X (1..N),
           label = "ask" => ck.i \in 1..NCtl
    PROVE  CInv'
<1> DEFINE c == CHOOSE d \in Call : Free(d)
<1>1. c \in Call /\ Free(c)
  BY DEF MakeEnd
<1>2. /\ connections' = [connections EXCEPT ![c] = to] /\ enabled' = [enabled EXCEPT ![c] = TRUE]
      /\ carries' = [carries EXCEPT ![c] = n] /\ ck' = [ck EXCEPT !.pc = label, !.call = c]
      /\ UNCHANGED <<servers, reliable, done, serving, pc, req, handler, acked, answer,
                     gen, kvservers, saved, persister, task, steps>>
  BY DEF MakeEnd, callVars, cfgVars
<1> HIDE DEF c
<1>t. /\ connections \in [Call -> ServerName \cup {Nil}] /\ enabled \in [Call -> BOOLEAN]
      /\ carries \in [Call -> 0..MaxOps] /\ ck \in Ck /\ ck.call = Nil
  BY Types, CkFields DEF CInv, Typed
<1>3. /\ ck' \in Ck /\ ck'.pc = label /\ ck'.call = c /\ ck'.n = ck.n /\ ck'.i = ck.i
      /\ ck'.config = ck.config /\ ck'.key = ck.key
  BY <1>1, <1>2, <1>t DEF Ck
<1>4. /\ connections' \in [Call -> ServerName \cup {Nil}] /\ enabled' \in [Call -> BOOLEAN]
      /\ carries' \in [Call -> 0..MaxOps]
      /\ connections'[c] = to /\ carries'[c] = n /\ \A d \in Call \ {c} : connections'[d] = connections[d]
  BY <1>1, <1>2, <1>t
<1>5. TypeOK'
  BY <1>2, <1>3, <1>4, Types DEF CInv, Typed
<1>6. ClerkOK'
  BY <1>1, <1>2, <1>3, <1>4 DEF CInv, ClerkOK
<1>7. TaskOK'
  BY <1>2 DEF CInv, TaskOK
<1>8. CallsGroup'
  BY <1>2, <1>3, <1>4 DEF CallsGroup, GroupOf
<1>9. \A d \in Call : OthersOK(d)' /\ CallOK(d)'
  <2> TAKE d \in Call
  <2>1. OthersOK(d) /\ CallOK(d) /\ d # ck.call
    BY <1>t, Names DEF CInv
  <2>2. CASE d = c
    BY <1>1, <1>2, <1>3, <2>1, <2>2 DEF OthersOK, CallOK, Free
  <2>3. CASE d # c
    BY <1>2, <1>3, <1>4, <2>1, <2>3 DEF OthersOK, CallOK
  <2> QED BY <2>2, <2>3
<1> QED BY <1>5, <1>6, <1>7, <1>8, <1>9 DEF CInv

LEMMA CTryServer ==
    ASSUME CInv, TryServer
    PROVE  CInv'
<1>1. /\ ck.pc = "group" /\ GroupOf(ck) \in ck.config.Groups /\ ck.i <= N
      /\ MakeEnd(<<GroupOf(ck), ck.i>>, ck.n, "call")
  BY DEF TryServer
<1>2. ck.i \in 1..N /\ ck.n \in 0..MaxOps /\ GroupOf(ck) \in Gid
  BY <1>1, CkFields, Names DEF CInv, ClerkOK
<1>3. <<GroupOf(ck), ck.i>> \in ServerName /\ <<GroupOf(ck), ck.i>> \in {GroupOf(ck)} \X (1..N)
  BY <1>2, Names DEF GroupServer
<1> QED BY <1>1, <1>2, <1>3, CMakeEnd

LEMMA CAskController ==
    ASSUME CInv, AskController
    PROVE  CInv'
<1>1. ck.pc = "query" /\ MakeEnd(<<0, ck.i>>, 0, "ask")
  BY DEF AskController
<1>2. ck.i \in 1..NCtl /\ 0 \in 0..MaxOps
  BY <1>1, Names DEF CInv, ClerkOK
<1>3. <<0, ck.i>> \in ServerName
  BY <1>2, Names DEF Controller
<1> QED BY <1>1, <1>2, <1>3, CMakeEnd

LEMMA CSend ==
    ASSUME CInv, Send
    PROVE  CInv'
<1> DEFINE c == ck.call
<1>1. /\ ck.pc \in {"call", "ask"} /\ pc[c] = "idle" /\ connections[c] # Nil
      /\ req' = [req EXCEPT ![c].end = c] /\ pc' = [pc EXCEPT ![c] = "sent"]
      /\ UNCHANGED <<connections, enabled, servers, reliable, done, serving, handler, ck, acked,
                     carries, answer, gen, kvservers, saved, persister, task, steps>>
  BY DEF Send, CallSend, Goto, adminVars, clerkVars, replyVars, cfgVars
<1>2. c \in Call /\ OthersOK(c) /\ CallOK(c)
  BY <1>1 DEF CInv, ClerkOK
<1>t. connections \in [Call -> ServerName \cup {Nil}] /\ pc \in [Call -> Pc] /\ req \in [Call -> Req]
  BY Types DEF CInv, Typed
<1>3. /\ pc' \in [Call -> Pc] /\ req' \in [Call -> Req] /\ pc'[c] = "sent" /\ req'[c].end = c
      /\ \A d \in Call \ {c} : pc'[d] = pc[d] /\ req'[d] = req[d]
  BY <1>1, <1>2, <1>t DEF Pc, Req
<1>4. TypeOK'
  BY <1>1, <1>3, Types DEF CInv, Typed
<1>5. ClerkOK' /\ TaskOK' /\ CallsGroup'
  BY <1>1 DEF CInv, ClerkOK, TaskOK, CallsGroup
<1>6. \A d \in Call : OthersOK(d)' /\ CallOK(d)'
  <2> TAKE d \in Call
  <2>1. CASE d = c
    BY <1>1, <1>2, <1>3, <1>t, <2>1 DEF OthersOK, CallOK
  <2>2. CASE d # c
    BY <1>1, <1>3, <2>2 DEF CInv, OthersOK, CallOK
  <2> QED BY <2>1, <2>2
<1> QED BY <1>4, <1>5, <1>6 DEF CInv

\* What Forget does to the calls
LEMMA ForgetCall ==
    ASSUME CInv, NEW c \in Call, Forget(c)
    PROVE  /\ connections' \in [Call -> ServerName \cup {Nil}] /\ enabled' \in [Call -> BOOLEAN]
           /\ pc' \in [Call -> Pc] /\ req' \in [Call -> Req] /\ handler' \in [Call -> {"none", "running", "done"}]
           /\ carries' \in [Call -> 0..MaxOps] /\ answer' \in [Call -> Reply]
           /\ UNCHANGED <<servers, reliable, done, serving>>
           /\ pc'[c] = "idle" /\ connections'[c] = Nil /\ handler'[c] = "none" /\ answer'[c] = NoReply
           /\ \A d \in Call \ {c} : /\ pc'[d] = pc[d] /\ connections'[d] = connections[d] /\ req'[d] = req[d]
                                    /\ handler'[d] = handler[d] /\ carries'[d] = carries[d] /\ answer'[d] = answer[d]
<1>1. /\ connections \in [Call -> ServerName \cup {Nil}] /\ enabled \in [Call -> BOOLEAN]
      /\ pc \in [Call -> Pc] /\ req \in [Call -> Req] /\ handler \in [Call -> {"none", "running", "done"}]
      /\ carries \in [Call -> 0..MaxOps] /\ answer \in [Call -> Reply]
  BY Types DEF CInv, Typed
<1>2. 0 \in 0..MaxOps /\ "idle" \in Pc
  BY Names DEF Pc
<1>3. NoReq \in Req /\ NoReply \in Reply
  BY NoReqType, ReplyTypes
<1> QED BY <1>1, <1>2, <1>3 DEF Forget

\* What a step that ends the clerk's wait does to the calls
LEMMA CAnswered ==
    ASSUME CInv, ck.pc \in {"call", "ask"}, Returned(ck.call), TakeAnswer,
           UNCHANGED cfgVars, ck' \in Ck, ck'.call = Nil, ck'.pc \notin {"call", "ask"}, ClerkOK',
           acked' \in [1..MaxOps -> GroupServer \cup {Nil}]
    PROVE  CInv'
<1> DEFINE c == ck.call
<1>1. c \in Call /\ OthersOK(c) /\ CallOK(c) /\ c # Nil
  BY Names DEF CInv, ClerkOK
<1>2. UNCHANGED <<gen, kvservers, saved, persister, task, steps>>
  BY DEF cfgVars
<1>3. TaskOK' /\ CallsGroup'
  BY <1>2 DEF CInv, TaskOK, CallsGroup
<1>4. CASE handler[c] = "running"
  <2>1. UNCHANGED <<connections, enabled, servers, reliable, done, serving, pc, req, handler, carries, answer>>
    BY <1>4 DEF TakeAnswer, netVars, adminVars, callVars, replyVars
  <2>2. TypeOK'
    BY <1>2, <2>1, Types DEF CInv, Typed
  <2>3. ASSUME NEW d \in Call PROVE OthersOK(d)' /\ CallOK(d)'
    <3>1. OthersOK(d) /\ CallOK(d)
      BY DEF CInv
    <3>2. CallOK(d)'
      BY <3>1, <2>1 DEF CallOK
    <3>3. d = c => pc[d] = "false"
      BY <1>1, <1>4 DEF Returned, CallOK
    <3>4. OthersOK(d)'
      BY <3>1, <3>3, <2>1, <1>4 DEF OthersOK
    <3> QED BY <3>2, <3>4
  <2> QED BY <1>3, <2>2, <2>3 DEF CInv
<1>5. CASE handler[c] # "running"
  <2>1. Forget(c)
    BY <1>5 DEF TakeAnswer
  <2>2. /\ connections' \in [Call -> ServerName \cup {Nil}] /\ enabled' \in [Call -> BOOLEAN]
        /\ pc' \in [Call -> Pc] /\ req' \in [Call -> Req] /\ handler' \in [Call -> {"none", "running", "done"}]
        /\ carries' \in [Call -> 0..MaxOps] /\ answer' \in [Call -> Reply]
        /\ UNCHANGED <<servers, reliable, done, serving>>
        /\ pc'[c] = "idle" /\ connections'[c] = Nil /\ handler'[c] = "none"
        /\ \A d \in Call \ {c} : /\ pc'[d] = pc[d] /\ connections'[d] = connections[d] /\ req'[d] = req[d]
                                 /\ handler'[d] = handler[d]
    BY <1>1, <2>1, ForgetCall
  <2>3. TypeOK'
    BY <1>2, <2>2, Types DEF CInv, Typed
  <2>4. ASSUME NEW d \in Call PROVE OthersOK(d)' /\ CallOK(d)'
    <3>1. OthersOK(d) /\ CallOK(d)
      BY DEF CInv
    <3>2. CASE d = c
      BY <2>2, <3>2 DEF OthersOK, CallOK
    <3>3. CASE d # c
      BY <2>2, <3>1, <3>3 DEF OthersOK, CallOK
    <3> QED BY <3>2, <3>3
  <2> QED BY <1>3, <2>3, <2>4 DEF CInv
<1> QED BY <1>4, <1>5

\* The server a call of the clerk asks
LEMMA CServer ==
    ASSUME CInv, ck.pc = "call"
    PROVE  ck.call \in Call /\ ck.n \in 1..MaxOps /\ connections[ck.call] \in GroupServer /\ ck.i \in 1..N
<1>1. ck.call \in Call /\ ck.n # 0 /\ ck.i \in 1..N
  BY DEF CInv, ClerkOK
<1>2. ck.n \in 1..MaxOps
  BY <1>1, CkFields, Names
<1>3. GroupOf(ck) \in Gid /\ connections[ck.call] \in {GroupOf(ck)} \X (1..N)
  BY CkFields DEF CInv, CallsGroup
<1>4. connections[ck.call] \in GroupServer
  BY <1>3 DEF GroupServer
<1> QED BY <1>1, <1>2, <1>4

LEMMA CReturn ==
    ASSUME CInv, Return
    PROVE  CInv'
<1>1. /\ ck.pc = "call" /\ Accepted /\ ck' = [ck EXCEPT !.pc = "idle", !.call = Nil]
      /\ acked' = IF ck.op = "Put" THEN [acked EXCEPT ![ck.n] = connections[ck.call]] ELSE acked
      /\ TakeAnswer /\ UNCHANGED cfgVars
  BY DEF Return
<1>2. ck \in Ck /\ ck.n \in 1..MaxOps /\ connections[ck.call] \in GroupServer
  BY <1>1, CkFields, CServer
<1>3. ck' \in Ck /\ ck'.pc = "idle" /\ ck'.call = Nil
  BY <1>1, <1>2 DEF Ck
<1>4. acked \in [1..MaxOps -> GroupServer \cup {Nil}]
  BY Types DEF CInv, Typed
<1>5. acked' \in [1..MaxOps -> GroupServer \cup {Nil}]
  BY <1>1, <1>2, <1>4
<1>6. ClerkOK'
  BY <1>1, <1>2, <1>3, Names DEF ClerkOK
<1>7. Returned(ck.call)
  BY <1>1 DEF Accepted, Ok
<1> QED BY <1>1, <1>3, <1>5, <1>6, <1>7, CAnswered

LEMMA CWrongGroup ==
    ASSUME CInv, WrongGroup
    PROVE  CInv'
<1>1. /\ ck.pc = "call" /\ Ok /\ ck' = [ck EXCEPT !.pc = "sleep", !.call = Nil]
      /\ TakeAnswer /\ acked' = acked /\ UNCHANGED cfgVars
  BY DEF WrongGroup
<1>2. ck \in Ck /\ ck.n \in 1..MaxOps /\ ck.i \in 1..N
  BY <1>1, CkFields, CServer
<1>3. ck' \in Ck /\ ck'.pc = "sleep" /\ ck'.call = Nil /\ ck'.n = ck.n /\ ck'.i = ck.i
  BY <1>1, <1>2 DEF Ck
<1>4. acked' \in [1..MaxOps -> GroupServer \cup {Nil}]
  BY <1>1, Types DEF CInv, Typed
<1>5. ck'.i \in 1..(N + 1) /\ ck'.n # 0
  BY <1>2, <1>3, Names
<1>6. ClerkOK'
  BY <1>3, <1>5, Names DEF ClerkOK
<1> QED BY <1>1, <1>3, <1>4, <1>6, CAnswered DEF Ok

LEMMA CNextServer ==
    ASSUME CInv, NextServer
    PROVE  CInv'
<1>1. /\ ck.pc = "call" /\ Returned(ck.call) /\ ck' = [ck EXCEPT !.pc = "group", !.i = @ + 1, !.call = Nil]
      /\ TakeAnswer /\ acked' = acked /\ UNCHANGED cfgVars
  BY DEF NextServer
<1>2. ck \in Ck /\ ck.n \in 1..MaxOps /\ ck.i \in 1..N
  BY <1>1, CkFields, CServer
<1>3. ck.i + 1 \in 1..(N + 1) /\ ck.i + 1 \in 1..(N + NCtl) /\ ck.n # 0
  BY <1>2, Names
<1>4. ck' \in Ck /\ ck'.pc = "group" /\ ck'.call = Nil /\ ck'.n = ck.n /\ ck'.i = ck.i + 1
  BY <1>1, <1>2, <1>3 DEF Ck
<1>5. acked' \in [1..MaxOps -> GroupServer \cup {Nil}]
  BY <1>1, Types DEF CInv, Typed
<1>6. ClerkOK'
  BY <1>1, <1>2, <1>3, <1>4, Names DEF ClerkOK
<1> QED BY <1>1, <1>4, <1>5, <1>6, CAnswered

LEMMA CQueryReturns ==
    ASSUME CInv, QueryReturns
    PROVE  CInv'
<1>1. /\ ck.pc = "ask" /\ Ok /\ TakeAnswer /\ acked' = acked /\ UNCHANGED cfgVars
      /\ ck' = [ck EXCEPT !.pc = "group", !.i = 1, !.call = Nil, !.config = answer[ck.call].Config]
  BY DEF QueryReturns
<1>2. ck \in Ck /\ ck.n # 0 /\ ck.call \in Call /\ answer \in [Call -> Reply]
  BY <1>1, CkFields, Types DEF CInv, ClerkOK, Typed
<1>3. answer[ck.call].Config \in Configs
  BY <1>2 DEF Reply
<1>4. 1 \in 1..(N + NCtl) /\ 1 \in 1..(N + 1)
  BY Names
<1>5. ck' \in Ck /\ ck'.pc = "group" /\ ck'.call = Nil /\ ck'.n = ck.n /\ ck'.i = 1
  BY <1>1, <1>2, <1>3, <1>4 DEF Ck
<1>6. acked' \in [1..MaxOps -> GroupServer \cup {Nil}]
  BY <1>1, Types DEF CInv, Typed
<1>7. ClerkOK'
  BY <1>1, <1>2, <1>4, <1>5, Names DEF ClerkOK
<1> QED BY <1>1, <1>5, <1>6, <1>7, CAnswered DEF Ok

LEMMA CNextController ==
    ASSUME CInv, NextController
    PROVE  CInv'
<1>1. /\ ck.pc = "ask" /\ Returned(ck.call) /\ ck' = [ck EXCEPT !.pc = "query", !.i = (@ % NCtl) + 1, !.call = Nil]
      /\ TakeAnswer /\ acked' = acked /\ UNCHANGED cfgVars
  BY DEF NextController
<1>2. ck \in Ck /\ ck.n # 0 /\ ck.i \in 1..NCtl
  BY <1>1, CkFields DEF CInv, ClerkOK
<1>3. (ck.i % NCtl) + 1 \in 1..NCtl
  BY <1>2, Names
<1>4. (ck.i % NCtl) + 1 \in 1..(N + NCtl)
  BY <1>3, Names
<1>5. ck' \in Ck /\ ck'.pc = "query" /\ ck'.call = Nil /\ ck'.n = ck.n /\ ck'.i = (ck.i % NCtl) + 1
  BY <1>1, <1>2, <1>4 DEF Ck
<1>6. acked' \in [1..MaxOps -> GroupServer \cup {Nil}]
  BY <1>1, Types DEF CInv, Typed
<1>7. ClerkOK'
  BY <1>1, <1>2, <1>3, <1>5, Names DEF ClerkOK
<1> QED BY <1>1, <1>5, <1>6, <1>7, CAnswered

-----------------------------------------------------------------------------
(* The network and the handlers.                                           *)

\* The steps of processReq
LEMMA CarryCases ==
    ASSUME CInv, NEW c \in Call, Carry(c)
    PROVE  /\ UNCHANGED <<connections, enabled, servers, reliable, done, serving>>
           /\ pc' = [pc EXCEPT ![c] = pc'[c]]
           /\ \/ /\ pc[c] = "sent" /\ pc'[c] = "request" /\ handler' = handler
                 /\ servers[connections[req[c].end]] # Nil
                 /\ req' = [req EXCEPT ![c] = [end |-> req[c].end, name |-> connections[req[c].end],
                                               server |-> servers[connections[req[c].end]], reliable |-> reliable]]
              \/ /\ pc[c] \in {"sent", "request", "waiting", "replied"} /\ pc'[c] = "lost" /\ UNCHANGED <<req, handler>>
              \/ /\ pc[c] = "request" /\ pc'[c] = "waiting" /\ req' = req
                 /\ handler' = [handler EXCEPT ![c] = "running"]
              \/ /\ pc[c] = "waiting" /\ pc'[c] = "replied" /\ handler[c] = "done" /\ UNCHANGED <<req, handler>>
              \/ /\ pc[c] = "replied" /\ pc'[c] = "reply" /\ servers[req[c].name] = req[c].server
                 /\ UNCHANGED <<req, handler>>
              \/ /\ pc[c] = "reply" /\ pc'[c] = "true" /\ UNCHANGED <<req, handler>>
              \/ /\ pc[c] = "lost" /\ pc'[c] = "false" /\ UNCHANGED <<req, handler>>
<1>1. pc \in [Call -> Pc]
  BY Types DEF CInv, Typed
<1>2. \A label : Goto(c, label) => pc'[c] = label /\ pc' = [pc EXCEPT ![c] = pc'[c]]
  BY <1>1 DEF Goto
<1>3. CASE ReadEndnameInfo(c)
  BY <1>2, <1>3 DEF ReadEndnameInfo, adminVars
<1>4. CASE DropRequest(c)
  BY <1>2, <1>4 DEF DropRequest, adminVars
<1>5. CASE Dispatch(c)
  BY <1>2, <1>5 DEF Dispatch, adminVars
<1>6. CASE ReceiveReply(c)
  BY <1>2, <1>6 DEF ReceiveReply, adminVars
<1>7. CASE StopWaiting(c)
  BY <1>2, <1>7 DEF StopWaiting, adminVars
<1>8. CASE CheckReply(c)
  BY <1>2, <1>8 DEF CheckReply, IsServerDead, adminVars
<1>9. CASE CallReturnsTrue(c)
  BY <1>2, <1>9 DEF CallReturnsTrue, adminVars
<1>10. CASE CallReturnsFalse(c)
  BY <1>2, <1>10 DEF CallReturnsFalse, adminVars
<1> QED BY <1>3, <1>4, <1>5, <1>6, <1>7, <1>8, <1>9, <1>10 DEF Carry

\* A step of one call that neither ends it nor touches its connection
LEMMA CCallStep ==
    ASSUME CInv, NEW c \in Call,
           UNCHANGED <<connections, enabled, servers, reliable, done, serving, ck, carries, acked,
                       gen, kvservers, saved, task, steps>>,
           pc' \in [Call -> Pc], req' \in [Call -> Req], handler' \in [Call -> {"none", "running", "done"}],
           answer' \in [Call -> Reply], persister' \in [GroupServer -> [0..MaxGen -> SUBSET (0..MaxOps)]],
           \A d \in Call \ {c} : pc'[d] = pc[d] /\ req'[d] = req[d] /\ handler'[d] = handler[d],
           OthersOK(c)', CallOK(c)'
    PROVE  CInv'
<1>1. TypeOK'
  BY Types DEF CInv, Typed
<1>2. ClerkOK' /\ TaskOK' /\ CallsGroup'
  BY DEF CInv, ClerkOK, TaskOK, CallsGroup
<1>3. \A d \in Call \ {c} : OthersOK(d)' /\ CallOK(d)'
  BY DEF CInv, OthersOK, CallOK
<1> QED BY <1>1, <1>2, <1>3 DEF CInv

LEMMA CNetworkStep ==
    ASSUME CInv, NEW c \in Call, NetworkStep(c)
    PROVE  CInv'
<1>1. /\ Carry(c) /\ UNCHANGED <<ck, acked, carries, answer, gen, kvservers, saved, persister, task, steps>>
  BY DEF NetworkStep, clerkVars, replyVars, cfgVars
<1>2. UNCHANGED <<connections, enabled, servers, reliable, done, serving>> /\ pc' = [pc EXCEPT ![c] = pc'[c]]
  BY <1>1, CarryCases
<1>3. OthersOK(c) /\ CallOK(c)
  BY DEF CInv
<1>t. /\ connections \in [Call -> ServerName \cup {Nil}] /\ servers \in [ServerName -> Gen \cup {Nil}]
      /\ reliable \in BOOLEAN /\ pc \in [Call -> Pc] /\ req \in [Call -> Req]
      /\ handler \in [Call -> {"none", "running", "done"}] /\ answer \in [Call -> Reply]
      /\ persister \in [GroupServer -> [0..MaxGen -> SUBSET (0..MaxOps)]]
  BY Types DEF CInv, Typed
<1>p. pc'[c] \in Pc => pc' \in [Call -> Pc] /\ \A d \in Call \ {c} : pc'[d] = pc[d]
  BY <1>2, <1>t
<1>4. CASE /\ pc[c] = "sent" /\ pc'[c] = "request" /\ handler' = handler
           /\ servers[connections[req[c].end]] # Nil
           /\ req' = [req EXCEPT ![c] = [end |-> req[c].end, name |-> connections[req[c].end],
                                         server |-> servers[connections[req[c].end]], reliable |-> reliable]]
  <2>1. req[c].end = c /\ connections[c] \in ServerName /\ c = ck.call /\ handler[c] = "none"
    BY <1>3, <1>4 DEF OthersOK, CallOK
  <2>2. servers[connections[c]] \in Gen
    BY <1>4, <1>t, <2>1
  <2>3. [end |-> c, name |-> connections[c], server |-> servers[connections[c]], reliable |-> reliable] \in Req
    BY <1>t, <2>1, <2>2 DEF Req
  <2>4. /\ req' \in [Call -> Req] /\ req'[c].end = c /\ req'[c].name = connections[c]
        /\ req'[c].server = servers[connections[c]] /\ \A d \in Call \ {c} : req'[d] = req[d]
    BY <1>4, <1>t, <2>1, <2>3
  <2>5. pc' \in [Call -> Pc] /\ \A d \in Call \ {c} : pc'[d] = pc[d]
    BY <1>4, <1>p DEF Pc
  <2>6. OthersOK(c)' /\ CallOK(c)'
    BY <1>1, <1>2, <1>4, <2>1, <2>2, <2>4 DEF OthersOK, CallOK
  <2> QED BY <1>1, <1>2, <1>4, <1>t, <2>4, <2>5, <2>6, CCallStep
<1>5. CASE /\ pc[c] \in {"sent", "request", "waiting", "replied"} /\ pc'[c] = "lost" /\ UNCHANGED <<req, handler>>
  <2>1. pc' \in [Call -> Pc] /\ \A d \in Call \ {c} : pc'[d] = pc[d]
    BY <1>5, <1>p DEF Pc
  <2>2. OthersOK(c)' /\ CallOK(c)'
    BY <1>1, <1>2, <1>3, <1>5 DEF OthersOK, CallOK
  <2> QED BY <1>1, <1>2, <1>5, <1>t, <2>1, <2>2, CCallStep
<1>6. CASE /\ pc[c] = "request" /\ pc'[c] = "waiting" /\ req' = req
           /\ handler' = [handler EXCEPT ![c] = "running"]
  <2>1. pc' \in [Call -> Pc] /\ \A d \in Call \ {c} : pc'[d] = pc[d]
    BY <1>6, <1>p DEF Pc
  <2>2. /\ handler' \in [Call -> {"none", "running", "done"}] /\ handler'[c] = "running"
        /\ \A d \in Call \ {c} : handler'[d] = handler[d]
    BY <1>6, <1>t
  <2>3. OthersOK(c)' /\ CallOK(c)'
    BY <1>1, <1>2, <1>3, <1>6, <2>2 DEF OthersOK, CallOK
  <2> QED BY <1>1, <1>2, <1>6, <1>t, <2>1, <2>2, <2>3, CCallStep
<1>7. CASE /\ pc[c] = "waiting" /\ pc'[c] = "replied" /\ handler[c] = "done" /\ UNCHANGED <<req, handler>>
  <2>1. pc' \in [Call -> Pc] /\ \A d \in Call \ {c} : pc'[d] = pc[d]
    BY <1>7, <1>p DEF Pc
  <2>2. OthersOK(c)' /\ CallOK(c)'
    BY <1>1, <1>2, <1>3, <1>7 DEF OthersOK, CallOK
  <2> QED BY <1>1, <1>2, <1>7, <1>t, <2>1, <2>2, CCallStep
<1>8. CASE /\ \/ pc[c] = "replied" /\ pc'[c] = "reply"
              \/ pc[c] = "reply" /\ pc'[c] = "true"
              \/ pc[c] = "lost" /\ pc'[c] = "false"
           /\ UNCHANGED <<req, handler>>
  <2>1. pc' \in [Call -> Pc] /\ \A d \in Call \ {c} : pc'[d] = pc[d]
    BY <1>8, <1>p DEF Pc
  <2>2. OthersOK(c)' /\ CallOK(c)'
    BY <1>1, <1>2, <1>3, <1>8 DEF OthersOK, CallOK
  <2> QED BY <1>1, <1>2, <1>8, <1>t, <2>1, <2>2, CCallStep
<1> QED BY <1>1, <1>4, <1>5, <1>6, <1>7, <1>8, CarryCases

\* A Put recorded by instance g of server s
LEMMA RecordType ==
    ASSUME CInv, NEW s \in GroupServer, NEW g \in 0..MaxGen, NEW n \in 0..MaxOps
    PROVE  LET p == [persister EXCEPT ![s][g] = @ \cup {n}] IN
           /\ p \in [GroupServer -> [0..MaxGen -> SUBSET (0..MaxOps)]]
           /\ n \in p[s][g]
           /\ \A t \in GroupServer, h \in 0..MaxGen : persister[t][h] \subseteq p[t][h]
<1>1. persister \in [GroupServer -> [0..MaxGen -> SUBSET (0..MaxOps)]]
  BY Types DEF CInv, Typed
<1>2. persister[s] \in [0..MaxGen -> SUBSET (0..MaxOps)]
  BY <1>1
<1> DEFINE q == [persister[s] EXCEPT ![g] = @ \cup {n}]
<1>3. q \in [0..MaxGen -> SUBSET (0..MaxOps)] /\ n \in q[g] /\ \A h \in 0..MaxGen : persister[s][h] \subseteq q[h]
  BY <1>2
<1>4. [persister EXCEPT ![s][g] = @ \cup {n}] = [persister EXCEPT ![s] = q]
  OBVIOUS
<1> HIDE DEF q
<1> DEFINE p == [persister EXCEPT ![s] = q]
<1>5. p \in [GroupServer -> [0..MaxGen -> SUBSET (0..MaxOps)]] /\ p[s] = q
      /\ \A t \in GroupServer : t # s => p[t] = persister[t]
  BY <1>1, <1>3
<1>6. \A t \in GroupServer, h \in 0..MaxGen : persister[t][h] \subseteq p[t][h]
  BY <1>3, <1>5
<1> QED BY <1>3, <1>4, <1>5, <1>6

\* What a handler knows of its call
LEMMA RunningCall ==
    ASSUME CInv, NEW c \in Call, handler[c] # "none"
    PROVE  /\ req[c].name = connections[c] /\ req[c].server \in Gen /\ req[c].server \in 0..MaxGen
           /\ carries[c] \in 0..MaxOps
<1>1. CallOK(c) /\ carries \in [Call -> 0..MaxOps]
  BY Types DEF CInv, Typed
<1> QED BY <1>1, Names DEF CallOK

LEMMA CReplies ==
    ASSUME CInv, NEW c \in Call, HandlerReturns(c), c = ck.call, NEW reply \in Reply,
           answer' = [answer EXCEPT ![c] = reply],
           persister' \in [GroupServer -> [0..MaxGen -> SUBSET (0..MaxOps)]],
           UNCHANGED <<clerkVars, carries, gen, kvservers, saved, task, steps>>
    PROVE  CInv'
<1>1. /\ handler[c] = "running" /\ handler' = [handler EXCEPT ![c] = "done"]
      /\ UNCHANGED <<connections, enabled, servers, reliable, done, serving, pc, req, ck, acked>>
  BY DEF HandlerReturns, adminVars, clerkVars
<1>2. /\ pc \in [Call -> Pc] /\ req \in [Call -> Req] /\ handler \in [Call -> {"none", "running", "done"}]
      /\ answer \in [Call -> Reply]
  BY Types DEF CInv, Typed
<1>3. /\ handler' \in [Call -> {"none", "running", "done"}] /\ answer' \in [Call -> Reply] /\ handler'[c] = "done"
      /\ \A d \in Call \ {c} : handler'[d] = handler[d]
  BY <1>1, <1>2
<1>4. OthersOK(c)' /\ CallOK(c)'
  BY <1>1, <1>3 DEF CInv, OthersOK, CallOK
<1> QED BY <1>1, <1>2, <1>3, <1>4, CCallStep

LEMMA CHandleGroup ==
    ASSUME CInv, NEW c \in Call, NEW reply \in GroupReply, HandleGroup(c, reply)
    PROVE  CInv'
<1>1. /\ HandlerReturns(c) /\ c = ck.call /\ req[c].name \in GroupServer
      /\ answer' = [answer EXCEPT ![c] = reply]
      /\ persister' = IF reply.Err = "OK"
                      THEN [persister EXCEPT ![req[c].name][req[c].server] = @ \cup {carries[c]}]
                      ELSE persister
      /\ UNCHANGED <<clerkVars, carries, gen, kvservers, saved, task, steps>>
  BY DEF HandleGroup
<1>2. reply \in Reply
  BY ReplyTypes
<1>3. req[c].server \in 0..MaxGen /\ carries[c] \in 0..MaxOps
  BY <1>1, RunningCall DEF HandlerReturns
<1>4. persister \in [GroupServer -> [0..MaxGen -> SUBSET (0..MaxOps)]]
  BY Types DEF CInv, Typed
<1>5. persister' \in [GroupServer -> [0..MaxGen -> SUBSET (0..MaxOps)]]
  BY <1>1, <1>3, <1>4, RecordType
<1> QED BY <1>1, <1>2, <1>5, CReplies

LEMMA CHandleQuery ==
    ASSUME CInv, NEW c \in Call, NEW reply \in ControllerReply, HandleQuery(c, reply)
    PROVE  CInv'
<1>1. /\ HandlerReturns(c) /\ c = ck.call /\ answer' = [answer EXCEPT ![c] = reply]
      /\ UNCHANGED <<clerkVars, carries, gen, kvservers, saved, task, steps, persister>>
  BY DEF HandleQuery, cfgVars
<1>2. reply \in Reply
  BY ReplyTypes
<1>3. persister' \in [GroupServer -> [0..MaxGen -> SUBSET (0..MaxOps)]]
  BY <1>1, Types DEF CInv, Typed
<1> QED BY <1>1, <1>2, <1>3, CReplies

LEMMA CHandleLate ==
    ASSUME CInv, NEW c \in Call, NEW recorded \in BOOLEAN, HandleLate(c, recorded)
    PROVE  CInv'
<1>1. /\ handler[c] = "running" /\ c # ck.call /\ Forget(c)
      /\ persister' = IF recorded /\ req[c].name \in GroupServer
                      THEN [persister EXCEPT ![req[c].name][req[c].server] = @ \cup {carries[c]}]
                      ELSE persister
      /\ UNCHANGED <<ck, acked, gen, kvservers, saved, task, steps>>
  BY DEF HandleLate, clerkVars
<1>2. req[c].server \in 0..MaxGen /\ carries[c] \in 0..MaxOps
  BY <1>1, RunningCall
<1>3. persister \in [GroupServer -> [0..MaxGen -> SUBSET (0..MaxOps)]]
  BY Types DEF CInv, Typed
<1>4. persister' \in [GroupServer -> [0..MaxGen -> SUBSET (0..MaxOps)]]
  <2>1. CASE recorded /\ req[c].name \in GroupServer
    BY <1>1, <1>2, <2>1, RecordType
  <2>2. CASE ~(recorded /\ req[c].name \in GroupServer)
    BY <1>1, <1>3, <2>2
  <2> QED BY <2>1, <2>2
<1>5. /\ connections' \in [Call -> ServerName \cup {Nil}] /\ enabled' \in [Call -> BOOLEAN]
      /\ pc' \in [Call -> Pc] /\ req' \in [Call -> Req] /\ handler' \in [Call -> {"none", "running", "done"}]
      /\ carries' \in [Call -> 0..MaxOps] /\ answer' \in [Call -> Reply]
      /\ UNCHANGED <<servers, reliable, done, serving>>
      /\ pc'[c] = "idle" /\ connections'[c] = Nil /\ handler'[c] = "none"
      /\ \A d \in Call \ {c} : /\ pc'[d] = pc[d] /\ connections'[d] = connections[d] /\ req'[d] = req[d]
                               /\ handler'[d] = handler[d] /\ carries'[d] = carries[d]
  BY <1>1, ForgetCall
<1>6. TypeOK'
  BY <1>1, <1>4, <1>5, Types DEF CInv, Typed
<1>7. TaskOK'
  BY <1>1 DEF CInv, TaskOK
<1>8. ck.call \in Call => carries'[ck.call] = carries[ck.call] /\ connections'[ck.call] = connections[ck.call]
  BY <1>1, <1>5
<1>9. ClerkOK' /\ CallsGroup'
  BY <1>1, <1>8 DEF CInv, ClerkOK, CallsGroup
<1>10. ASSUME NEW d \in Call PROVE OthersOK(d)' /\ CallOK(d)'
  <2>1. OthersOK(d) /\ CallOK(d)
    BY DEF CInv
  <2>2. CASE d = c
    BY <1>5, <2>2 DEF OthersOK, CallOK
  <2>3. CASE d # c
    BY <1>1, <1>5, <2>1, <2>3 DEF OthersOK, CallOK
  <2> QED BY <2>2, <2>3
<1> QED BY <1>6, <1>7, <1>9, <1>10 DEF CInv

-----------------------------------------------------------------------------
(* The tester.                                                             *)

\* A step of the tester keeps the clerk and its calls
LEMMA CTesterStep ==
    ASSUME CInv,
           UNCHANGED <<connections, enabled, reliable, done, serving, callVars, clerkVars, replyVars>>,
           servers' \in [ServerName -> Gen \cup {Nil}],
           gen' \in [GroupServer -> Gen], kvservers' \in [GroupServer -> Gen \cup {Nil}],
           saved' \in [GroupServer -> 0..MaxGen],
           persister' \in [GroupServer -> [0..MaxGen -> SUBSET (0..MaxOps)]],
           steps' \in 0..MaxSteps, TaskOK'
    PROVE  CInv'
<1>1. UNCHANGED <<pc, req, handler, ck, acked, carries, answer>>
  BY DEF callVars, clerkVars, replyVars
<1>2. TypeOK'
  BY <1>1, Types DEF CInv, Typed
<1>3. ClerkOK' /\ CallsGroup'
  BY <1>1 DEF CInv, ClerkOK, CallsGroup
<1>4. \A c \in Call : OthersOK(c)' /\ CallOK(c)'
  BY <1>1 DEF CInv, OthersOK, CallOK
<1> QED BY <1>2, <1>3, <1>4 DEF CInv

LEMMA TesterTypes ==
    ASSUME CInv
    PROVE  /\ servers \in [ServerName -> Gen \cup {Nil}]
           /\ gen \in [GroupServer -> Gen] /\ kvservers \in [GroupServer -> Gen \cup {Nil}]
           /\ saved \in [GroupServer -> 0..MaxGen]
           /\ persister \in [GroupServer -> [0..MaxGen -> SUBSET (0..MaxOps)]]
           /\ steps \in 0..MaxSteps /\ GroupServer \subseteq ServerName
           /\ task \in [op : {"idle", "shutdown", "start"}, server : GroupServer \cup {Nil}, step : 0..3]
<1>1. GroupServer \subseteq ServerName
  BY Names
<1> QED BY <1>1, Types DEF CInv, Typed, TaskOK

\* Idle is no step of a restart
LEMMA IdleTask ==
    task' = Idle => TaskOK'
BY DEF Idle, TaskOK

\* The next step of ShutdownServer
LEMMA ThenTask ==
    ASSUME CInv, task.op = "shutdown", Then
    PROVE  /\ TaskOK' /\ task.server \in GroupServer
           /\ \/ task.step = 3 /\ task'.op = "idle"
              \/ task.step \in {1, 2} /\ task' = [task EXCEPT !.step = task.step + 1]
                 /\ task'.op = "shutdown" /\ task'.server = task.server /\ task'.step = task.step + 1
<1>1. /\ task \in [op : {"idle", "shutdown", "start"}, server : GroupServer \cup {Nil}, step : 0..3]
      /\ task.server \in GroupServer /\ task.step \in 1..3
  BY DEF CInv, TaskOK
<1>2. CASE task.step = 3
  BY <1>1, <1>2, IdleTask DEF Then, Idle
<1>3. CASE task.step # 3
  <2>1. task.step + 1 \in 0..3 /\ task.step + 1 \in 1..3 /\ task.step \in {1, 2}
    BY <1>1, <1>3
  <2>2. task' = [task EXCEPT !.step = task.step + 1]
    BY <1>3 DEF Then
  <2>3. /\ task' \in [op : {"idle", "shutdown", "start"}, server : GroupServer \cup {Nil}, step : 0..3]
        /\ task'.op = "shutdown" /\ task'.server = task.server /\ task'.step = task.step + 1
    BY <1>1, <2>1, <2>2
  <2>4. TaskOK'
    BY <1>1, <2>1, <2>3 DEF TaskOK
  <2> QED BY <1>1, <2>1, <2>2, <2>3, <2>4
<1> QED BY <1>2, <1>3

\* The steps of ShutdownServer, one at a time
LEMMA AtStep ==
    ASSUME CInv, task.op = "shutdown"
    PROVE  /\ At("delete") => task.step = 1
           /\ At("copy") => task.step = 2
           /\ At("kill") => task.step = 3
<1>1. task.step \in 1..3
  BY DEF CInv, TaskOK
<1>2. ShutdownSteps[1] = "delete" /\ ShutdownSteps[2] = "copy" /\ ShutdownSteps[3] = "kill"
  BY DEF ShutdownSteps
<1>3. task.step = 1 \/ task.step = 2 \/ task.step = 3
  BY <1>1
<1> QED BY <1>2, <1>3 DEF At

LEMMA CShutdownServer ==
    ASSUME CInv, NEW s \in GroupServer, ShutdownServer(s)
    PROVE  CInv'
<1>1. /\ steps < MaxSteps /\ task' = [op |-> "shutdown", server |-> s, step |-> 1] /\ steps' = steps + 1
      /\ UNCHANGED <<connections, enabled, servers, reliable, done, serving, callVars, clerkVars, replyVars,
                     gen, kvservers, saved, persister>>
  BY DEF ShutdownServer, netVars, adminVars
<1>2. TaskOK'
  BY <1>1 DEF TaskOK
<1>3. steps' \in 0..MaxSteps
  BY <1>1, TesterTypes, Names
<1> QED BY <1>1, <1>2, <1>3, TesterTypes, CTesterStep

LEMMA CShutdownDelete ==
    ASSUME CInv, ShutdownDelete
    PROVE  CInv'
<1>1. /\ task.op = "shutdown" /\ servers' = [servers EXCEPT ![task.server] = Nil] /\ Then
      /\ UNCHANGED <<connections, enabled, reliable, done, serving, callVars, clerkVars, replyVars,
                     gen, kvservers, saved, persister, steps>>
  BY DEF ShutdownDelete, At, DeleteServer
<1>2. TaskOK'
  BY <1>1, ThenTask
<1>3. servers' \in [ServerName -> Gen \cup {Nil}]
  BY <1>1, TesterTypes
<1> QED BY <1>1, <1>2, <1>3, TesterTypes, CTesterStep

\* A copy of the Persister the tester keeps
LEMMA CopyKeeps ==
    ASSUME CInv, NEW s \in GroupServer, NEW g \in 0..MaxGen
    PROVE  LET p == [persister EXCEPT ![s][g] = persister[s][saved[s]]] IN
           /\ p \in [GroupServer -> [0..MaxGen -> SUBSET (0..MaxOps)]]
           /\ p[s][g] = persister[s][saved[s]]
           /\ \A h \in 0..MaxGen : h # g => p[s][h] = persister[s][h]
           /\ \A t \in GroupServer : t # s => p[t] = persister[t]
<1>1. persister \in [GroupServer -> [0..MaxGen -> SUBSET (0..MaxOps)]] /\ saved \in [GroupServer -> 0..MaxGen]
  BY TesterTypes
<1>2. persister[s] \in [0..MaxGen -> SUBSET (0..MaxOps)] /\ saved[s] \in 0..MaxGen
  BY <1>1
<1> DEFINE q == [persister[s] EXCEPT ![g] = persister[s][saved[s]]]
<1>3. /\ q \in [0..MaxGen -> SUBSET (0..MaxOps)] /\ q[g] = persister[s][saved[s]]
      /\ \A h \in 0..MaxGen : h # g => q[h] = persister[s][h]
  BY <1>2
<1>4. [persister EXCEPT ![s][g] = persister[s][saved[s]]] = [persister EXCEPT ![s] = q]
  OBVIOUS
<1> HIDE DEF q
<1> QED BY <1>1, <1>3, <1>4

LEMMA CShutdownCopy ==
    ASSUME CInv, ShutdownCopy
    PROVE  CInv'
<1> DEFINE s == task.server
<1>1. /\ task.op = "shutdown" /\ Then
      /\ persister' = [persister EXCEPT ![s][0] = persister[s][saved[s]]]
      /\ saved' = [saved EXCEPT ![s] = 0]
      /\ UNCHANGED <<connections, enabled, servers, reliable, done, serving, callVars, clerkVars, replyVars,
                     gen, kvservers, steps>>
  BY DEF ShutdownCopy, At, netVars, adminVars
<1>2. TaskOK' /\ s \in GroupServer
  BY <1>1, ThenTask
<1>3. saved' \in [GroupServer -> 0..MaxGen] /\ persister' \in [GroupServer -> [0..MaxGen -> SUBSET (0..MaxOps)]]
  BY <1>1, <1>2, TesterTypes, CopyKeeps, Names
<1> QED BY <1>1, <1>2, <1>3, TesterTypes, CTesterStep

LEMMA CShutdownKill ==
    ASSUME CInv, ShutdownKill
    PROVE  CInv'
<1>1. /\ At("kill") /\ task.op = "shutdown" /\ Then
      /\ kvservers' = [kvservers EXCEPT ![task.server] = Nil]
      /\ UNCHANGED <<connections, enabled, servers, reliable, done, serving, callVars, clerkVars, replyVars,
                     gen, saved, persister, steps>>
  BY DEF ShutdownKill, At, netVars, adminVars
<1>2. TaskOK'
  BY <1>1, ThenTask
<1>3. kvservers' \in [GroupServer -> Gen \cup {Nil}]
  BY <1>1, TesterTypes
<1> QED BY <1>1, <1>2, <1>3, TesterTypes, CTesterStep

\* The new instance of a server
LEMMA NextGen ==
    ASSUME CInv, NEW s \in GroupServer, gen[s] < MaxGen
    PROVE  gen[s] \in Nat /\ gen[s] + 1 \in Gen /\ gen[s] + 1 \in 0..MaxGen
<1>1. gen[s] \in Gen
  BY TesterTypes
<1> QED BY <1>1, Names DEF Gen

LEMMA StartServerFacts ==
    ASSUME CInv, NEW s \in GroupServer, StartServer(s)
    PROVE  /\ steps < MaxSteps /\ kvservers[s] = Nil /\ gen[s] < MaxGen
           /\ gen' = [gen EXCEPT ![s] = gen[s] + 1] /\ gen'[s] = gen[s] + 1
           /\ persister' = [persister EXCEPT ![s][gen[s] + 1] = persister[s][saved[s]]]
           /\ saved' = [saved EXCEPT ![s] = gen[s] + 1]
           /\ kvservers' = [kvservers EXCEPT ![s] = gen[s] + 1]
           /\ task' = [op |-> "start", server |-> s, step |-> 1]
           /\ steps' = steps + 1
           /\ UNCHANGED <<connections, enabled, servers, reliable, done, serving, callVars, clerkVars, replyVars>>
<1>1. gen \in [GroupServer -> Gen]
  BY TesterTypes
<1>2. gen' = [gen EXCEPT ![s] = gen[s] + 1]
  BY DEF StartServer
<1>3. gen'[s] = gen[s] + 1
  BY <1>1, <1>2
<1> QED BY <1>2, <1>3 DEF StartServer, netVars, adminVars

LEMMA CStartServer ==
    ASSUME CInv, NEW s \in GroupServer, StartServer(s)
    PROVE  CInv'
<1> DEFINE g == gen[s] + 1
<1>1. /\ steps < MaxSteps /\ kvservers[s] = Nil /\ gen[s] < MaxGen
      /\ gen' = [gen EXCEPT ![s] = g]
      /\ persister' = [persister EXCEPT ![s][g] = persister[s][saved[s]]]
      /\ saved' = [saved EXCEPT ![s] = g] /\ kvservers' = [kvservers EXCEPT ![s] = g]
      /\ task' = [op |-> "start", server |-> s, step |-> 1] /\ steps' = steps + 1
      /\ UNCHANGED <<connections, enabled, servers, reliable, done, serving, callVars, clerkVars, replyVars>>
  BY StartServerFacts
<1>2. g \in Gen /\ g \in 0..MaxGen /\ g # Nil
  BY <1>1, NextGen, Names
<1> HIDE DEF g
<1>3. /\ gen' \in [GroupServer -> Gen] /\ saved' \in [GroupServer -> 0..MaxGen]
      /\ kvservers' \in [GroupServer -> Gen \cup {Nil}] /\ kvservers'[s] = g
  BY <1>1, <1>2, TesterTypes
<1>4. persister' \in [GroupServer -> [0..MaxGen -> SUBSET (0..MaxOps)]]
  BY <1>1, <1>2, CopyKeeps
<1>5. steps' \in 0..MaxSteps
  BY <1>1, TesterTypes, Names
<1>6. TaskOK'
  BY <1>1, <1>2, <1>3 DEF TaskOK
<1> QED BY <1>1, <1>3, <1>4, <1>5, <1>6, TesterTypes, CTesterStep

LEMMA CStartAdd ==
    ASSUME CInv, StartAdd
    PROVE  CInv'
<1>1. /\ task.op = "start" /\ servers' = [servers EXCEPT ![task.server] = gen[task.server]] /\ task' = Idle
      /\ UNCHANGED <<connections, enabled, reliable, done, serving, callVars, clerkVars, replyVars,
                     gen, kvservers, saved, persister, steps>>
  BY DEF StartAdd, AddServer
<1>2. task.server \in GroupServer
  BY <1>1 DEF CInv, TaskOK
<1>3. servers' \in [ServerName -> Gen \cup {Nil}]
  BY <1>1, <1>2, TesterTypes
<1> QED BY <1>1, <1>3, IdleTask, TesterTypes, CTesterStep

-----------------------------------------------------------------------------

LEMMA CNext == CInv /\ [Next]_vars => CInv'
<1> SUFFICES ASSUME CInv, [Next]_vars PROVE CInv'
  OBVIOUS
<1>1. CASE \E op \in {"Get", "Put"}, key \in Key : Operation(op, key)
  BY <1>1, COperation
<1>2. CASE Clerk
  BY <1>2, CTryServer, CNoServerLeft, CSend, CReturn, CWrongGroup, CNextServer, CQuery, CAskController,
     CQueryReturns, CNextController DEF Clerk
<1>3. CASE Tester
  BY <1>3, CShutdownServer, CStartServer, CShutdownDelete, CShutdownCopy, CShutdownKill, CStartAdd DEF Tester
<1>4. CASE \E c \in Call : NetworkStep(c) \/ Handle(c)
  BY <1>4, CNetworkStep, CHandleGroup, CHandleQuery, CHandleLate DEF Handle
<1>5. CASE UNCHANGED vars
  <2>1. UNCHANGED <<connections, enabled, servers, reliable, done, serving, pc, req, handler, ck, acked,
                    carries, answer, gen, kvservers, saved, persister, task, steps>>
    BY <1>5 DEF vars, netVars, adminVars, callVars, clerkVars, replyVars, cfgVars
  <2>2. TypeOK'
    BY <2>1, Types DEF CInv, Typed
  <2>3. TaskOK' /\ ClerkOK' /\ CallsGroup'
    BY <2>1 DEF CInv, TaskOK, ClerkOK, CallsGroup
  <2>4. \A c \in Call : OthersOK(c)' /\ CallOK(c)'
    BY <2>1 DEF CInv, OthersOK, CallOK
  <2> QED BY <2>2, <2>3, <2>4 DEF CInv
<1> QED BY <1>1, <1>2, <1>3, <1>4, <1>5 DEF Next

LEMMA CInvariant == Spec => []CInv
BY CInit, CNext, PTL DEF Spec

\* The clerk's position stays within its lists of servers, in whichever order the answers,
\* the failures and the restarts come (client.go:66-87, 101-120 and shardctrler/client.go):
\* the type invariant holds in every reachable state.
THEOREM SkTypeCorrect == Spec => []TypeOK
<1>1. CInv => TypeOK
  BY DEF CInv
<1> QED BY <1>1, CInvariant, PTL

-----------------------------------------------------------------------------
(* Durability.                                                             *)

\* A call knows an instance that was started
Bounded(c) ==
    (pc[c] = "request" \/ handler[c] # "none") /\ req[c].name \in GroupServer =>
        req[c].server <= gen[req[c].name]

\* An answer OK was recorded by the instance that gave it, and when the network has looked
\* at the server again and passed the answer on, in the Persister the tester keeps
Recorded(c) ==
    answer[c].Err = "OK" =>
        /\ handler[c] = "done" /\ req[c].name \in GroupServer
        /\ carries[c] \in persister[req[c].name][req[c].server]
        /\ pc[c] \in {"reply", "true"} => carries[c] \in persister[req[c].name][saved[req[c].name]]

\* The instance that is reachable has the Persister the tester keeps
ServerIsSaved ==
    \A s \in GroupServer :
        /\ servers[s] # Nil => servers[s] = saved[s] /\ servers[s] <= gen[s]
        /\ kvservers[s] = Nil => servers[s] = Nil

RestartSteps ==
    /\ task.op = "shutdown" /\ task.step \in {2, 3} => servers[task.server] = Nil
    /\ task.op = "start" => saved[task.server] = gen[task.server]

DInv ==
    /\ \A c \in Call : Bounded(c) /\ Recorded(c)
    /\ ServerIsSaved /\ RestartSteps /\ AckedIsDurable

LEMMA DInit == Init => DInv
<1> SUFFICES ASSUME Init PROVE DInv
  OBVIOUS
<1>1. \A c \in Call : Bounded(c) /\ Recorded(c)
  BY ReplyTypes DEF Init, NetworkRuns, Bounded, Recorded
<1>2. GroupServer \subseteq ServerName /\ 1 # Nil
  <2>1. 1 \in Gen
    BY Names DEF Gen
  <2> QED BY <2>1, Names
<1>3. ServerIsSaved
  BY <1>2 DEF Init, ServerIsSaved
<1>4. RestartSteps
  BY DEF Init, Idle, RestartSteps
<1>5. AckedIsDurable
  BY DEF Init, AckedIsDurable
<1> QED BY <1>1, <1>3, <1>4, <1>5 DEF DInv

\* No Persister has lost a Put
Grows == \A t \in GroupServer, h \in 0..MaxGen : persister[t][h] \subseteq persister'[t][h]

\* A call that a step leaves alone
LEMMA DSame ==
    ASSUME CInv, DInv, NEW d \in Call, UNCHANGED <<gen, saved>>, Grows,
           pc'[d] = pc[d], req'[d] = req[d], handler'[d] = handler[d], answer'[d] = answer[d], carries'[d] = carries[d]
    PROVE  Bounded(d)' /\ Recorded(d)'
<1>1. Bounded(d) /\ Recorded(d)
  BY DEF DInv
<1>2. Bounded(d)'
  BY <1>1 DEF Bounded
<1>3. ASSUME answer[d].Err = "OK"
      PROVE  req[d].name \in GroupServer /\ req[d].server \in 0..MaxGen /\ saved[req[d].name] \in 0..MaxGen
  <2>1. handler[d] = "done" /\ req[d].name \in GroupServer
    BY <1>1, <1>3 DEF Recorded
  <2>2. req[d].server \in 0..MaxGen
    BY <2>1, RunningCall
  <2> QED BY <2>1, <2>2, TesterTypes
<1>4. Recorded(d)'
  BY <1>1, <1>3 DEF Recorded, Grows
<1> QED BY <1>2, <1>4

LEMMA DAcked ==
    ASSUME CInv, DInv, UNCHANGED <<acked, saved>>, Grows
    PROVE  AckedIsDurable'
<1> SUFFICES ASSUME NEW n \in 1..MaxOps, acked[n] # Nil
             PROVE  n \in persister'[acked[n]][saved[acked[n]]]
  BY DEF AckedIsDurable
<1>1. acked[n] \in GroupServer
  BY Types DEF CInv, Typed
<1>2. saved[acked[n]] \in 0..MaxGen
  BY <1>1, TesterTypes
<1>3. n \in persister[acked[n]][saved[acked[n]]]
  BY DEF DInv, AckedIsDurable
<1> QED BY <1>1, <1>2, <1>3 DEF Grows

\* A step of one call
LEMMA DCallStep ==
    ASSUME CInv, DInv, NEW c \in Call, UNCHANGED <<servers, gen, kvservers, saved, task>>, Grows,
           \A d \in Call \ {c} : /\ pc'[d] = pc[d] /\ req'[d] = req[d] /\ handler'[d] = handler[d]
                                 /\ answer'[d] = answer[d] /\ carries'[d] = carries[d],
           Bounded(c)', Recorded(c)', AckedIsDurable'
    PROVE  DInv'
<1>1. \A d \in Call \ {c} : Bounded(d)' /\ Recorded(d)'
  BY DSame
<1>2. ServerIsSaved' /\ RestartSteps'
  BY DEF DInv, ServerIsSaved, RestartSteps
<1> QED BY <1>1, <1>2 DEF DInv

LEMMA DUnchanged ==
    ASSUME CInv, DInv, UNCHANGED <<servers, pc, req, handler, carries, answer, acked, gen, kvservers, saved, persister, task>>
    PROVE  DInv'
<1>1. Grows
  BY DEF Grows
<1>2. \A d \in Call : Bounded(d)' /\ Recorded(d)'
  BY <1>1, DSame
<1>3. ServerIsSaved' /\ RestartSteps'
  BY DEF DInv, ServerIsSaved, RestartSteps
<1> QED BY <1>1, <1>2, <1>3, DAcked DEF DInv

LEMMA DMakeEnd ==
    ASSUME CInv, DInv, NEW to, NEW n, NEW label, MakeEnd(to, n, label)
    PROVE  DInv'
<1>1. PICK c \in Call : c = (CHOOSE d \in Call : Free(d)) /\ Free(c)
  BY DEF MakeEnd
<1>2. /\ carries' = [carries EXCEPT ![c] = n]
      /\ UNCHANGED <<servers, pc, req, handler, acked, answer, gen, kvservers, saved, persister, task>>
  BY <1>1 DEF MakeEnd, callVars, cfgVars
<1>3. carries \in [Call -> 0..MaxOps]
  BY Types DEF CInv, Typed
<1>4. \A d \in Call \ {c} : carries'[d] = carries[d]
  BY <1>1, <1>2, <1>3
<1>5. pc[c] = "idle" /\ handler[c] = "none" /\ answer[c].Err # "OK"
  BY <1>1 DEF CInv, DInv, Free, CallOK, Recorded
<1>6. Bounded(c)' /\ Recorded(c)'
  BY <1>2, <1>5 DEF Bounded, Recorded
<1>7. Grows
  BY <1>2 DEF Grows
<1> QED BY <1>1, <1>2, <1>4, <1>6, <1>7, DAcked, DCallStep

LEMMA DSend ==
    ASSUME CInv, DInv, Send
    PROVE  DInv'
<1>0. PICK c \in Call : c = ck.call
  BY DEF Send, CInv, ClerkOK
<1>1. /\ ck.pc \in {"call", "ask"} /\ pc[c] = "idle"
      /\ req' = [req EXCEPT ![c].end = c] /\ pc' = [pc EXCEPT ![c] = "sent"]
      /\ UNCHANGED <<servers, handler, acked, carries, answer, gen, kvservers, saved, persister, task>>
  BY <1>0 DEF Send, CallSend, Goto, adminVars, clerkVars, replyVars, cfgVars
<1>2. c \in Call /\ pc \in [Call -> Pc] /\ req \in [Call -> Req]
  BY <1>1, Types DEF CInv, ClerkOK, Typed
<1>3. pc'[c] = "sent" /\ \A d \in Call \ {c} : pc'[d] = pc[d] /\ req'[d] = req[d]
  BY <1>1, <1>2
<1>4. handler[c] = "none" /\ answer[c].Err # "OK"
  BY <1>1, <1>2 DEF CInv, DInv, CallOK, Recorded
<1>5. Bounded(c)' /\ Recorded(c)'
  BY <1>1, <1>3, <1>4 DEF Bounded, Recorded
<1>6. Grows
  BY <1>1 DEF Grows
<1> QED BY <1>1, <1>2, <1>3, <1>5, <1>6, DAcked, DCallStep

\* The clerk has its answer
LEMMA DTaken ==
    ASSUME CInv, DInv, ck.pc \in {"call", "ask"}, TakeAnswer, UNCHANGED cfgVars, AckedIsDurable'
    PROVE  DInv'
<1>1. PICK c \in Call : c = ck.call
  BY DEF CInv, ClerkOK
<1>2. UNCHANGED <<gen, kvservers, saved, persister, task, steps>> /\ Grows
  BY DEF cfgVars, Grows
<1>3. CASE handler[c] = "running"
  <2>1. UNCHANGED <<servers, pc, req, handler, carries, answer>>
    BY <1>1, <1>3 DEF TakeAnswer, netVars, adminVars, callVars, replyVars
  <2>2. Bounded(c)' /\ Recorded(c)'
    BY <1>1, <1>2, <2>1, DSame
  <2> QED BY <1>1, <1>2, <2>1, <2>2, DCallStep
<1>4. CASE handler[c] # "running"
  <2>1. Forget(c)
    BY <1>1, <1>4 DEF TakeAnswer
  <2>2. /\ servers' = servers /\ pc'[c] = "idle" /\ handler'[c] = "none" /\ answer'[c] = NoReply
        /\ \A d \in Call \ {c} : /\ pc'[d] = pc[d] /\ req'[d] = req[d] /\ handler'[d] = handler[d]
                                 /\ answer'[d] = answer[d] /\ carries'[d] = carries[d]
    BY <1>1, <2>1, ForgetCall
  <2>3. Bounded(c)' /\ Recorded(c)'
    BY <2>2, ReplyTypes DEF Bounded, Recorded
  <2> QED BY <1>1, <1>2, <2>2, <2>3, DCallStep
<1> QED BY <1>3, <1>4

LEMMA DReturn ==
    ASSUME CInv, DInv, Return
    PROVE  DInv'
<1> DEFINE c == ck.call
<1>1. /\ ck.pc = "call" /\ Ok /\ Accepted
      /\ acked' = IF ck.op = "Put" THEN [acked EXCEPT ![ck.n] = connections[c]] ELSE acked
      /\ TakeAnswer /\ UNCHANGED cfgVars
  BY DEF Return, Accepted
<1>2. UNCHANGED <<saved, persister>> /\ Grows
  BY <1>1 DEF cfgVars, Grows
<1>3. c \in Call /\ ck.n \in 1..MaxOps /\ carries[c] = ck.n /\ acked \in [1..MaxOps -> GroupServer \cup {Nil}]
  BY <1>1, CServer, Types DEF CInv, ClerkOK, Typed
<1>4. ASSUME ck.op = "Put"
      PROVE  AckedIsDurable'
  <2>1. answer[c].Err = "OK" /\ pc[c] = "true"
    BY <1>1, <1>4 DEF Accepted, Ok, Err
  <2>2. handler[c] = "done" /\ ck.n \in persister[req[c].name][saved[req[c].name]]
    BY <1>3, <2>1 DEF DInv, Recorded
  <2>3. req[c].name = connections[c]
    BY <1>3, <2>2, RunningCall
  <2>4. acked'[ck.n] = connections[c] /\ \A n \in 1..MaxOps : n # ck.n => acked'[n] = acked[n]
    BY <1>1, <1>3, <1>4
  <2> QED BY <1>2, <2>2, <2>3, <2>4 DEF DInv, AckedIsDurable
<1>5. ASSUME ck.op # "Put"
      PROVE  AckedIsDurable'
  BY <1>1, <1>2, <1>5, DAcked
<1> QED BY <1>1, <1>4, <1>5, DTaken

\* The other steps of the clerk
LEMMA DClerk ==
    ASSUME CInv, DInv, Clerk
    PROVE  DInv'
<1>1. CASE TryServer \/ AskController
  BY <1>1, DMakeEnd DEF TryServer, AskController
<1>2. CASE NoServerLeft \/ Query
  BY <1>2, DUnchanged DEF NoServerLeft, Query, netVars, adminVars, callVars, replyVars, cfgVars
<1>3. CASE WrongGroup \/ NextServer \/ QueryReturns \/ NextController
  <2>1. /\ ck.pc \in {"call", "ask"} /\ TakeAnswer /\ acked' = acked /\ UNCHANGED cfgVars
    BY <1>3 DEF WrongGroup, NextServer, QueryReturns, NextController
  <2>2. saved' = saved /\ Grows
    BY <2>1 DEF cfgVars, Grows
  <2> QED BY <2>1, <2>2, DAcked, DTaken
<1> QED BY <1>1, <1>2, <1>3, DSend, DReturn DEF Clerk

LEMMA DNetworkStep ==
    ASSUME CInv, DInv, NEW c \in Call, NetworkStep(c)
    PROVE  DInv'
<1>1. /\ Carry(c) /\ UNCHANGED <<acked, carries, answer, gen, kvservers, saved, persister, task>>
  BY DEF NetworkStep, clerkVars, replyVars, cfgVars
<1>2. servers' = servers /\ pc' = [pc EXCEPT ![c] = pc'[c]]
  BY <1>1, CarryCases
<1>3. Grows /\ AckedIsDurable'
  <2>1. Grows
    BY <1>1 DEF Grows
  <2> QED BY <1>1, <2>1, DAcked
<1>4. Bounded(c) /\ Recorded(c) /\ CallOK(c)
  BY DEF CInv, DInv
<1>t. /\ connections \in [Call -> ServerName \cup {Nil}]
      /\ pc \in [Call -> Pc] /\ req \in [Call -> Req] /\ handler \in [Call -> {"none", "running", "done"}]
  BY Types DEF CInv, Typed
<1>5. \A d \in Call \ {c} : pc'[d] = pc[d]
  BY <1>2, <1>t
<1>6. ASSUME Bounded(c)', Recorded(c)', \A d \in Call \ {c} : req'[d] = req[d] /\ handler'[d] = handler[d]
      PROVE  DInv'
  BY <1>1, <1>2, <1>3, <1>5, <1>6, DCallStep
<1>7. CASE /\ pc[c] = "sent" /\ pc'[c] = "request" /\ handler' = handler
           /\ servers[connections[req[c].end]] # Nil
           /\ req' = [req EXCEPT ![c] = [end |-> req[c].end, name |-> connections[req[c].end],
                                         server |-> servers[connections[req[c].end]], reliable |-> reliable]]
  <2>1. handler[c] = "none" /\ answer[c].Err # "OK"
    BY <1>4, <1>7 DEF CallOK, Recorded
  <2>2. /\ req'[c].name = connections[req[c].end] /\ req'[c].server = servers[connections[req[c].end]]
        /\ \A d \in Call \ {c} : req'[d] = req[d]
    BY <1>7, <1>t
  <2>3. Bounded(c)'
    BY <1>1, <1>7, <2>2 DEF DInv, ServerIsSaved, Bounded
  <2>4. Recorded(c)'
    BY <1>1, <2>1 DEF Recorded
  <2> QED BY <1>6, <1>7, <2>2, <2>3, <2>4
<1>8. CASE /\ pc[c] \in {"sent", "request", "waiting", "replied"} /\ pc'[c] = "lost" /\ UNCHANGED <<req, handler>>
  <2>1. Bounded(c)' /\ Recorded(c)'
    BY <1>1, <1>4, <1>8 DEF Bounded, Recorded
  <2> QED BY <1>6, <1>8, <2>1
<1>9. CASE /\ pc[c] = "request" /\ pc'[c] = "waiting" /\ req' = req
           /\ handler' = [handler EXCEPT ![c] = "running"]
  <2>1. handler'[c] = "running" /\ \A d \in Call \ {c} : handler'[d] = handler[d]
    BY <1>9, <1>t
  <2>2. handler[c] = "none" /\ answer[c].Err # "OK"
    BY <1>4, <1>9 DEF CallOK, Recorded
  <2>3. Bounded(c)' /\ Recorded(c)'
    BY <1>1, <1>4, <1>9, <2>2 DEF Bounded, Recorded
  <2> QED BY <1>6, <1>9, <2>1, <2>3
<1>10. CASE /\ pc[c] = "waiting" /\ pc'[c] = "replied" /\ handler[c] = "done" /\ UNCHANGED <<req, handler>>
  <2>1. Bounded(c)' /\ Recorded(c)'
    BY <1>1, <1>4, <1>10 DEF Bounded, Recorded
  <2> QED BY <1>6, <1>10, <2>1
<1>11. CASE /\ pc[c] = "replied" /\ pc'[c] = "reply" /\ servers[req[c].name] = req[c].server
            /\ UNCHANGED <<req, handler>>
  <2>1. Bounded(c)'
    BY <1>1, <1>4, <1>11 DEF Bounded, CallOK
  <2>2. req[c].server \in Gen /\ req[c].server # Nil
    BY <1>4, <1>11, Names DEF CallOK
  <2>3. req[c].name \in GroupServer => req[c].server = saved[req[c].name]
    BY <1>11, <2>2 DEF DInv, ServerIsSaved
  <2>4. Recorded(c)'
    BY <1>1, <1>4, <1>11, <2>3 DEF Recorded
  <2> QED BY <1>6, <1>11, <2>1, <2>4
<1>12. CASE /\ \/ pc[c] = "reply" /\ pc'[c] = "true"
               \/ pc[c] = "lost" /\ pc'[c] = "false"
            /\ UNCHANGED <<req, handler>>
  <2>1. Bounded(c)' /\ Recorded(c)'
    BY <1>1, <1>4, <1>12 DEF Bounded, Recorded
  <2> QED BY <1>6, <1>12, <2>1
<1> QED BY <1>1, <1>7, <1>8, <1>9, <1>10, <1>11, <1>12, CarryCases

LEMMA DHandleGroup ==
    ASSUME CInv, DInv, NEW c \in Call, NEW reply \in GroupReply, HandleGroup(c, reply)
    PROVE  DInv'
<1>1. /\ handler[c] = "running" /\ req[c].name \in GroupServer
      /\ handler' = [handler EXCEPT ![c] = "done"] /\ answer' = [answer EXCEPT ![c] = reply]
      /\ persister' = IF reply.Err = "OK"
                      THEN [persister EXCEPT ![req[c].name][req[c].server] = @ \cup {carries[c]}]
                      ELSE persister
      /\ UNCHANGED <<servers, pc, req, acked, carries, gen, kvservers, saved, task>>
  BY DEF HandleGroup, HandlerReturns, adminVars, clerkVars
<1>2. req[c].server \in 0..MaxGen /\ carries[c] \in 0..MaxOps
  BY <1>1, RunningCall
<1>3. Grows /\ (reply.Err = "OK" => carries[c] \in persister'[req[c].name][req[c].server])
  <2>1. CASE reply.Err = "OK"
    BY <1>1, <1>2, <2>1, RecordType DEF Grows
  <2>2. CASE reply.Err # "OK"
    BY <1>1, <2>2 DEF Grows
  <2> QED BY <2>1, <2>2
<1>4. /\ handler'[c] = "done" /\ answer'[c] = reply
      /\ \A d \in Call \ {c} : handler'[d] = handler[d] /\ answer'[d] = answer[d]
  BY <1>1, Types DEF CInv, Typed
<1>5. pc[c] \notin {"reply", "true"} /\ Bounded(c)
  BY <1>1 DEF CInv, DInv, CallOK
<1>6. Bounded(c)' /\ Recorded(c)'
  BY <1>1, <1>3, <1>4, <1>5 DEF Bounded, Recorded
<1> QED BY <1>1, <1>3, <1>4, <1>6, DAcked, DCallStep

LEMMA DHandleQuery ==
    ASSUME CInv, DInv, NEW c \in Call, NEW reply \in ControllerReply, HandleQuery(c, reply)
    PROVE  DInv'
<1>1. /\ handler[c] = "running"
      /\ handler' = [handler EXCEPT ![c] = "done"] /\ answer' = [answer EXCEPT ![c] = reply]
      /\ UNCHANGED <<servers, pc, req, acked, carries, gen, kvservers, saved, persister, task>>
  BY DEF HandleQuery, HandlerReturns, adminVars, clerkVars, cfgVars
<1>2. Grows
  BY <1>1 DEF Grows
<1>3. /\ handler'[c] = "done" /\ answer'[c] = reply /\ reply.Err = ""
      /\ \A d \in Call \ {c} : handler'[d] = handler[d] /\ answer'[d] = answer[d]
  BY <1>1, ReplyTypes, Types DEF CInv, Typed
<1>4. Bounded(c)' /\ Recorded(c)'
  BY <1>1, <1>3 DEF DInv, Bounded, Recorded
<1> QED BY <1>1, <1>2, <1>3, <1>4, DAcked, DCallStep

LEMMA DHandleLate ==
    ASSUME CInv, DInv, NEW c \in Call, NEW recorded \in BOOLEAN, HandleLate(c, recorded)
    PROVE  DInv'
<1>1. /\ handler[c] = "running" /\ Forget(c)
      /\ persister' = IF recorded /\ req[c].name \in GroupServer
                      THEN [persister EXCEPT ![req[c].name][req[c].server] = @ \cup {carries[c]}]
                      ELSE persister
      /\ UNCHANGED <<acked, gen, kvservers, saved, task>>
  BY DEF HandleLate, clerkVars
<1>2. req[c].server \in 0..MaxGen /\ carries[c] \in 0..MaxOps
  BY <1>1, RunningCall
<1>3. Grows
  <2>1. CASE recorded /\ req[c].name \in GroupServer
    BY <1>1, <1>2, <2>1, RecordType DEF Grows
  <2>2. CASE ~(recorded /\ req[c].name \in GroupServer)
    BY <1>1, <2>2 DEF Grows
  <2> QED BY <2>1, <2>2
<1>4. /\ servers' = servers /\ pc'[c] = "idle" /\ handler'[c] = "none" /\ answer'[c] = NoReply
      /\ \A d \in Call \ {c} : /\ pc'[d] = pc[d] /\ req'[d] = req[d] /\ handler'[d] = handler[d]
                               /\ answer'[d] = answer[d] /\ carries'[d] = carries[d]
  BY <1>1, ForgetCall
<1>5. Bounded(c)' /\ Recorded(c)'
  BY <1>4, ReplyTypes DEF Bounded, Recorded
<1> QED BY <1>1, <1>3, <1>4, <1>5, DAcked, DCallStep

\* A step of the tester that touches no Persister
LEMMA DTesterStep ==
    ASSUME CInv, DInv, UNCHANGED <<callVars, replyVars, acked, gen, saved, persister>>,
           ServerIsSaved', RestartSteps'
    PROVE  DInv'
<1>1. UNCHANGED <<pc, req, handler, carries, answer>> /\ Grows
  BY DEF callVars, replyVars, Grows
<1> QED BY <1>1, DSame, DAcked DEF DInv

LEMMA DShutdownServer ==
    ASSUME CInv, DInv, NEW s \in GroupServer, ShutdownServer(s)
    PROVE  DInv'
<1>1. /\ task' = [op |-> "shutdown", server |-> s, step |-> 1]
      /\ UNCHANGED <<servers, kvservers, callVars, replyVars, acked, gen, saved, persister>>
  BY DEF ShutdownServer, netVars, adminVars, clerkVars
<1>2. ServerIsSaved' /\ RestartSteps'
  BY <1>1 DEF DInv, ServerIsSaved, RestartSteps
<1> QED BY <1>1, <1>2, DTesterStep

LEMMA DShutdownDelete ==
    ASSUME CInv, DInv, ShutdownDelete
    PROVE  DInv'
<1>1. /\ task.op = "shutdown" /\ servers' = [servers EXCEPT ![task.server] = Nil] /\ Then
      /\ UNCHANGED <<kvservers, callVars, replyVars, acked, gen, saved, persister>>
  BY DEF ShutdownDelete, At, DeleteServer, clerkVars
<1>2. /\ task.server \in GroupServer
      /\ \/ task'.op = "idle"
         \/ task'.op = "shutdown" /\ task'.server = task.server
  BY <1>1, ThenTask
<1>3. servers'[task.server] = Nil /\ \A t \in GroupServer : t # task.server => servers'[t] = servers[t]
  BY <1>1, <1>2, TesterTypes
<1>4. ServerIsSaved'
  BY <1>1, <1>3 DEF DInv, ServerIsSaved
<1>5. RestartSteps'
  BY <1>2, <1>3 DEF RestartSteps
<1> QED BY <1>1, <1>4, <1>5, DTesterStep

LEMMA DShutdownKill ==
    ASSUME CInv, DInv, ShutdownKill
    PROVE  DInv'
<1>1. /\ At("kill") /\ task.op = "shutdown" /\ Then
      /\ kvservers' = [kvservers EXCEPT ![task.server] = Nil]
      /\ UNCHANGED <<servers, callVars, replyVars, acked, gen, saved, persister>>
  BY DEF ShutdownKill, At, netVars, adminVars, clerkVars
<1>2. task.step = 3 /\ task.server \in GroupServer /\ task'.op = "idle"
  BY <1>1, AtStep, ThenTask
<1>3. servers[task.server] = Nil
  BY <1>1, <1>2 DEF DInv, RestartSteps
<1>4. \A t \in GroupServer : t # task.server => kvservers'[t] = kvservers[t]
  BY <1>1, <1>2, TesterTypes
<1>5. ServerIsSaved' /\ RestartSteps'
  BY <1>1, <1>2, <1>3, <1>4 DEF DInv, ServerIsSaved, RestartSteps
<1> QED BY <1>1, <1>5, DTesterStep

LEMMA DStartAdd ==
    ASSUME CInv, DInv, StartAdd
    PROVE  DInv'
<1>1. /\ task.op = "start" /\ servers' = [servers EXCEPT ![task.server] = gen[task.server]] /\ task' = Idle
      /\ UNCHANGED <<kvservers, callVars, replyVars, acked, gen, saved, persister>>
  BY DEF StartAdd, AddServer, clerkVars
<1>2. task.server \in GroupServer /\ kvservers[task.server] # Nil /\ saved[task.server] = gen[task.server]
  BY <1>1 DEF CInv, DInv, TaskOK, RestartSteps
<1>3. gen[task.server] <= gen[task.server]
  <2>1. gen[task.server] \in Nat
    BY <1>2, TesterTypes, Names
  <2> QED BY <2>1
<1>4. /\ servers'[task.server] = gen[task.server]
      /\ \A t \in GroupServer : t # task.server => servers'[t] = servers[t]
  BY <1>1, <1>2, TesterTypes
<1>5. ServerIsSaved'
  BY <1>1, <1>2, <1>3, <1>4 DEF DInv, ServerIsSaved
<1>6. RestartSteps'
  BY <1>1 DEF Idle, RestartSteps
<1> QED BY <1>1, <1>5, <1>6, DTesterStep

\* The tester keeps a copy of the Persister it kept, under a number g that no running
\* handler writes to: 0, or that of the next instance
LEMMA DCopy ==
    ASSUME CInv, DInv, NEW s \in GroupServer, NEW g \in 0..MaxGen,
           persister' = [persister EXCEPT ![s][g] = persister[s][saved[s]]], saved' = [saved EXCEPT ![s] = g],
           g \notin Gen \/ g > gen[s], gen' \in [GroupServer -> Gen], \A t \in GroupServer : gen[t] <= gen'[t],
           UNCHANGED <<callVars, replyVars, acked>>
    PROVE  AckedIsDurable' /\ \A c \in Call : Bounded(c)' /\ Recorded(c)'
<1>1. UNCHANGED <<pc, req, handler, carries, answer>>
  BY DEF callVars, replyVars
<1>2. saved'[s] = g /\ \A t \in GroupServer : t # s => saved'[t] = saved[t]
  BY TesterTypes
<1>3. /\ persister'[s][g] = persister[s][saved[s]]
      /\ \A h \in 0..MaxGen : h # g => persister'[s][h] = persister[s][h]
      /\ \A t \in GroupServer : t # s => persister'[t] = persister[t]
  BY CopyKeeps
<1>4. \A t \in GroupServer : persister'[t][saved'[t]] = persister[t][saved[t]]
  BY <1>2, <1>3
<1>5. AckedIsDurable'
  <2>1. \A n \in 1..MaxOps : acked[n] # Nil => acked[n] \in GroupServer
    BY Types DEF CInv, Typed
  <2> QED BY <1>4, <2>1 DEF DInv, AckedIsDurable
<1>6. ASSUME NEW c \in Call PROVE Bounded(c)' /\ Recorded(c)'
  <2>1. Bounded(c) /\ Recorded(c)
    BY DEF DInv
  <2>2. ASSUME pc[c] = "request" \/ handler[c] # "none", req[c].name \in GroupServer
        PROVE  req[c].server <= gen'[req[c].name]
    <3>1. req[c].server \in Gen
      BY <2>2 DEF CInv, CallOK
    <3>2. req[c].server \in Nat /\ gen[req[c].name] \in Nat /\ gen'[req[c].name] \in Nat
      BY <2>2, <3>1, TesterTypes, Names
    <3> QED BY <2>1, <2>2, <3>2 DEF Bounded
  <2>3. Bounded(c)'
    BY <1>1, <2>2 DEF Bounded
  <2>4. ASSUME answer[c].Err = "OK"
        PROVE  persister'[req[c].name][req[c].server] = persister[req[c].name][req[c].server]
    <3>1. handler[c] = "done" /\ req[c].name \in GroupServer
      BY <2>1, <2>4 DEF Recorded
    <3>2. req[c].server \in Gen /\ req[c].server \in 0..MaxGen /\ req[c].server <= gen[req[c].name]
      BY <2>1, <3>1, RunningCall DEF Bounded
    <3>3. CASE req[c].name = s
      <4>1. gen[s] \in Nat /\ req[c].server \in Nat
        BY <3>2, TesterTypes, Names
      <4>2. req[c].server # g
        BY <3>2, <3>3, <4>1
      <4> QED BY <1>3, <3>2, <3>3, <4>2
    <3>4. CASE req[c].name # s
      BY <1>3, <3>1, <3>4
    <3> QED BY <3>3, <3>4
  <2>5. Recorded(c)'
    BY <1>1, <1>4, <2>1, <2>4 DEF Recorded
  <2> QED BY <2>3, <2>5
<1> QED BY <1>5, <1>6

LEMMA DShutdownCopy ==
    ASSUME CInv, DInv, ShutdownCopy
    PROVE  DInv'
<1>1. PICK s \in GroupServer : s = task.server
  BY DEF ShutdownCopy, At, CInv, TaskOK
<1>2. /\ At("copy") /\ task.op = "shutdown" /\ Then
      /\ persister' = [persister EXCEPT ![s][0] = persister[s][saved[s]]]
      /\ saved' = [saved EXCEPT ![s] = 0]
      /\ UNCHANGED <<servers, kvservers, gen, callVars, replyVars, acked>>
  BY <1>1 DEF ShutdownCopy, At, netVars, adminVars, clerkVars
<1>3. task.step = 2 /\ task'.op = "shutdown" /\ task'.server = s
  BY <1>1, <1>2, AtStep, ThenTask
<1>4. servers[s] = Nil
  BY <1>1, <1>2, <1>3 DEF DInv, RestartSteps
<1>5. \A t \in GroupServer : gen[t] <= gen[t]
  <2>1. \A t \in GroupServer : gen[t] \in Nat
    BY TesterTypes, Names
  <2> QED BY <2>1
<1>6. AckedIsDurable' /\ \A c \in Call : Bounded(c)' /\ Recorded(c)'
  <2>1. 0 \in 0..MaxGen /\ 0 \notin Gen
    BY Names
  <2>2. gen' \in [GroupServer -> Gen] /\ \A t \in GroupServer : gen[t] <= gen'[t]
    BY <1>2, <1>5, TesterTypes
  <2>3. UNCHANGED <<callVars, replyVars, acked>>
    BY <1>2
  <2> QED BY <1>2, <2>1, <2>2, <2>3, DCopy
<1>7. \A t \in GroupServer : t # s => saved'[t] = saved[t]
  BY <1>2, TesterTypes
<1>8. ServerIsSaved' /\ RestartSteps'
  BY <1>2, <1>3, <1>4, <1>7 DEF DInv, ServerIsSaved, RestartSteps
<1> QED BY <1>6, <1>8 DEF DInv

LEMMA DStartServer ==
    ASSUME CInv, DInv, NEW s \in GroupServer, StartServer(s)
    PROVE  DInv'
<1>1. PICK g : g = gen[s] + 1
  OBVIOUS
<1>2. /\ kvservers[s] = Nil /\ gen[s] < MaxGen
      /\ gen' = [gen EXCEPT ![s] = g]
      /\ persister' = [persister EXCEPT ![s][g] = persister[s][saved[s]]]
      /\ saved' = [saved EXCEPT ![s] = g] /\ kvservers' = [kvservers EXCEPT ![s] = g]
      /\ task' = [op |-> "start", server |-> s, step |-> 1]
      /\ UNCHANGED <<servers, callVars, replyVars, acked>>
  BY <1>1, StartServerFacts DEF clerkVars
<1>3. g \in Gen /\ g \in 0..MaxGen /\ g > gen[s]
  BY <1>1, <1>2, NextGen
<1>4. /\ gen' \in [GroupServer -> Gen] /\ gen'[s] = g /\ saved'[s] = g
      /\ \A t \in GroupServer : t # s => gen'[t] = gen[t] /\ saved'[t] = saved[t] /\ kvservers'[t] = kvservers[t]
  BY <1>2, <1>3, TesterTypes
<1>5. \A t \in GroupServer : gen[t] <= gen'[t]
  <2>1. \A t \in GroupServer : gen[t] \in Nat
    BY TesterTypes, Names
  <2>2. g \in Nat
    BY <1>3, Names
  <2> QED BY <1>3, <1>4, <2>1, <2>2
<1>6. AckedIsDurable' /\ \A c \in Call : Bounded(c)' /\ Recorded(c)'
  BY <1>2, <1>3, <1>4, <1>5, DCopy
<1>7. servers[s] = Nil
  BY <1>2 DEF DInv, ServerIsSaved
<1>8. ServerIsSaved'
  BY <1>2, <1>4, <1>7 DEF DInv, ServerIsSaved
<1>9. RestartSteps'
  BY <1>2, <1>4 DEF RestartSteps
<1> QED BY <1>6, <1>8, <1>9 DEF DInv

LEMMA DNext == CInv /\ DInv /\ [Next]_vars => DInv'
<1> SUFFICES ASSUME CInv, DInv, [Next]_vars PROVE DInv'
  OBVIOUS
<1>1. CASE \E op \in {"Get", "Put"}, key \in Key : Operation(op, key)
  BY <1>1, DUnchanged DEF Operation, netVars, adminVars, callVars, replyVars, cfgVars
<1>2. CASE Clerk
  BY <1>2, DClerk
<1>3. CASE Tester
  BY <1>3, DShutdownServer, DStartServer, DShutdownDelete, DShutdownCopy, DShutdownKill, DStartAdd DEF Tester
<1>4. CASE \E c \in Call : NetworkStep(c) \/ Handle(c)
  BY <1>4, DNetworkStep, DHandleGroup, DHandleQuery, DHandleLate DEF Handle
<1>5. CASE UNCHANGED vars
  BY <1>5, DUnchanged DEF vars, netVars, adminVars, callVars, clerkVars, replyVars, cfgVars
<1> QED BY <1>1, <1>2, <1>3, <1>4, <1>5 DEF Next

\* A Put that was acknowledged is in the Persister the next instance of the server is
\* given, whenever the server is shut down and started again: ShutdownServer takes the
\* server off the network before it copies the Persister, and the network passes no answer
\* on of a server that is gone (config.go:162-201, labrpc.go:263-276).
THEOREM SkDurable == Spec => []AckedIsDurable
<1>1. DInv => AckedIsDurable
  BY DEF DInv
<1>2. Spec => []DInv
  BY DInit, DNext, CInvariant, PTL DEF Spec
<1> QED BY <1>1, <1>2, PTL

=============================================================================
