---------------------------- MODULE KvSrvProofs ----------------------------
(***************************************************************************)
(* Proofs about KvSrv: its types, that server and clerk stay in sequence,  *)
(* and that it implements KvAbstract.                                      *)
(***************************************************************************)
EXTENDS KvSrv, TLAPS, SequenceTheorems

\* A call under way has arguments, the reply on its way is what the record holds, and
\* a Get has a reply on its way only after it was executed.
CallState(c) ==
    /\ pc[c] # "idle" => args[c] \in Args
    /\ pc[c] = "idle" => args[c] = Nil
    /\ pc[c] = "executed" => wire[c] = record[c]
    /\ getPc[c] # "idle" => getKey[c] \in Key
    /\ getPc[c] # "executed" => getWire[c] = <<>>

KInv == TypeOK /\ InSequence /\ \A c \in Client : CallState(c)

\* What one client's step must establish for the invariant of all clients.
LEMMA OneClient ==
    ASSUME KInv, NEW c \in Client,
           TypeOK',
           IF pc'[c] \in {"call", "failed"} THEN lastSeq'[c] \in {seq'[c] - 1, seq'[c]}
             ELSE lastSeq'[c] = seq'[c],
           CallState(c)',
           \A d \in Client \ {c} :
             /\ lastSeq'[d] = lastSeq[d] /\ record'[d] = record[d] /\ seq'[d] = seq[d]
             /\ pc'[d] = pc[d] /\ args'[d] = args[d] /\ wire'[d] = wire[d]
             /\ getPc'[d] = getPc[d] /\ getKey'[d] = getKey[d] /\ getWire'[d] = getWire[d]
    PROVE  KInv'
<1>1. \A d \in Client \ {c} : CallState(d)'
  BY DEF KInv, CallState
<1>2. InSequence'
  BY DEF KInv, InSequence
<1> QED BY <1>1, <1>2 DEF KInv

LEMMA KInit == Init => KInv
<1> SUFFICES ASSUME Init PROVE KInv
  OBVIOUS
<1>1. <<>> \in Seq(Token) /\ 0 \in 0..MaxSeq
  BY MaxSeqAssumption, EmptySeq
<1>2. TypeOK
  BY <1>1 DEF Init, TypeOK
<1> QED BY <1>2 DEF Init, KInv, InSequence, CallState

\* The strings the server answers and stores are strings.
LEMMA StringType ==
    ASSUME TypeOK, NEW a \in Args
    PROVE  Answer(a) \in Seq(Token) /\ Stored(a) \in Seq(Token)
<1>1. a.Value \in Seq(Token) /\ value[a.Key] \in Seq(Token)
  BY TextAssumption DEF TypeOK, Args
<1>2. value[a.Key] \o a.Value \in Seq(Token)
  BY <1>1, ConcatProperties
<1> QED BY <1>1, <1>2 DEF Answer, Stored

LEMMA KNext == KInv /\ [Next]_vars => KInv'
<1> SUFFICES ASSUME KInv, [Next]_vars PROVE KInv'
  OBVIOUS
<1>0. TypeOK /\ InSequence /\ (\A c \in Client : CallState(c)) /\ MaxSeq \in Nat
  BY MaxSeqAssumption DEF KInv
<1>e. <<>> \in Seq(Token)
  BY EmptySeq
<1>1. ASSUME NEW c \in Client, NEW a \in Args, PutAppend(c, a) PROVE KInv'
  <2>0. seq[c] \in 0..MaxSeq /\ seq[c] + 1 \in 0..MaxSeq
    BY <1>0, <1>1 DEF PutAppend, TypeOK
  <2>a. seq' \in [Client -> 0..MaxSeq] /\ args' \in [Client -> Args \cup {Nil}]
    BY <1>0, <1>1, <2>0 DEF PutAppend, TypeOK
  <2>1. TypeOK'
    BY <1>0, <1>1, <2>a DEF PutAppend, TypeOK, serverVars, getVars
  <2>2. lastSeq'[c] = seq'[c] - 1 /\ pc'[c] = "call"
    <3>1. lastSeq[c] = seq[c] /\ pc[c] = "idle"
      BY <1>0, <1>1 DEF PutAppend, InSequence
    <3>2. seq'[c] = seq[c] + 1 /\ pc'[c] = "call" /\ lastSeq' = lastSeq
      BY <1>0, <1>1 DEF PutAppend, TypeOK, serverVars
    <3> QED BY <2>0, <3>1, <3>2
  <2>3. CallState(c)'
    BY <1>0, <1>1 DEF PutAppend, TypeOK, CallState, serverVars, getVars
  <2> QED BY <1>1, <2>1, <2>2, <2>3, OneClient DEF PutAppend, TypeOK, KInv, serverVars, getVars
<1>2. ASSUME NEW c \in Client, Execute(c) PROVE KInv'
  <2>0. args[c] \in Args /\ pc[c] = "call"
    BY <1>0, <1>2 DEF CallState, Execute
  <2>1. Answer(args[c]) \in Seq(Token) /\ Stored(args[c]) \in Seq(Token)
    BY <1>0, <2>0, StringType
  <2>2. lastSeq[c] \in {seq[c] - 1, seq[c]} /\ seq[c] \in 0..MaxSeq /\ lastSeq[c] \in 0..MaxSeq
    BY <1>0, <2>0 DEF InSequence, TypeOK
  <2>3. CASE Duplicate(c, seq[c])
    <3>1. TypeOK'
      BY <1>0, <1>2, <2>3 DEF Execute, TypeOK, serverVars, getVars
    <3>2. lastSeq'[c] = seq'[c] /\ pc'[c] = "executed"
      BY <1>0, <1>2, <2>2, <2>3 DEF Execute, TypeOK, Duplicate, serverVars
    <3>3. CallState(c)'
      BY <1>0, <1>2, <2>0, <2>3 DEF Execute, TypeOK, CallState, serverVars, getVars
    <3>4. UNCHANGED <<lastSeq, record, seq, args, getPc, getKey, getWire>>
      BY <1>2, <2>3 DEF Execute, serverVars, getVars
    <3>5. \A d \in Client \ {c} : pc'[d] = pc[d] /\ wire'[d] = wire[d]
      BY <1>0, <1>2, <2>3 DEF Execute, TypeOK
    <3> QED BY <3>1, <3>2, <3>3, <3>4, <3>5, OneClient
  <2>4. CASE ~Duplicate(c, seq[c])
    <3>0. lastSeq[c] + 1 = seq[c]
      BY <2>2, <2>4 DEF Duplicate
    <3>1. /\ wire' = [wire EXCEPT ![c] = Answer(args[c])]
          /\ lastSeq' = [lastSeq EXCEPT ![c] = seq[c]]
          /\ record' = [record EXCEPT ![c] = Answer(args[c])]
          /\ value' = [value EXCEPT ![args[c].Key] = Stored(args[c])]
          /\ pc' = [pc EXCEPT ![c] = "executed"]
          /\ UNCHANGED <<seq, args, reply, getVars>>
      BY <1>2, <2>4, <3>0 DEF Execute
    <3>2. TypeOK'
      BY <1>0, <2>1, <2>2, <3>1 DEF TypeOK, getVars
    <3>3. lastSeq'[c] = seq'[c] /\ pc'[c] = "executed"
      BY <1>0, <3>1 DEF TypeOK
    <3>4. CallState(c)'
      BY <1>0, <2>0, <3>1 DEF TypeOK, CallState, getVars
    <3> QED BY <3>1, <3>2, <3>3, <3>4, OneClient DEF TypeOK, KInv, getVars
  <2> QED BY <2>3, <2>4
<1>3. ASSUME NEW c \in Client, CallFails(c) PROVE KInv'
  <2>1. TypeOK'
    BY <1>0, <1>3, <1>e DEF CallFails, TypeOK, serverVars, getVars
  <2>2. lastSeq'[c] \in {seq'[c] - 1, seq'[c]} /\ pc'[c] = "failed"
    BY <1>0, <1>3 DEF CallFails, TypeOK, InSequence, serverVars
  <2>3. CallState(c)'
    BY <1>0, <1>3 DEF CallFails, TypeOK, CallState, serverVars, getVars
  <2> QED BY <1>3, <2>1, <2>2, <2>3, OneClient DEF CallFails, TypeOK, KInv, serverVars, getVars
<1>4. ASSUME NEW c \in Client, Retry(c) PROVE KInv'
  <2>1. TypeOK'
    BY <1>0, <1>4 DEF Retry, TypeOK, serverVars, getVars
  <2>2. lastSeq'[c] \in {seq'[c] - 1, seq'[c]} /\ pc'[c] = "call"
    BY <1>0, <1>4 DEF Retry, TypeOK, InSequence, serverVars
  <2>3. CallState(c)'
    BY <1>0, <1>4 DEF Retry, TypeOK, CallState, serverVars, getVars
  <2> QED BY <1>4, <2>1, <2>2, <2>3, OneClient DEF Retry, TypeOK, KInv, serverVars, getVars
<1>5. ASSUME NEW c \in Client, CallReturns(c) PROVE KInv'
  <2>1. TypeOK'
    BY <1>0, <1>5, <1>e DEF CallReturns, TypeOK, serverVars, getVars
  <2>2. lastSeq'[c] = seq'[c] /\ pc'[c] = "delete"
    BY <1>0, <1>5 DEF CallReturns, TypeOK, InSequence, serverVars
  <2>3. CallState(c)'
    BY <1>0, <1>5 DEF CallReturns, TypeOK, CallState, serverVars, getVars
  <2> QED BY <1>5, <2>1, <2>2, <2>3, OneClient DEF CallReturns, TypeOK, KInv, serverVars, getVars
<1>6. ASSUME NEW c \in Client, Delete(c) PROVE KInv'
  <2>1. TypeOK'
    BY <1>0, <1>6, <1>e DEF Delete, TypeOK, getVars
  <2>2. lastSeq'[c] = seq'[c] /\ pc'[c] = "deleted"
    BY <1>0, <1>6 DEF Delete, TypeOK, InSequence
  <2>3. CallState(c)'
    BY <1>0, <1>6 DEF Delete, TypeOK, CallState, getVars
  <2> QED BY <1>6, <2>1, <2>2, <2>3, OneClient DEF Delete, TypeOK, KInv, getVars
<1>7. ASSUME NEW c \in Client, PutAppendReturns(c) PROVE KInv'
  <2>1. TypeOK'
    BY <1>0, <1>7, <1>e DEF PutAppendReturns, TypeOK, serverVars, getVars
  <2>2. lastSeq'[c] = seq'[c] /\ pc'[c] = "idle"
    BY <1>0, <1>7 DEF PutAppendReturns, TypeOK, InSequence, serverVars
  <2>3. CallState(c)'
    BY <1>0, <1>7 DEF PutAppendReturns, TypeOK, CallState, serverVars, getVars
  <2> QED BY <1>7, <2>1, <2>2, <2>3, OneClient
      DEF PutAppendReturns, TypeOK, KInv, serverVars, getVars
<1>8. ASSUME NEW c \in Client,
             (\E k \in Key : Get(c, k)) \/ ExecuteGet(c) \/ GetFails(c) \/ RetryGet(c) \/ GetReturns(c)
      PROVE  KInv'
  <2>1. TypeOK'
    <3>1. CASE \E k \in Key : Get(c, k)
      BY <1>0, <1>e, <3>1 DEF Get, TypeOK, serverVars, putVars
    <3>2. CASE ExecuteGet(c)
      <4>1. getKey[c] \in Key
        BY <1>0, <3>2 DEF CallState, ExecuteGet
      <4>2. value[getKey[c]] \in Seq(Token)
        BY <1>0, <4>1 DEF TypeOK
      <4>3. getWire' \in [Client -> Seq(Token)]
        BY <1>0, <3>2, <4>2 DEF ExecuteGet, TypeOK
      <4>4. getPc' \in [Client -> {"idle", "call", "executed", "failed"}]
        BY <1>0, <3>2 DEF ExecuteGet, TypeOK
      <4>5. UNCHANGED <<value, lastSeq, record, seq, pc, args, wire, reply, getKey, got>>
        BY <3>2 DEF ExecuteGet, serverVars, putVars
      <4> QED BY <1>0, <4>3, <4>4, <4>5 DEF TypeOK
    <3>3. CASE GetFails(c) \/ RetryGet(c)
      <4>1. /\ getPc' \in [Client -> {"idle", "call", "executed", "failed"}]
            /\ getWire' \in [Client -> Seq(Token)]
        <5>1. CASE GetFails(c)
          BY <1>0, <1>e, <5>1 DEF GetFails, TypeOK
        <5>2. CASE RetryGet(c)
          BY <1>0, <5>2 DEF RetryGet, TypeOK
        <5> QED BY <3>3, <5>1, <5>2
      <4>2. UNCHANGED <<value, lastSeq, record, seq, pc, args, wire, reply, getKey, got>>
        BY <3>3 DEF GetFails, RetryGet, serverVars, putVars
      <4> QED BY <1>0, <4>1, <4>2 DEF TypeOK
    <3>4. CASE GetReturns(c)
      <4>1. (IF getWire[c] \in Reserved THEN <<>> ELSE getWire[c]) \in Seq(Token)
        BY <1>0, <1>e DEF TypeOK
      <4>2. got' \in [Client -> Seq(Token)]
        BY <1>0, <3>4, <4>1 DEF GetReturns, TypeOK
      <4>3. /\ getPc' \in [Client -> {"idle", "call", "executed", "failed"}]
            /\ getKey' \in [Client -> Key \cup {Nil}]
            /\ getWire' \in [Client -> Seq(Token)]
        BY <1>0, <1>e, <3>4 DEF GetReturns, TypeOK
      <4>4. UNCHANGED <<value, lastSeq, record, seq, pc, args, wire, reply>>
        BY <3>4 DEF GetReturns, serverVars, putVars
      <4> QED BY <1>0, <4>2, <4>3, <4>4 DEF TypeOK
    <3> QED BY <1>8, <3>1, <3>2, <3>3, <3>4
  <2>2. UNCHANGED <<serverVars, putVars>>
    BY <1>8 DEF Get, ExecuteGet, GetFails, RetryGet, GetReturns
  <2>3. CallState(c)'
    <3>1. CASE \E k \in Key : Get(c, k)
      BY <1>0, <2>2, <3>1 DEF Get, TypeOK, CallState, serverVars, putVars
    <3>2. CASE ExecuteGet(c)
      BY <1>0, <2>2, <3>2 DEF ExecuteGet, TypeOK, CallState, serverVars, putVars
    <3>3. CASE GetFails(c) \/ RetryGet(c)
      BY <1>0, <2>2, <3>3 DEF GetFails, RetryGet, TypeOK, CallState, serverVars, putVars
    <3>4. CASE GetReturns(c)
      BY <1>0, <2>2, <3>4 DEF GetReturns, TypeOK, CallState, serverVars, putVars
    <3> QED BY <1>8, <3>1, <3>2, <3>3, <3>4
  <2>4. \A d \in Client \ {c} :
          getPc'[d] = getPc[d] /\ getKey'[d] = getKey[d] /\ getWire'[d] = getWire[d]
    BY <1>0, <1>8 DEF Get, ExecuteGet, GetFails, RetryGet, GetReturns, TypeOK
  <2> QED BY <1>0, <2>1, <2>2, <2>3, <2>4, OneClient DEF InSequence, KInv, serverVars, putVars
<1>9. CASE UNCHANGED vars
  BY <1>9 DEF vars, serverVars, putVars, getVars, KInv, TypeOK, InSequence, CallState
<1> QED BY <1>1, <1>2, <1>3, <1>4, <1>5, <1>6, <1>7, <1>8, <1>9 DEF Next

LEMMA KInvariant == Spec => []KInv
BY KInit, KNext, PTL DEF Spec

\* Type correctness of server and clerks, for any clients, keys and strings.
THEOREM KvTypeCorrect == Spec => []TypeOK
<1>1. KInv => TypeOK
  BY DEF KInv
<1> QED BY <1>1, KInvariant, PTL

\* The server never refuses a call as out of sequence and has executed every call that
\* returned.
THEOREM KvInSequence == Spec => []InSequence
<1>1. KInv => InSequence
  BY DEF KInv
<1> QED BY <1>1, KInvariant, PTL

-----------------------------------------------------------------------------
(* KvSrv implements KvAbstract.                                            *)

StatusMap == [c \in Client |-> AbstractStatus(c)]
ResultMap == [c \in Client |-> AbstractResult(c)]
GetMap == [c \in Client |-> AbstractGet(c)]

\* A step of one client's Put or Append changes its part of the map only.
LEMMA OthersPut ==
    ASSUME NEW c \in Client, NEW s, NEW r,
           AbstractStatus(c)' = s, AbstractResult(c)' = r,
           \A d \in Client \ {c} :
             /\ pc'[d] = pc[d] /\ lastSeq'[d] = lastSeq[d] /\ seq'[d] = seq[d]
             /\ args'[d] = args[d] /\ reply'[d] = reply[d] /\ record'[d] = record[d]
    PROVE  /\ StatusMap' = [StatusMap EXCEPT ![c] = s]
           /\ ResultMap' = [ResultMap EXCEPT ![c] = r]
<1>1. \A d \in Client \ {c} : AbstractStatus(d)' = AbstractStatus(d)
  BY DEF AbstractStatus, Applied
<1>2. \A d \in Client \ {c} : AbstractResult(d)' = AbstractResult(d)
  BY DEF AbstractResult, Applied
<1>3. StatusMap' = [StatusMap EXCEPT ![c] = s]
  BY <1>1 DEF StatusMap
<1>4. ResultMap' = [ResultMap EXCEPT ![c] = r]
  BY <1>2 DEF ResultMap
<1> QED BY <1>3, <1>4

\* A step that leaves a client's abstract status and result alone leaves the map alone.
LEMMA SamePut ==
    ASSUME NEW c \in Client,
           AbstractStatus(c)' = AbstractStatus(c), AbstractResult(c)' = AbstractResult(c),
           \A d \in Client \ {c} :
             /\ pc'[d] = pc[d] /\ lastSeq'[d] = lastSeq[d] /\ seq'[d] = seq[d]
             /\ args'[d] = args[d] /\ reply'[d] = reply[d] /\ record'[d] = record[d]
    PROVE  StatusMap' = StatusMap /\ ResultMap' = ResultMap
<1>1. /\ StatusMap' = [StatusMap EXCEPT ![c] = AbstractStatus(c)]
      /\ ResultMap' = [ResultMap EXCEPT ![c] = AbstractResult(c)]
  BY OthersPut
<1> QED BY <1>1 DEF StatusMap, ResultMap

\* A Get does not touch the status and result of a Put or Append.
LEMMA GetKeepsPut ==
    ASSUME UNCHANGED <<serverVars, putVars>>
    PROVE  StatusMap' = StatusMap /\ ResultMap' = ResultMap
<1>1. UNCHANGED <<pc, lastSeq, seq, args, reply, record>>
  BY DEF serverVars, putVars
<1>2. \A c \in Client : AbstractStatus(c)' = AbstractStatus(c) /\ AbstractResult(c)' = AbstractResult(c)
  BY <1>1 DEF AbstractStatus, AbstractResult, Applied
<1> QED BY <1>2 DEF StatusMap, ResultMap

LEMMA PutKeepsGet ==
    ASSUME UNCHANGED getVars
    PROVE  GetMap' = GetMap
BY DEF getVars, GetMap, AbstractGet

LEMMA InitRefines == Init => Abstract!Init
<1> SUFFICES ASSUME Init PROVE Abstract!Init
  OBVIOUS
<1>1. StatusMap = [c \in Client |-> "idle"] /\ ResultMap = [c \in Client |-> <<>>]
  BY DEF Init, StatusMap, ResultMap, AbstractStatus, AbstractResult, Applied
<1>2. GetMap = [c \in Client |-> "idle"]
  BY DEF Init, GetMap, AbstractGet
<1> QED BY <1>1, <1>2 DEF Init, Abstract!Init, StatusMap, ResultMap, GetMap

\* Every step of clerk, network or server is a step of KvAbstract or none.
LEMMA StepRefines ==
    ASSUME Reserved = {}, KInv, [Next]_vars
    PROVE  [Abstract!Next]_(Abstract!vars)
<1>0. TypeOK /\ InSequence /\ (\A c \in Client : CallState(c))
  BY DEF KInv
<1>1. ASSUME NEW c \in Client, NEW a \in Args, PutAppend(c, a) PROVE Abstract!Next
  <2>1. lastSeq[c] = seq[c] /\ seq[c] \in Int /\ pc[c] = "idle"
    <3>1. seq[c] \in Int
      BY <1>0 DEF TypeOK
    <3>2. pc[c] = "idle"
      BY <1>1 DEF PutAppend
    <3>3. lastSeq[c] = seq[c]
      BY <1>0, <3>2 DEF InSequence
    <3> QED BY <3>1, <3>2, <3>3
  <2>2. /\ seq'[c] = seq[c] + 1 /\ pc'[c] = "call" /\ lastSeq' = lastSeq
        /\ UNCHANGED getVars /\ value' = value
    BY <1>0, <1>1 DEF PutAppend, TypeOK, serverVars
  <2>3. AbstractStatus(c) = "idle" /\ AbstractResult(c) = <<>>
    BY <2>1 DEF AbstractStatus, AbstractResult, Applied
  <2>4. AbstractStatus(c)' = "pending" /\ AbstractResult(c)' = AbstractResult(c)
    BY <2>1, <2>2, <2>3 DEF AbstractStatus, AbstractResult, Applied
  <2>5. \A d \in Client \ {c} :
          /\ pc'[d] = pc[d] /\ lastSeq'[d] = lastSeq[d] /\ seq'[d] = seq[d]
          /\ args'[d] = args[d] /\ reply'[d] = reply[d] /\ record'[d] = record[d]
    BY <1>0, <1>1 DEF PutAppend, TypeOK, serverVars
  <2>6. StatusMap' = [StatusMap EXCEPT ![c] = "pending"] /\ ResultMap' = ResultMap
    <3>1. /\ StatusMap' = [StatusMap EXCEPT ![c] = "pending"]
          /\ ResultMap' = [ResultMap EXCEPT ![c] = AbstractResult(c)]
      BY <2>4, <2>5, OthersPut
    <3> QED BY <3>1 DEF ResultMap
  <2>7. GetMap' = GetMap
    BY <2>2, PutKeepsGet
  <2>8. PICK op \in {"Put", "Append"}, k \in Key, v \in Text : a = [op |-> op, Key |-> k, Value |-> v]
    BY DEF Args
  <2>9. StatusMap[c] = "idle"
    BY <2>3 DEF StatusMap
  <2>10. args' = [args EXCEPT ![c] = [op |-> op, Key |-> k, Value |-> v]]
    BY <1>1, <2>8 DEF PutAppend
  <2>11. Abstract!Invoke(c, op, k, v)
    BY <2>2, <2>6, <2>7, <2>9, <2>10
    DEF Abstract!Invoke, Abstract!getVars, StatusMap, ResultMap, GetMap, getVars
  <2> QED BY <2>11 DEF Abstract!Next
<1>2. ASSUME NEW c \in Client, Execute(c), ~Duplicate(c, seq[c]) PROVE Abstract!Next
  <2>0. args[c] \in Args /\ pc[c] = "call" /\ lastSeq[c] + 1 = seq[c] /\ lastSeq[c] \in Int
    <3>1. pc[c] = "call" /\ ~(lastSeq[c] >= seq[c])
      BY <1>2 DEF Execute, Duplicate
    <3>2. args[c] \in Args
      BY <1>0, <3>1 DEF CallState
    <3>3. lastSeq[c] \in {seq[c] - 1, seq[c]}
      BY <1>0, <3>1 DEF InSequence
    <3>4. lastSeq[c] \in Int /\ seq[c] \in Int
      BY <1>0 DEF TypeOK
    <3> QED BY <3>1, <3>2, <3>3, <3>4
  <2>1. /\ lastSeq' = [lastSeq EXCEPT ![c] = seq[c]]
        /\ record' = [record EXCEPT ![c] = Answer(args[c])]
        /\ value' = [value EXCEPT ![args[c].Key] = Stored(args[c])]
        /\ pc' = [pc EXCEPT ![c] = "executed"]
        /\ UNCHANGED <<seq, args, reply, getVars>>
    BY <1>2, <2>0 DEF Execute
  <2>2. lastSeq'[c] = seq'[c] /\ pc'[c] = "executed" /\ record'[c] = Answer(args[c]) /\ args' = args
    BY <1>0, <2>1 DEF TypeOK
  <2>3. AbstractStatus(c) = "pending"
    BY <2>0 DEF AbstractStatus, Applied
  <2>4. AbstractStatus(c)' = "applied"
    BY <2>2 DEF AbstractStatus, Applied
  <2>5. AbstractResult(c)' = IF args[c].op = "Put" THEN <<>> ELSE value[args[c].Key]
    BY <2>2 DEF AbstractResult, Applied, Answer
  <2>6. \A d \in Client \ {c} :
          /\ pc'[d] = pc[d] /\ lastSeq'[d] = lastSeq[d] /\ seq'[d] = seq[d]
          /\ args'[d] = args[d] /\ reply'[d] = reply[d] /\ record'[d] = record[d]
    BY <1>0, <2>1 DEF TypeOK
  <2>7. /\ StatusMap' = [StatusMap EXCEPT ![c] = "applied"]
        /\ ResultMap' = [ResultMap EXCEPT ![c] =
             IF args[c].op = "Put" THEN <<>> ELSE value[args[c].Key]]
    BY <2>4, <2>5, <2>6, OthersPut
  <2>8. value' = [value EXCEPT ![args[c].Key] =
                    IF args[c].op = "Put" THEN args[c].Value ELSE @ \o args[c].Value]
    BY <1>0, <2>0, <2>1 DEF Stored, TypeOK, Args
  <2>9. GetMap' = GetMap /\ UNCHANGED getVars
    BY <2>1, PutKeepsGet
  <2>10. StatusMap[c] = "pending"
    BY <2>3 DEF StatusMap
  <2>11. Abstract!Apply(c)
    BY <2>2, <2>7, <2>8, <2>9, <2>10
    DEF Abstract!Apply, Abstract!getVars, StatusMap, ResultMap, GetMap, getVars
  <2> QED BY <2>11 DEF Abstract!Next
<1>3. ASSUME NEW c \in Client,
             (Execute(c) /\ Duplicate(c, seq[c])) \/ CallFails(c) \/ Retry(c) \/ CallReturns(c) \/ Delete(c)
      PROVE  UNCHANGED Abstract!vars
  <2>1. UNCHANGED <<value, lastSeq, seq, args, getVars>>
    BY <1>3 DEF Execute, CallFails, Retry, CallReturns, Delete, serverVars
  <2>2. pc[c] # "idle" /\ pc'[c] # "idle"
    BY <1>0, <1>3 DEF Execute, CallFails, Retry, CallReturns, Delete, TypeOK
  <2>3. \/ pc[c] \notin {"delete", "deleted"} /\ pc'[c] \notin {"delete", "deleted"} /\ record'[c] = record[c]
        \/ pc[c] = "executed" /\ pc'[c] = "delete" /\ reply'[c] = record[c]
        \/ pc[c] = "delete" /\ pc'[c] = "deleted" /\ reply'[c] = reply[c]
    <3>1. CASE Execute(c) /\ Duplicate(c, seq[c])
      BY <1>0, <3>1 DEF Execute, TypeOK, serverVars
    <3>2. CASE CallFails(c)
      BY <1>0, <3>2 DEF CallFails, TypeOK, serverVars
    <3>3. CASE Retry(c)
      BY <1>0, <3>3 DEF Retry, TypeOK, serverVars
    <3>4. CASE CallReturns(c)
      BY <1>0, <3>4 DEF CallReturns, TypeOK, CallState, serverVars
    <3>5. CASE Delete(c)
      BY <1>0, <3>5 DEF Delete, TypeOK
    <3> QED BY <1>3, <3>1, <3>2, <3>3, <3>4, <3>5
  <2>4. AbstractStatus(c)' = AbstractStatus(c)
    BY <2>1, <2>2 DEF AbstractStatus, Applied
  <2>5. AbstractResult(c)' = AbstractResult(c)
    BY <2>1, <2>2, <2>3 DEF AbstractResult, Applied
  <2>6. \A d \in Client \ {c} : pc'[d] = pc[d] /\ reply'[d] = reply[d] /\ record'[d] = record[d]
    BY <1>0, <1>3 DEF Execute, CallFails, Retry, CallReturns, Delete, TypeOK, serverVars
  <2>7. StatusMap' = StatusMap /\ ResultMap' = ResultMap
    BY <2>1, <2>4, <2>5, <2>6, SamePut
  <2>8. GetMap' = GetMap
    BY <2>1, PutKeepsGet
  <2> QED BY <2>1, <2>7, <2>8
      DEF Abstract!vars, Abstract!putVars, Abstract!getVars, StatusMap, ResultMap, GetMap, getVars
<1>4. ASSUME NEW c \in Client, PutAppendReturns(c) PROVE Abstract!Next
  <2>1. lastSeq[c] = seq[c] /\ pc[c] # "idle"
    BY <1>0, <1>4 DEF PutAppendReturns, InSequence
  <2>2. /\ pc'[c] = "idle" /\ UNCHANGED <<value, getVars>>
        /\ args' = [args EXCEPT ![c] = Nil]
    BY <1>0, <1>4 DEF PutAppendReturns, TypeOK, serverVars
  <2>3. StatusMap[c] = "applied"
    BY <2>1 DEF StatusMap, AbstractStatus, Applied
  <2>4. AbstractStatus(c)' = "idle" /\ AbstractResult(c)' = <<>>
    BY <2>2 DEF AbstractStatus, AbstractResult, Applied
  <2>5. \A d \in Client \ {c} :
          /\ pc'[d] = pc[d] /\ lastSeq'[d] = lastSeq[d] /\ seq'[d] = seq[d]
          /\ args'[d] = args[d] /\ reply'[d] = reply[d] /\ record'[d] = record[d]
    BY <1>0, <1>4 DEF PutAppendReturns, TypeOK, serverVars
  <2>6. StatusMap' = [StatusMap EXCEPT ![c] = "idle"] /\ ResultMap' = [ResultMap EXCEPT ![c] = <<>>]
    BY <2>4, <2>5, OthersPut
  <2>7. GetMap' = GetMap
    BY <2>2, PutKeepsGet
  <2>8. Abstract!Return(c)
    BY <2>2, <2>3, <2>6, <2>7
    DEF Abstract!Return, Abstract!getVars, StatusMap, ResultMap, GetMap, getVars
  <2> QED BY <2>8 DEF Abstract!Next
<1>5. ASSUME NEW c \in Client,
             (\E k \in Key : Get(c, k)) \/ ExecuteGet(c) \/ GetFails(c) \/ RetryGet(c) \/ GetReturns(c)
      PROVE  Abstract!Next \/ UNCHANGED Abstract!vars
  <2>1. UNCHANGED <<serverVars, putVars>>
    BY <1>5 DEF Get, ExecuteGet, GetFails, RetryGet, GetReturns
  <2>2. StatusMap' = StatusMap /\ ResultMap' = ResultMap
    BY <2>1, GetKeepsPut
  <2>3. value' = value /\ args' = args
    BY <2>1 DEF serverVars, putVars
  <2>4. CASE \E k \in Key : Get(c, k)
    <3>1. PICK k \in Key : Get(c, k)
      BY <2>4
    <3>2. GetMap[c] = "idle" /\ GetMap' = [GetMap EXCEPT ![c] = "pending"]
      BY <1>0, <3>1 DEF Get, TypeOK, GetMap, AbstractGet
    <3>3. Abstract!InvokeGet(c, k)
      BY <2>2, <2>3, <3>1, <3>2
      DEF Get, Abstract!InvokeGet, Abstract!putVars, StatusMap, ResultMap, GetMap
    <3> QED BY <3>3 DEF Abstract!Next
  <2>5. CASE ExecuteGet(c)
    <3>1. GetMap[c] = "pending" /\ GetMap' = [GetMap EXCEPT ![c] = "read"]
      BY <1>0, <2>5 DEF ExecuteGet, TypeOK, GetMap, AbstractGet
    <3>2. Abstract!Read(c)
      BY <2>2, <2>3, <2>5, <3>1
      DEF ExecuteGet, Abstract!Read, Abstract!putVars, StatusMap, ResultMap, GetMap
    <3> QED BY <3>2 DEF Abstract!Next
  <2>6. CASE GetFails(c) /\ getPc[c] = "executed"
    <3>1. GetMap[c] = "read" /\ GetMap' = [GetMap EXCEPT ![c] = "pending"]
      BY <1>0, <2>6 DEF GetFails, TypeOK, GetMap, AbstractGet
    <3>2. Abstract!ReadAgain(c)
      BY <2>2, <2>3, <2>6, <3>1
      DEF GetFails, Abstract!ReadAgain, Abstract!putVars, StatusMap, ResultMap, GetMap
    <3> QED BY <3>2 DEF Abstract!Next
  <2>7. CASE (GetFails(c) /\ getPc[c] # "executed") \/ RetryGet(c)
    <3>1. GetMap' = GetMap
      BY <1>0, <2>7 DEF GetFails, RetryGet, TypeOK, GetMap, AbstractGet
    <3>2. getWire' = getWire /\ getKey' = getKey /\ got' = got
      BY <1>0, <2>7 DEF GetFails, RetryGet, TypeOK, CallState
    <3> QED BY <2>2, <2>3, <3>1, <3>2
        DEF Abstract!vars, Abstract!putVars, Abstract!getVars, StatusMap, ResultMap, GetMap
  <2>8. CASE GetReturns(c)
    <3>1. GetMap[c] = "read" /\ GetMap' = [GetMap EXCEPT ![c] = "idle"]
      BY <1>0, <2>8 DEF GetReturns, TypeOK, GetMap, AbstractGet
    <3>2. got' = [got EXCEPT ![c] = getWire[c]]
      BY <2>8 DEF GetReturns
    <3>3. Abstract!ReturnGet(c)
      BY <2>2, <2>3, <2>8, <3>1, <3>2
      DEF GetReturns, Abstract!ReturnGet, Abstract!putVars, StatusMap, ResultMap, GetMap
    <3> QED BY <3>3 DEF Abstract!Next
  <2> QED BY <1>5, <2>4, <2>5, <2>6, <2>7, <2>8
<1>6. CASE UNCHANGED vars
  <2>1. UNCHANGED <<serverVars, putVars, getVars>>
    BY <1>6 DEF vars
  <2>2. StatusMap' = StatusMap /\ ResultMap' = ResultMap /\ GetMap' = GetMap
    BY <2>1, GetKeepsPut, PutKeepsGet
  <2> QED BY <2>1, <2>2
      DEF Abstract!vars, Abstract!putVars, Abstract!getVars, StatusMap, ResultMap, GetMap,
          serverVars, putVars, getVars
<1> QED BY <1>1, <1>2, <1>3, <1>4, <1>5, <1>6 DEF Next

\* kvsrv implements the abstract map for any clients, keys and strings, as long as no
\* client stores a text the clerk takes for an error: every Put and Append takes effect
\* exactly once, and every operation returns what the map held between call and return.
THEOREM KvLinearizable == Reserved = {} => (Spec => Linearizable)
<1> SUFFICES ASSUME Reserved = {} PROVE Spec => Abstract!Spec
  BY DEF Linearizable
<1>1. KInv /\ [Next]_vars => [Abstract!Next]_(Abstract!vars)
  BY StepRefines
<1> QED BY <1>1, InitRefines, KInvariant, PTL DEF Spec, Abstract!Spec

=============================================================================
