------------------------------- MODULE KvSrv -------------------------------
(***************************************************************************)
(* The key/value server of kvsrv/server.go and its clerks, kvsrv/client.go,*)
(* over the unreliable network of labrpc.  A Call is dropped before the    *)
(* handler runs, or its reply is dropped after it ran, and then returns    *)
(* false; the clerk cannot tell the two apart and calls again with the     *)
(* same sequence number.  PutAppend holds the clerk's lock to its end; Get *)
(* does not take it, so one of each may be under way.                      *)
(*                                                                         *)
(* A string is a sequence, "" the empty one; a missing map entry reads as  *)
(* "" or 0 in Go and is that here.                                         *)
(***************************************************************************)
EXTENDS Integers, Sequences

CONSTANTS
    Client, Key,
    Token,     \* what strings are made of
    Text,      \* the strings clients pass to Put and Append
    Reserved,  \* the texts ErrNoKey and ErrVersion
    Nil,       \* no call yet
    MaxSeq     \* bound on the Puts and Appends of a client

ASSUME TextAssumption == Text \subseteq Seq(Token)
ASSUME MaxSeqAssumption == MaxSeq \in Nat

VARIABLES
    value, lastSeq, record, \* KVServer
    seq,    \* Clerk.seq; also the Seq of the arguments of the call under way
    pc,     \* where the clerk's PutAppend is
    args,   \* its arguments
    wire,   \* the reply of the handler, on its way
    reply,  \* the reply the clerk received
    getPc, getKey, getWire, got \* the same for its Get; got is what Get returned

serverVars == <<value, lastSeq, record>>
putVars == <<seq, pc, args, wire, reply>>
getVars == <<getPc, getKey, getWire, got>>
vars == <<serverVars, putVars, getVars>>

Args == [op : {"Put", "Append"}, Key : Key, Value : Text]

Init ==
    /\ value = [k \in Key |-> <<>>]
    /\ lastSeq = [c \in Client |-> 0]
    /\ record = [c \in Client |-> <<>>]
    /\ seq = [c \in Client |-> 0]
    /\ pc = [c \in Client |-> "idle"]
    /\ args = [c \in Client |-> Nil]
    /\ wire = [c \in Client |-> <<>>]
    /\ reply = [c \in Client |-> <<>>]
    /\ getPc = [c \in Client |-> "idle"]
    /\ getKey = [c \in Client |-> Nil]
    /\ getWire = [c \in Client |-> <<>>]
    /\ got = [c \in Client |-> <<>>]

-----------------------------------------------------------------------------
(* Put and Append.                                                         *)

\* PutAppend up to its first Call
PutAppend(c, a) ==
    /\ pc[c] = "idle"
    /\ seq[c] < MaxSeq
    /\ seq' = [seq EXCEPT ![c] = @ + 1]
    /\ args' = [args EXCEPT ![c] = a]
    /\ pc' = [pc EXCEPT ![c] = "call"]
    /\ UNCHANGED <<serverVars, wire, reply, getVars>>

\* Fault: > for >=, a repeated call is not recognised
DuplicateOlder(c, n) == lastSeq[c] > n

\* The call was executed before
Duplicate(c, n) == lastSeq[c] >= n

\* What Put and Append answer and remember, and what they store
Answer(a) == IF a.op = "Put" THEN a.Value ELSE value[a.Key]
Stored(a) == IF a.op = "Put" THEN a.Value ELSE value[a.Key] \o a.Value

\* The handlers Put and Append: a repeated call gets the recorded result, a call out
\* of sequence nothing
Execute(c) ==
    LET a == args[c] IN
    /\ pc[c] = "call"
    /\ pc' = [pc EXCEPT ![c] = "executed"]
    /\ IF Duplicate(c, seq[c]) THEN
         /\ wire' = [wire EXCEPT ![c] = record[c]]
         /\ UNCHANGED serverVars
       ELSE IF lastSeq[c] + 1 # seq[c] THEN
         /\ wire' = [wire EXCEPT ![c] = <<>>]
         /\ UNCHANGED serverVars
       ELSE
         /\ wire' = [wire EXCEPT ![c] = Answer(a)]
         /\ lastSeq' = [lastSeq EXCEPT ![c] = seq[c]]
         /\ record' = [record EXCEPT ![c] = Answer(a)]
         /\ value' = [value EXCEPT ![a.Key] = Stored(a)]
    /\ UNCHANGED <<seq, args, reply, getVars>>

\* labrpc drops the request or the reply
CallFails(c) ==
    /\ pc[c] \in {"call", "executed"}
    /\ pc' = [pc EXCEPT ![c] = "failed"]
    /\ wire' = [wire EXCEPT ![c] = <<>>]
    /\ UNCHANGED <<serverVars, seq, args, reply, getVars>>

\* Fault: the sequence number is taken inside the loop
RetryWithNewSeq(c) ==
    /\ pc[c] = "failed"
    /\ pc' = [pc EXCEPT ![c] = "call"]
    /\ seq' = [seq EXCEPT ![c] = @ + 1]
    /\ UNCHANGED <<serverVars, args, wire, reply, getVars>>

\* Fault: the loop sleeps and does not call again
RetryWithoutCall(c) ==
    /\ pc[c] = "failed"
    /\ UNCHANGED vars

\* After the sleep, the same arguments again
Retry(c) ==
    /\ pc[c] = "failed"
    /\ pc' = [pc EXCEPT ![c] = "call"]
    /\ UNCHANGED <<serverVars, seq, args, wire, reply, getVars>>

\* The Call returns true; PutAppend goes on to call Delete
CallReturns(c) ==
    /\ pc[c] = "executed"
    /\ reply' = [reply EXCEPT ![c] = wire[c]]
    /\ wire' = [wire EXCEPT ![c] = <<>>]
    /\ pc' = [pc EXCEPT ![c] = "delete"]
    /\ UNCHANGED <<serverVars, seq, args, getVars>>

\* The handler Delete.  Its Call is made once, whether it succeeds or not
Delete(c) ==
    /\ pc[c] = "delete"
    /\ record' = [record EXCEPT ![c] = <<>>]
    /\ pc' = [pc EXCEPT ![c] = "deleted"]
    /\ UNCHANGED <<value, lastSeq, seq, args, wire, reply, getVars>>

\* PutAppend returns reply, after a Delete that was executed or dropped
PutAppendReturns(c) ==
    /\ pc[c] \in {"delete", "deleted"}
    /\ pc' = [pc EXCEPT ![c] = "idle"]
    /\ args' = [args EXCEPT ![c] = Nil]
    /\ reply' = [reply EXCEPT ![c] = <<>>]
    /\ UNCHANGED <<serverVars, seq, wire, getVars>>

-----------------------------------------------------------------------------
(* Get.                                                                    *)

Get(c, k) ==
    /\ getPc[c] = "idle"
    /\ getKey' = [getKey EXCEPT ![c] = k]
    /\ got' = [got EXCEPT ![c] = <<>>]
    /\ getPc' = [getPc EXCEPT ![c] = "call"]
    /\ UNCHANGED <<serverVars, putVars, getWire>>

\* The handler Get
ExecuteGet(c) ==
    /\ getPc[c] = "call"
    /\ getWire' = [getWire EXCEPT ![c] = value[getKey[c]]]
    /\ getPc' = [getPc EXCEPT ![c] = "executed"]
    /\ UNCHANGED <<serverVars, putVars, getKey, got>>

GetFails(c) ==
    /\ getPc[c] \in {"call", "executed"}
    /\ getPc' = [getPc EXCEPT ![c] = "failed"]
    /\ getWire' = [getWire EXCEPT ![c] = <<>>]
    /\ UNCHANGED <<serverVars, putVars, getKey, got>>

RetryGet(c) ==
    /\ getPc[c] = "failed"
    /\ getPc' = [getPc EXCEPT ![c] = "call"]
    /\ UNCHANGED <<serverVars, putVars, getKey, getWire, got>>

\* Get returns, with "" in place of the texts the clerk takes for errors
GetReturns(c) ==
    /\ getPc[c] = "executed"
    /\ got' = [got EXCEPT ![c] = IF getWire[c] \in Reserved THEN <<>> ELSE getWire[c]]
    /\ getPc' = [getPc EXCEPT ![c] = "idle"]
    /\ getKey' = [getKey EXCEPT ![c] = Nil]
    /\ getWire' = [getWire EXCEPT ![c] = <<>>]
    /\ UNCHANGED <<serverVars, putVars>>

-----------------------------------------------------------------------------
Next ==
    \E c \in Client :
        \/ \E a \in Args : PutAppend(c, a)
        \/ Execute(c)
        \/ CallFails(c)
        \/ Retry(c)
        \/ CallReturns(c)
        \/ Delete(c)
        \/ PutAppendReturns(c)
        \/ \E k \in Key : Get(c, k)
        \/ ExecuteGet(c)
        \/ GetFails(c)
        \/ RetryGet(c)
        \/ GetReturns(c)

Spec == Init /\ [][Next]_vars

\* A goroutine of client c that can run does, and a network that drops each message with
\* a fixed probability below one does not drop its repeated calls for ever.  Nothing is
\* assumed of other goroutines.
WriterRuns(c) ==
    /\ WF_vars(Retry(c)) /\ WF_vars(PutAppendReturns(c))
    /\ SF_vars(Execute(c)) /\ SF_vars(CallReturns(c))
GetterRuns(c) == WF_vars(RetryGet(c)) /\ SF_vars(ExecuteGet(c)) /\ SF_vars(GetReturns(c))

-----------------------------------------------------------------------------
(* Properties.                                                             *)

\* Type correctness.
TypeOK ==
    /\ value \in [Key -> Seq(Token)]
    /\ lastSeq \in [Client -> 0..MaxSeq] /\ seq \in [Client -> 0..MaxSeq]
    /\ record \in [Client -> Seq(Token)]
    /\ pc \in [Client -> {"idle", "call", "executed", "failed", "delete", "deleted"}]
    /\ args \in [Client -> Args \cup {Nil}]
    /\ wire \in [Client -> Seq(Token)] /\ reply \in [Client -> Seq(Token)]
    /\ getPc \in [Client -> {"idle", "call", "executed", "failed"}]
    /\ getKey \in [Client -> Key \cup {Nil}]
    /\ getWire \in [Client -> Seq(Token)] /\ got \in [Client -> Seq(Token)]

\* The server and the clerk never drift apart: the server has executed the clerk's
\* last call or lacks exactly that one, and has executed every call that returned,
\* so no call is answered as out of sequence (server.go:49).
InSequence ==
    \A c \in Client :
        IF pc[c] \in {"call", "failed"} THEN lastSeq[c] \in {seq[c] - 1, seq[c]}
        ELSE lastSeq[c] = seq[c]

\* The refinement mapping: a call has taken effect when the server has its number,
\* and its result is in the record until the clerk has it.
Applied(c) == pc[c] # "idle" /\ lastSeq[c] = seq[c]
AbstractStatus(c) ==
    IF pc[c] = "idle" THEN "idle" ELSE IF Applied(c) THEN "applied" ELSE "pending"
AbstractResult(c) ==
    IF ~Applied(c) \/ args[c].op = "Put" THEN <<>>
    ELSE IF pc[c] \in {"delete", "deleted"} THEN reply[c] ELSE record[c]
AbstractGet(c) ==
    IF getPc[c] = "idle" THEN "idle" ELSE IF getPc[c] = "executed" THEN "read" ELSE "pending"

Abstract == INSTANCE KvAbstract WITH
    status <- [c \in Client |-> AbstractStatus(c)],
    call <- args,
    result <- [c \in Client |-> AbstractResult(c)],
    getStatus <- [c \in Client |-> AbstractGet(c)],
    read <- getWire

\* kvsrv is linearizable and executes every Put and Append exactly once, although
\* every message may be lost and every call repeated.
Linearizable == Abstract!Spec

\* A clerk's Put, Append and Get return in the end, if the network does not drop every
\* repetition of the call.
CallsReturn ==
    \A c \in Client :
        /\ WriterRuns(c) => (pc[c] # "idle" ~> pc[c] = "idle")
        /\ GetterRuns(c) => (getPc[c] # "idle" ~> getPc[c] = "idle")

=============================================================================
