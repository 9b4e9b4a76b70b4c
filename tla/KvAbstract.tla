----------------------------- MODULE KvAbstract -----------------------------
(***************************************************************************)
(* What kvsrv promises its clients: a linearizable map from keys to        *)
(* strings.  Every Put and Append takes effect exactly once between its    *)
(* call and its return, and Append returns the value it found; a Get       *)
(* returns a value the key had between its call and its return.            *)
(***************************************************************************)
EXTENDS Sequences

CONSTANTS
    Client, Key,
    Text, \* the strings clients store
    Nil   \* no call yet

VARIABLES
    value,               \* the map; a string is a sequence
    status, call, result,\* per client, its Put or Append
    getStatus, getKey, read, got \* per client, its Get

putVars == <<status, call, result>>
getVars == <<getStatus, getKey, read, got>>
vars == <<value, putVars, getVars>>

Init ==
    /\ value = [k \in Key |-> <<>>]
    /\ status = [c \in Client |-> "idle"]
    /\ call = [c \in Client |-> Nil]
    /\ result = [c \in Client |-> <<>>]
    /\ getStatus = [c \in Client |-> "idle"]
    /\ getKey = [c \in Client |-> Nil]
    /\ read = [c \in Client |-> <<>>]
    /\ got = [c \in Client |-> <<>>]

Invoke(c, op, k, v) ==
    /\ status[c] = "idle"
    /\ status' = [status EXCEPT ![c] = "pending"]
    /\ call' = [call EXCEPT ![c] = [op |-> op, Key |-> k, Value |-> v]]
    /\ UNCHANGED <<value, result, getVars>>

Apply(c) ==
    LET a == call[c] IN
    /\ status[c] = "pending"
    /\ status' = [status EXCEPT ![c] = "applied"]
    /\ value' = [value EXCEPT ![a.Key] = IF a.op = "Put" THEN a.Value ELSE @ \o a.Value]
    /\ result' = [result EXCEPT ![c] = IF a.op = "Put" THEN <<>> ELSE value[a.Key]]
    /\ UNCHANGED <<call, getVars>>

Return(c) ==
    /\ status[c] = "applied"
    /\ status' = [status EXCEPT ![c] = "idle"]
    /\ call' = [call EXCEPT ![c] = Nil]
    /\ result' = [result EXCEPT ![c] = <<>>]
    /\ UNCHANGED <<value, getVars>>

InvokeGet(c, k) ==
    /\ getStatus[c] = "idle"
    /\ getStatus' = [getStatus EXCEPT ![c] = "pending"]
    /\ getKey' = [getKey EXCEPT ![c] = k]
    /\ got' = [got EXCEPT ![c] = <<>>]
    /\ UNCHANGED <<value, putVars, read>>

Read(c) ==
    /\ getStatus[c] = "pending"
    /\ getStatus' = [getStatus EXCEPT ![c] = "read"]
    /\ read' = [read EXCEPT ![c] = value[getKey[c]]]
    /\ UNCHANGED <<value, putVars, getKey, got>>

\* A Get may start over
ReadAgain(c) ==
    /\ getStatus[c] = "read"
    /\ getStatus' = [getStatus EXCEPT ![c] = "pending"]
    /\ read' = [read EXCEPT ![c] = <<>>]
    /\ UNCHANGED <<value, putVars, getKey, got>>

ReturnGet(c) ==
    /\ getStatus[c] = "read"
    /\ getStatus' = [getStatus EXCEPT ![c] = "idle"]
    /\ got' = [got EXCEPT ![c] = read[c]]
    /\ getKey' = [getKey EXCEPT ![c] = Nil]
    /\ read' = [read EXCEPT ![c] = <<>>]
    /\ UNCHANGED <<value, putVars>>

Next ==
    \E c \in Client :
        \/ \E op \in {"Put", "Append"}, k \in Key, v \in Text : Invoke(c, op, k, v)
        \/ Apply(c) \/ Return(c)
        \/ \E k \in Key : InvokeGet(c, k)
        \/ Read(c) \/ ReadAgain(c) \/ ReturnGet(c)

Spec == Init /\ [][Next]_vars

=============================================================================
