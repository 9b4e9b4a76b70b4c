------------------------------- MODULE LabRpc -------------------------------
(***************************************************************************)
(* labrpc/labrpc.go: the simulated network between client ends and         *)
(* servers.  A call is carried by a goroutine of its own (processReq); the *)
(* handler runs in a further one, so that a call can fail while its        *)
(* handler goes on.  The delays of processReq, LongDelays and              *)
(* LongReordering only decide how long a goroutine sleeps; here every      *)
(* goroutine may rest for as long as it likes in each of its states.       *)
(*                                                                         *)
(* The owner of the network says what a handler does, and calls Enable,    *)
(* AddServer, DeleteServer, MakeEnds and Cleanup from its own actions.     *)
(***************************************************************************)
EXTENDS Integers

CONSTANTS
    Call,        \* the calls that are made, each of them once
    EndName, ServerName,
    Server,      \* the *Server objects
    Nil

VARIABLES
    connections, \* endname -> servername, Nil for an end that was not made
    enabled,
    servers,     \* servername -> *Server
    reliable,
    done,        \* Cleanup was called
    serving,     \* the goroutine that takes requests from endCh runs
    pc,          \* where processReq of a call is; "true" and "false": Call has returned it
    req,         \* what it knows: the end, and what readEndnameInfo returned
    handler      \* the goroutine that runs the handler

adminVars == <<connections, enabled, servers, reliable>>
callVars == <<pc, req, handler>>
netVars == <<adminVars, done, serving, callVars>>

NoReq == [end |-> Nil, name |-> Nil, server |-> Nil, reliable |-> TRUE]

\* What MakeNetwork makes besides its empty maps: no call yet, and the goroutine that
\* takes them
NetworkRuns ==
    /\ done = FALSE /\ serving = TRUE
    /\ pc = [c \in Call |-> "idle"]
    /\ req = [c \in Call |-> NoReq]
    /\ handler = [c \in Call |-> "none"]

-----------------------------------------------------------------------------
(* What the owner of the network does, each under the network's lock.      *)

\* MakeEnd and Connect of the ends in the domain of `to', end e to the server to[e]
MakeEnds(to) ==
    /\ \A e \in DOMAIN to : connections[e] = Nil
    /\ connections' = [e \in EndName |-> IF e \in DOMAIN to THEN to[e] ELSE connections[e]]
    /\ enabled' = [e \in EndName |-> IF e \in DOMAIN to THEN FALSE ELSE enabled[e]]

Enable(E, yes) == enabled' = [e \in EndName |-> IF e \in E THEN yes ELSE enabled[e]]

AddServer(n, server) == servers' = [servers EXCEPT ![n] = server]

DeleteServer(n) == servers' = [servers EXCEPT ![n] = Nil]

Reliable(yes) == reliable' = yes

Cleanup == done' = TRUE

-----------------------------------------------------------------------------
(* A call.                                                                 *)

Goto(c, label) == pc' = [pc EXCEPT ![c] = label]

\* The request is received from endCh and processReq started
CallSend(c, e) ==
    /\ pc[c] = "idle" /\ connections[e] # Nil
    /\ serving
    /\ req' = [req EXCEPT ![c].end = e]
    /\ Goto(c, "sent")
    /\ UNCHANGED <<adminVars, done, serving, handler>>

\* Call finds that the network was destroyed
CallDone(c, e) ==
    /\ pc[c] = "idle" /\ connections[e] # Nil
    /\ done
    /\ req' = [req EXCEPT ![c].end = e]
    /\ Goto(c, "false")
    /\ UNCHANGED <<adminVars, done, serving, handler>>

\* The goroutine of MakeNetwork ends
StopServing ==
    /\ done /\ serving
    /\ serving' = FALSE
    /\ UNCHANGED <<adminVars, done, callVars>>

ReadEndnameInfo(c) ==
    LET end == req[c].end
        name == connections[end]
        server == servers[name] IN
    /\ pc[c] = "sent"
    /\ IF enabled[end] /\ server # Nil
       THEN /\ Goto(c, "request")
            /\ req' = [req EXCEPT ![c] = [end |-> end, name |-> name, server |-> server, reliable |-> reliable]]
       ELSE Goto(c, "lost") /\ UNCHANGED req
    /\ UNCHANGED <<adminVars, done, serving, handler>>

\* A request may be dropped after the short delay
DropRequest(c) ==
    /\ pc[c] = "request" /\ ~req[c].reliable
    /\ Goto(c, "lost")
    /\ UNCHANGED <<adminVars, done, serving, req, handler>>

\* server.dispatch in a goroutine of its own
Dispatch(c) ==
    /\ pc[c] = "request"
    /\ Goto(c, "waiting")
    /\ handler' = [handler EXCEPT ![c] = "running"]
    /\ UNCHANGED <<adminVars, done, serving, req>>

\* The handler returns; what it did to the server is the owner's business
HandlerReturns(c) ==
    /\ handler[c] = "running"
    /\ handler' = [handler EXCEPT ![c] = "done"]
    /\ UNCHANGED <<adminVars, done, serving, pc, req>>

\* Fault: any server of that name will do, not only the one that was asked
SomeServerDead(c) == ~enabled[req[c].end] \/ servers[req[c].name] = Nil

IsServerDead(c) == ~enabled[req[c].end] \/ servers[req[c].name] # req[c].server

\* The reply arrives on ech
ReceiveReply(c) ==
    /\ pc[c] = "waiting" /\ handler[c] = "done"
    /\ Goto(c, "replied")
    /\ UNCHANGED <<adminVars, done, serving, req, handler>>

\* Fault: the server is looked at only when the handler has returned
StopWaitingLate(c) ==
    /\ pc[c] = "waiting" /\ handler[c] = "done" /\ IsServerDead(c)
    /\ Goto(c, "lost")
    /\ UNCHANGED <<adminVars, done, serving, req, handler>>

\* The periodic check finds the server dead; the handler's goroutine is left to drain
StopWaiting(c) ==
    /\ pc[c] = "waiting" /\ IsServerDead(c)
    /\ Goto(c, "lost")
    /\ UNCHANGED <<adminVars, done, serving, req, handler>>

\* The check before a reply is passed on, and the choice to drop it
CheckReply(c) ==
    /\ pc[c] = "replied"
    /\ \/ ~IsServerDead(c) /\ Goto(c, "reply")
       \/ (IsServerDead(c) \/ ~req[c].reliable) /\ Goto(c, "lost")
    /\ UNCHANGED <<adminVars, done, serving, req, handler>>

\* Call returns true, at once or when the timer of a reordered reply fires
CallReturnsTrue(c) ==
    /\ pc[c] = "reply"
    /\ Goto(c, "true")
    /\ UNCHANGED <<adminVars, done, serving, req, handler>>

\* Call returns false, at once or after the simulated timeout
CallReturnsFalse(c) ==
    /\ pc[c] = "lost"
    /\ Goto(c, "false")
    /\ UNCHANGED <<adminVars, done, serving, req, handler>>

\* The steps of the network that change nothing but the call
Carry(c) ==
    \/ ReadEndnameInfo(c) \/ DropRequest(c) \/ Dispatch(c)
    \/ ReceiveReply(c) \/ StopWaiting(c) \/ CheckReply(c)
    \/ CallReturnsTrue(c) \/ CallReturnsFalse(c)

Returned(c) == pc[c] \in {"true", "false"}

NetTypeOK ==
    /\ connections \in [EndName -> ServerName \cup {Nil}]
    /\ enabled \in [EndName -> BOOLEAN]
    /\ servers \in [ServerName -> Server \cup {Nil}]
    /\ reliable \in BOOLEAN /\ done \in BOOLEAN /\ serving \in BOOLEAN
    /\ pc \in [Call -> {"idle", "sent", "request", "waiting", "replied", "reply", "lost", "true", "false"}]
    /\ req \in [Call -> [end : EndName \cup {Nil}, name : ServerName \cup {Nil},
                         server : Server \cup {Nil}, reliable : BOOLEAN]]
    /\ handler \in [Call -> {"none", "running", "done"}]

=============================================================================
