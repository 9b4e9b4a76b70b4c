----------------------------- MODULE Porcupine -----------------------------
(***************************************************************************)
(* The linearizability checker of porcupine/checker.go with the key/value  *)
(* model of models/kv.go: checkOperations partitions a history by key and  *)
(* checkParallel runs one goroutine (checkSingle) per partition, which     *)
(* searches for a linearization by lifting operations out of a doubly      *)
(* linked list of calls and returns and putting them back.                 *)
(*                                                                         *)
(* The history is arbitrary.  A value is a sequence, so that append is     *)
(* concatenation.  A bitset is the set of its members; its hash only       *)
(* selects a bucket of the cache and is left out.  The tests visualize a   *)
(* history that is found illegal (porcupine/visualization.go).             *)
(***************************************************************************)
EXTENDS Integers, Sequences, FiniteSets

CONSTANTS
    Key, Value,
    Histories    \* sequences of operations

Op == {"get", "put", "append", "appendReturning"}
Operation == [Op : Op, Key : Key, Value : Value, Output : Value, Call : Int, Return : Int]

\* An operation returns after it was called; a history without operations is never
\* checked (checkParallel would wait for a result for ever)
ASSUME HistoriesAssumption ==
    \A h \in Histories : h \in Seq(Operation) /\ \A i \in DOMAIN h : h[i].Call <= h[i].Return

VARIABLES
    history,     \* the argument of checkOperations
    verbose, timed, \* its arguments verbose and timeout > 0
    search,      \* checkSingle of every partition
    results,     \* the channel the goroutines report to
    kill, ok, timedOut, count, pc, verdict, partials, \* checkParallel
    page         \* what computeVisualizationData did: nothing yet, data, or a panic

argVars == <<history, verbose, timed>>
mainVars == <<kill, ok, timedOut, count, pc, verdict, partials>>
vars == <<argVars, search, results, mainVars, page>>

-----------------------------------------------------------------------------
(* models/kv.go.                                                           *)

\* Fault: an append is applied, but what it returned is not looked at
StepIgnoresOutput(state, o) ==
    [ok |-> o.Op # "get" \/ o.Output = state,
     state |-> CASE o.Op = "get" -> state
                 [] o.Op = "put" -> o.Value
                 [] OTHER -> state \o o.Value]

\* KvModel.Init
InitState == <<>>

\* KvModel.Step: may the operation take place in this state, and which follows
KvStep(state, o) ==
    [ok |-> o.Op \notin {"get", "appendReturning"} \/ o.Output = state,
     state |-> CASE o.Op = "get" -> state
                 [] o.Op = "put" -> o.Value
                 [] OTHER -> state \o o.Value]

\* KvModel.Partition: the keys that occur, and the operations on one of them in the
\* order of the history
Partitions == {history[i].Key : i \in DOMAIN history}
OnKey(k) == {i \in DOMAIN history : history[i].Key = k}
Part(k) ==
    [n \in 1..Cardinality(OnKey(k)) |->
        history[CHOOSE i \in OnKey(k) : Cardinality({j \in OnKey(k) : j < i}) = n - 1]]

-----------------------------------------------------------------------------
(* makeEntries: calls and returns by time, calls first.                    *)

Ids(k) == DOMAIN Part(k)
Entries(k) == [kind : {"call", "return"}, id : Ids(k)]
Time(k, e) == IF e.kind = "call" THEN Part(k)[e.id].Call ELSE Part(k)[e.id].Return

\* byTime.Less.  The order of entries that it does not order is up to sort.Sort; here it
\* is that of the history
Less(k, a, b) ==
    \/ Time(k, a) < Time(k, b)
    \/ /\ Time(k, a) = Time(k, b)
       /\ \/ a.kind = "call" /\ b.kind = "return"
          \/ a.kind = b.kind /\ a.id < b.id

Position(k, e) == 1 + Cardinality({b \in Entries(k) : Less(k, b, e)})
MakeEntries(k) == [p \in 1..(2 * Len(Part(k))) |-> CHOOSE e \in Entries(k) : Position(k, e) = p]

-----------------------------------------------------------------------------
(* checkSingle.  A node of the linked list is the position of its entry; 0 *)
(* is the head and End(s) is nil.                                          *)

End(s) == Len(s.entries) + 1
IsCall(s, n) == s.entries[n].kind = "call"
Match(s, n) == CHOOSE m \in DOMAIN s.entries : s.entries[m] = [kind |-> "return", id |-> s.entries[n].id]

\* makeLinkedEntries and insertBefore: the list of m entries behind the head
Linked(m) == [next |-> [n \in 0..m |-> n + 1], prev |-> [n \in 1..(m + 1) |-> n - 1]]

\* bitset.go
NewBitset == {}
Set(b, pos) == b \cup {pos}
Clear(b, pos) == b \ {pos}
Equals(b, b2) == b = b2

\* The linked list, the empty cache and the initial state
NewSearch(k) ==
    LET list == Linked(2 * Len(Part(k))) IN
    [pc |-> "loop", entries |-> MakeEntries(k), entry |-> 1, next |-> list.next, prev |-> list.prev,
     state |-> InitState, linearized |-> NewBitset, cache |-> {}, calls |-> <<>>,
     longest |-> [i \in Ids(k) |-> <<>>]]

Unlink(s, n) ==
    [s EXCEPT !.next = [@ EXCEPT ![s.prev[n]] = s.next[n]], !.prev = [@ EXCEPT ![s.next[n]] = s.prev[n]]]
Relink(s, n) ==
    [s EXCEPT !.next = [@ EXCEPT ![s.prev[n]] = n], !.prev = [@ EXCEPT ![s.next[n]] = n]]

Lift(s, n) == Unlink(Unlink(s, n), Match(s, n))

\* Fault: only the call is put back
UnliftCall(s, n) == Relink(s, n)

Unlift(s, n) == Relink(Relink(s, Match(s, n)), n)

\* What computeVisualizationData has made so far
NoPage == [state |-> "none", largest |-> <<>>]

Init ==
    /\ history \in Histories
    /\ verbose \in BOOLEAN /\ timed \in BOOLEAN
    /\ search = [k \in Partitions |-> NewSearch(k)]
    /\ results = <<>>
    /\ kill = FALSE /\ ok = TRUE /\ timedOut = FALSE /\ count = 0
    /\ pc = "loop" /\ verdict = "none" /\ partials = {} /\ page = NoPage

\* The operations on the stack, in the order they were linearized
Linearization(s) == [i \in DOMAIN s.calls |-> s.entries[s.calls[i].entry].id]

Return(k, s, value) ==
    /\ search' = [search EXCEPT ![k] = [s EXCEPT !.pc = "returned"]]
    /\ results' = Append(results, value)
    /\ UNCHANGED <<argVars, mainVars, page>>

Continue(k, s) ==
    /\ search' = [search EXCEPT ![k] = s]
    /\ UNCHANGED <<argVars, results, mainVars, page>>

\* headEntry.next is nil: all operations are linearized
AllLinearized(k) ==
    LET s == search[k] IN
    /\ s.pc = "loop" /\ s.next[0] = End(s)
    /\ Return(k, [s EXCEPT !.longest = [i \in DOMAIN @ |-> Linearization(s)]], TRUE)

Killed(k) ==
    LET s == search[k] IN
    /\ s.pc = "loop" /\ s.next[0] # End(s) /\ kill
    /\ Return(k, s, FALSE)

CacheContains(s, linearized, state) ==
    \E e \in s.cache : Equals(linearized, e.linearized) /\ e.state = state

Running(s) == s.pc = "loop" /\ s.next[0] # End(s) /\ ~kill

\* Fault: the search starts again at the first entry
FirstEntry(s) == s.next[0]

\* Where the search goes when the operation cannot be linearized here
NextEntry(s) == s.next[s.entry]

\* The entry is a call: linearize its operation here if that is possible and new,
\* or try the next entry
TryCall(k) ==
    LET s == search[k]
        id == s.entries[s.entry].id
        step == KvStep(s.state, Part(k)[id])
        newLinearized == Set(s.linearized, id)
        lifted == Lift(s, s.entry) IN
    /\ Running(s) /\ IsCall(s, s.entry)
    /\ IF step.ok /\ ~CacheContains(s, newLinearized, step.state)
       THEN Continue(k, [lifted EXCEPT
                !.cache = @ \cup {[linearized |-> newLinearized, state |-> step.state]},
                !.calls = Append(@, [entry |-> s.entry, state |-> s.state]),
                !.state = step.state, !.linearized = newLinearized,
                !.entry = lifted.next[0]])
       ELSE Continue(k, [s EXCEPT !.entry = NextEntry(s)])

\* The entry is a return of an operation that is not linearized, and none is
NoneLinearized(k) ==
    LET s == search[k] IN
    /\ Running(s) /\ ~IsCall(s, s.entry) /\ s.calls = <<>>
    /\ Return(k, s, FALSE)

\* Fault: a longer sequence does not replace the one that was found first
FirstFound(s) ==
    [i \in DOMAIN s.longest |->
        IF i \in s.linearized /\ s.longest[i] = <<>> THEN Linearization(s) ELSE s.longest[i]]

\* The longest sequence found so far that includes each operation
Longest(s) ==
    [i \in DOMAIN s.longest |->
        IF i \in s.linearized /\ Len(s.calls) > Len(s.longest[i]) THEN Linearization(s) ELSE s.longest[i]]

\* The entry is such a return: undo the last operation and go on behind its call
Backtrack(k) ==
    LET s == search[k]
        top == s.calls[Len(s.calls)]
        unlifted == Unlift(s, top.entry) IN
    /\ Running(s) /\ ~IsCall(s, s.entry) /\ s.calls # <<>>
    /\ Continue(k, [unlifted EXCEPT
           !.longest = IF verbose THEN Longest(s) ELSE @,
           !.state = top.state, !.linearized = Clear(@, s.entries[top.entry].id),
           !.calls = SubSeq(@, 1, Len(@) - 1),
           !.entry = unlifted.next[top.entry]])

CheckSingle(k) == AllLinearized(k) \/ Killed(k) \/ TryCall(k) \/ NoneLinearized(k) \/ Backtrack(k)

-----------------------------------------------------------------------------
(* checkParallel.                                                          *)

\* Fault: after the timeout, results are still taken into account
TimeoutGoesOn ==
    /\ pc = "loop" /\ timed /\ ~timedOut
    /\ timedOut' = TRUE /\ kill' = TRUE
    /\ UNCHANGED <<argVars, search, results, ok, count, pc, verdict, partials, page>>

Timeout ==
    /\ pc = "loop" /\ timed
    /\ timedOut' = TRUE /\ kill' = TRUE
    /\ pc' = "finish"
    /\ UNCHANGED <<argVars, search, results, ok, count, verdict, partials, page>>

\* The result of a partition; without verbose the first bad one is enough
ReceiveResult ==
    /\ pc = "loop" /\ results # <<>>
    /\ results' = Tail(results)
    /\ count' = count + 1
    /\ ok' = (ok /\ Head(results))
    /\ kill' = (kill \/ (~ok' /\ ~verbose))
    /\ pc' = IF (~ok' /\ ~verbose) \/ count' >= Cardinality(Partitions) THEN "finish" ELSE "loop"
    /\ UNCHANGED <<argVars, search, timedOut, verdict, partials, page>>

\* verbose: wait for the goroutines that are still running
Drain ==
    /\ pc = "finish" /\ verbose /\ count < Cardinality(Partitions)
    /\ results # <<>>
    /\ results' = Tail(results)
    /\ count' = count + 1
    /\ UNCHANGED <<argVars, search, kill, ok, timedOut, pc, verdict, partials, page>>

Finish ==
    /\ pc = "finish" /\ (verbose => count = Cardinality(Partitions))
    /\ partials' = IF verbose
                   THEN (UNION {{<<k, search[k].longest[i]>> : i \in Ids(k)} : k \in Partitions})
                        \ {<<k, <<>>>> : k \in Partitions}
                   ELSE {}
    /\ verdict' = IF ~ok THEN "Illegal" ELSE IF timedOut THEN "Unknown" ELSE "Ok"
    /\ pc' = "done"
    /\ UNCHANGED <<argVars, search, results, kill, ok, timedOut, count, page>>

CheckParallel == Timeout \/ ReceiveResult \/ Drain \/ Finish

-----------------------------------------------------------------------------
(* computeVisualizationData, which the tests call for an illegal history.  *)

\* model.Step along a partial linearization
Replay(k, order) ==
    LET after[n \in 0..Len(order)] ==
            IF n = 0 THEN [ok |-> TRUE, state |-> InitState]
            ELSE LET step == KvStep(after[n - 1].state, Part(k)[order[n]])
                 IN  [ok |-> after[n - 1].ok /\ step.ok, state |-> step.state]
    IN after[Len(order)].ok

\* largestIndex: of the partial linearizations with an operation, the first of those
\* sorted by length; partial linearizations of one length are in any order
With(k, i) == {p[2] : p \in {q \in partials : q[1] = k /\ \E n \in DOMAIN q[2] : q[2][n] = i}}
Largest(k, i) ==
    IF With(k, i) = {} THEN <<>> ELSE CHOOSE p \in With(k, i) : \A q \in With(k, i) : Len(p) >= Len(q)

Visualize ==
    /\ pc = "done" /\ verdict = "Illegal" /\ verbose /\ page.state = "none"
    /\ page' = IF \E p \in partials : ~Replay(p[1], p[2]) THEN [NoPage EXCEPT !.state = "panic"]
               ELSE [state |-> "data",
                     largest |-> [k \in Partitions |-> [i \in Ids(k) |-> Largest(k, i)]]]
    /\ UNCHANGED <<argVars, search, results, mainVars>>

Next == CheckParallel \/ Visualize \/ \E k \in Partitions : CheckSingle(k)

Spec == Init /\ [][Next]_vars

\* Every goroutine runs; the timer need not fire
FairSpec ==
    /\ Spec
    /\ WF_vars(ReceiveResult \/ Drain \/ Finish)
    /\ \A k \in Key : WF_vars(k \in Partitions /\ CheckSingle(k))

-----------------------------------------------------------------------------
(* The reference: a history is linearizable if its operations can be put   *)
(* in an order that respects real time and in which a map from keys to     *)
(* values returns what they returned.                                      *)

\* Sequences of different members of S
Arrangements(S) ==
    UNION {{f \in [1..n -> S] : \A i, j \in 1..n : f[i] = f[j] => i = j} : n \in 0..Cardinality(S)}

\* An operation that returned before another was called comes before it
RealTime(ops, order) ==
    \A i \in DOMAIN order, x \in DOMAIN ops :
        ops[x].Return < ops[order[i]].Call => \E j \in 1..(i - 1) : order[j] = x

\* The maps an order goes through
Maps(ops, order) ==
    LET map[n \in 0..Len(order)] ==
            IF n = 0 THEN [k \in Key |-> <<>>]
            ELSE LET o == ops[order[n]] old == map[n - 1] IN
                 CASE o.Op = "get" -> old
                   [] o.Op = "put" -> [old EXCEPT ![o.Key] = o.Value]
                   [] OTHER -> [old EXCEPT ![o.Key] = @ \o o.Value]
    IN map

Legal(ops, order) ==
    /\ RealTime(ops, order)
    /\ LET map == Maps(ops, order) IN
       \A n \in DOMAIN order :
            ops[order[n]].Op \in {"get", "appendReturning"} =>
                ops[order[n]].Output = map[n - 1][ops[order[n]].Key]

Linearizable ==
    \E order \in Arrangements(DOMAIN history) : Len(order) = Len(history) /\ Legal(history, order)

-----------------------------------------------------------------------------
(* Properties.                                                             *)

\* The verdict is that of the definition, for the whole history although it was found
\* per key, whichever partition ends first and whenever the timer fires: Ok and Illegal
\* are never wrong, and Unknown is said only after a timeout.
VerdictRight ==
    pc = "done" =>
        CASE verdict = "Ok" -> Linearizable
          [] verdict = "Illegal" -> ~Linearizable
          [] OTHER -> timed /\ timedOut

\* The partial linearizations that are shown when a history is not linearizable can be
\* replayed step by step, so that computeVisualizationData does not panic, and they
\* respect real time; also when the search was cut short by a timeout.
PartialsLegal ==
    page.state # "panic" /\ \A p \in partials : Legal(Part(p[1]), p[2])

\* Unless time ran out, the search has found for each operation a partial linearization
\* than which none that includes it is longer (the comment of longest, checker.go:185),
\* although the cache cuts branches of the search, and the page shows one as long.
PartialsLongest ==
    pc = "done" /\ verbose /\ ~timedOut =>
        \A k \in Partitions : \A i \in Ids(k) : \A order \in Arrangements(Ids(k)) :
            i \in {order[n] : n \in DOMAIN order} /\ Legal(Part(k), order) =>
                /\ Len(search[k].longest[i]) >= Len(order)
                /\ page.state = "data" => Len(page.largest[k][i]) >= Len(order)

\* The list that lifting and putting back leave behind links exactly the entries of the
\* operations that are not linearized, forwards and backwards.
ListExact ==
    \A k \in Partitions :
        LET s == search[k]
            left == {n \in DOMAIN s.entries : s.entries[n].id \notin s.linearized} IN
        \A n \in left \cup {0} :
            LET after == {m \in left : m > n} IN
            IF after = {} THEN s.next[n] = End(s)
            ELSE /\ s.next[n] \in after /\ \A m \in after : s.next[n] <= m
                 /\ s.prev[s.next[n]] = n

\* A check returns, with or without a timeout.
CheckReturns == <>(pc = "done")

=============================================================================
