-------------------------- MODULE PorcupineProofs --------------------------
(***************************************************************************)
(* The checker of porcupine/checker.go for every history: any number of    *)
(* keys and operations, and every interleaving of the goroutines.          *)
(*                                                                         *)
(* The linked list.  lift takes a call and its return out of the list and  *)
(* leaves their own links as they were; unlift uses these links to put     *)
(* them back.  That is right only because operations are put back in the   *)
(* reverse order: what an entry on the stack points to are its neighbours  *)
(* in the list as it was when the entry was taken out (Frame).             *)
(*                                                                         *)
(* The search.  The stack of calls is a run, a legal sequence of           *)
(* operations.  A pair of linearized operations and a state is explored    *)
(* when every run through it is known not to be complete and, with         *)
(* verbose, to be no longer than what is recorded for its operations.      *)
(* What is in the cache is on the stack or explored, and so is what was    *)
(* tried before the current entry; that a run cannot go on with an         *)
(* operation behind the first return that is left is what the order of     *)
(* the entries gives.                                                      *)
(*                                                                         *)
(* Keys.  A history is linearizable exactly if each of its partitions has  *)
(* a complete run: the runs are merged by taking, again and again, the     *)
(* next operation on the key of the operation that returns first.          *)
(*                                                                         *)
(* checkParallel.  Results of searches that were cut short are in the      *)
(* channel too; they are never taken into account.                         *)
(***************************************************************************)
EXTENDS Porcupine, FunctionTheorems, FiniteSetTheorems, SequenceTheorems, WellFoundedInduction, TLAPS

-----------------------------------------------------------------------------
(* Ranks.  Sorting gives every entry a place of its own.                   *)

Below(S, R, x) == {y \in S : <<y, x>> \in R}

\* R orders S
Orders(R, S) ==
    /\ \A x \in S : <<x, x>> \notin R
    /\ \A x, y \in S : x # y => <<x, y>> \in R \/ <<y, x>> \in R
    /\ \A x, y, z \in S : <<x, y>> \in R /\ <<y, z>> \in R => <<x, z>> \in R

\* What is further up has more below it.
LEMMA RankGrows ==
    ASSUME NEW S, IsFiniteSet(S), NEW R, Orders(R, S), NEW x \in S, NEW y \in S, <<x, y>> \in R
    PROVE  Cardinality(Below(S, R, x)) < Cardinality(Below(S, R, y))
<1> DEFINE A == Below(S, R, x)
           B == Below(S, R, y)
<1>1. A \in SUBSET S /\ B \in SUBSET S /\ x \notin A /\ A \cup {x} \in SUBSET B
  BY DEF Below, Orders
<1>2. IsFiniteSet(A) /\ IsFiniteSet(B)
  BY <1>1, FS_Subset
<1> HIDE DEF A, B
<1>3. Cardinality(A \cup {x}) = Cardinality(A) + 1
  BY <1>1, <1>2, FS_AddElement
<1>4. Cardinality(A \cup {x}) <= Cardinality(B)
  BY <1>1, <1>2, FS_Subset
<1>5. Cardinality(A) \in Nat /\ Cardinality(B) \in Nat
  BY <1>2, FS_CardinalityType
<1>6. Cardinality(A) < Cardinality(B)
  BY <1>3, <1>4, <1>5
<1> QED BY <1>6 DEF A, B

\* Every place from 0 on is taken by one member of S.
LEMMA Ranks ==
    ASSUME NEW S, IsFiniteSet(S), NEW R, Orders(R, S)
    PROVE  /\ Cardinality(S) \in Nat
           /\ \A x \in S : Cardinality(Below(S, R, x)) \in 0..(Cardinality(S) - 1)
           /\ \A x, y \in S : Cardinality(Below(S, R, x)) = Cardinality(Below(S, R, y)) => x = y
           /\ \A n \in 0..(Cardinality(S) - 1) : \E x \in S : Cardinality(Below(S, R, x)) = n
<1> DEFINE N == Cardinality(S)
           f == [x \in S |-> Cardinality(Below(S, R, x))]
<1>0. N \in Nat
  BY FS_CardinalityType
<1>1. ASSUME NEW x \in S PROVE f[x] \in 0..(N - 1)
  <2>1. Below(S, R, x) \in SUBSET (S \ {x})
    BY DEF Below, Orders
  <2>2. IsFiniteSet(S \ {x}) /\ Cardinality(S \ {x}) = N - 1
    BY FS_RemoveElement
  <2>3. IsFiniteSet(Below(S, R, x)) /\ Cardinality(Below(S, R, x)) <= N - 1
    BY <2>1, <2>2, FS_Subset
  <2>4. Cardinality(Below(S, R, x)) \in Nat
    BY <2>3, FS_CardinalityType
  <2> QED BY <1>0, <2>3, <2>4
<1>2. ASSUME NEW x \in S, NEW y \in S, f[x] = f[y] PROVE x = y
  <2> SUFFICES ASSUME x # y PROVE FALSE
    OBVIOUS
  <2>1. <<x, y>> \in R \/ <<y, x>> \in R
    BY DEF Orders
  <2>2. f[x] < f[y] \/ f[y] < f[x]
    BY <2>1, RankGrows
  <2>3. f[x] \in Int /\ f[y] \in Int
    BY <1>0, <1>1
  <2> HIDE DEF f
  <2> QED BY <1>2, <2>2, <2>3
<1>3. ASSUME NEW n \in 0..(N - 1) PROVE \E x \in S : f[x] = n
  <2> SUFFICES ASSUME \A x \in S : f[x] # n PROVE FALSE
    OBVIOUS
  <2> DEFINE T == (0..(N - 1)) \ {n}
  <2>1. IsFiniteSet(0..(N - 1)) /\ Cardinality(0..(N - 1)) = N
    BY <1>0, FS_Interval
  <2>2. IsFiniteSet(T) /\ Cardinality(T) = N - 1
    <3> DEFINE D == 0..(N - 1)
    <3> HIDE DEF N
    <3>1. IsFiniteSet(D) /\ Cardinality(D) = N /\ n \in D
      BY <2>1
    <3> HIDE DEF D
    <3>2. IsFiniteSet(D \ {n}) /\ Cardinality(D \ {n}) = Cardinality(D) - 1
      BY <3>1, FS_RemoveElement
    <3> QED BY <3>1, <3>2 DEF D
  <2>3. f \in [S -> T]
    BY <1>1
  <2>4. Cardinality(T) < Cardinality(S)
    BY <1>0, <2>2
  <2> HIDE DEF f, T
  <2>5. \E x, y \in S : x # y /\ f[x] = f[y]
    BY <2>2, <2>3, <2>4, FS_PigeonHole
  <2> QED BY <1>2, <2>5
<1> QED BY <1>0, <1>1, <1>2, <1>3

-----------------------------------------------------------------------------
(* The list.  L is the set of entries in the list of m entries.            *)

\* x is what follows n in L, or the end
IsNext(L, m, n, x) == (x \in L \/ x = m + 1) /\ x > n /\ \A y \in L : ~(n < y /\ y < x)
\* x is what precedes n in L, or the head
IsPrev(L, n, x) == (x \in L \/ x = 0) /\ x < n /\ \A y \in L : ~(x < y /\ y < n)

Links(next, prev, L, m) ==
    /\ next \in [0..m -> Int] /\ prev \in [1..(m + 1) -> Int]
    /\ \A n \in L \cup {0} : IsNext(L, m, n, next[n])
    /\ \A n \in L \cup {m + 1} : IsPrev(L, n, prev[n])

\* The list that makeLinkedEntries builds is linked in order.
LEMMA LinkedOK ==
    ASSUME NEW m \in Nat
    PROVE  Links(Linked(m).next, Linked(m).prev, 1..m, m)
BY DEF Links, Linked, IsNext, IsPrev

\* f and g have the same values on X
Same(f, g, X) == \A x \in X : f[x] = g[x]

\* The links when c is taken out, and when it is put back
NextWithout(next, prev, c) == [next EXCEPT ![prev[c]] = next[c]]
PrevWithout(next, prev, c) == [prev EXCEPT ![next[c]] = prev[c]]
NextWith(next, prev, c) == [next EXCEPT ![prev[c]] = c]
PrevWith(next, prev, c) == [prev EXCEPT ![next[c]] = c]

\* Taking c out leaves the links of c and of everything outside the list alone.
LEMMA UnlinkOK ==
    ASSUME NEW m \in Nat, NEW L, (\A y \in L : y \in 1..m), NEW c \in L, NEW next, NEW prev,
           Links(next, prev, L, m)
    PROVE  LET next2 == NextWithout(next, prev, c)
               prev2 == PrevWithout(next, prev, c) IN
           /\ Links(next2, prev2, L \ {c}, m)
           /\ Same(next2, next, (1..m) \ (L \ {c})) /\ Same(prev2, prev, (1..m) \ (L \ {c}))
<1> DEFINE next2 == NextWithout(next, prev, c)
           prev2 == PrevWithout(next, prev, c)
<1>1. IsNext(L, m, c, next[c]) /\ IsPrev(L, c, prev[c])
  BY DEF Links
<1>2. /\ next[c] \in L \/ next[c] = m + 1
      /\ prev[c] \in L \/ prev[c] = 0
      /\ next[c] > c /\ prev[c] < c
  BY <1>1 DEF IsNext, IsPrev
<1>2a. next[c] \in 1..(m + 1) /\ prev[c] \in 0..m
  BY <1>2
<1>3. /\ next2 \in [0..m -> Int] /\ prev2 \in [1..(m + 1) -> Int]
      /\ next2[prev[c]] = next[c] /\ \A n \in 0..m : n # prev[c] => next2[n] = next[n]
      /\ prev2[next[c]] = prev[c] /\ \A n \in 1..(m + 1) : n # next[c] => prev2[n] = prev[n]
  BY <1>2a DEF Links, NextWithout, PrevWithout
<1> HIDE DEF next2, prev2
<1>4. ASSUME NEW n \in (L \ {c}) \cup {0} PROVE IsNext(L \ {c}, m, n, next2[n])
  <2>a. n \in 0..m /\ n \in L \cup {0}
    OBVIOUS
  <2>0. n \in 0..m /\ IsNext(L, m, n, next[n])
    BY <2>a DEF Links
  <2>1. CASE n = prev[c]
    BY <1>1, <1>2, <1>2a, <1>3, <2>0, <2>1 DEF IsNext, IsPrev
  <2>2. CASE n # prev[c]
    <3>1. next[n] # c
      BY <1>1, <1>2, <1>2a, <2>0, <2>2 DEF IsNext, IsPrev
    <3> QED BY <1>3, <2>0, <2>2, <3>1 DEF IsNext
  <2> QED BY <2>1, <2>2
<1>5. ASSUME NEW n \in (L \ {c}) \cup {m + 1} PROVE IsPrev(L \ {c}, n, prev2[n])
  <2>a. n \in 1..(m + 1) /\ n \in L \cup {m + 1}
    OBVIOUS
  <2>0. n \in 1..(m + 1) /\ IsPrev(L, n, prev[n])
    BY <2>a DEF Links
  <2>1. CASE n = next[c]
    BY <1>1, <1>2, <1>2a, <1>3, <2>0, <2>1 DEF IsNext, IsPrev
  <2>2. CASE n # next[c]
    <3>1. prev[n] # c
      BY <1>1, <1>2, <1>2a, <2>0, <2>2 DEF IsNext, IsPrev
    <3> QED BY <1>3, <2>0, <2>2, <3>1 DEF IsPrev
  <2> QED BY <2>1, <2>2
<1>6. Links(next2, prev2, L \ {c}, m)
  BY <1>3, <1>4, <1>5 DEF Links
<1>7. next2[c] = next[c] /\ prev2[c] = prev[c]
  BY <1>2, <1>2a, <1>3
<1>8. ASSUME NEW x \in (1..m) \ L PROVE next2[x] = next[x] /\ prev2[x] = prev[x]
  <2>1. x # prev[c] /\ x # next[c] /\ x \in 0..m /\ x \in 1..(m + 1)
    BY <1>2
  <2> QED BY <1>3, <2>1
<1>9. Same(next2, next, (1..m) \ (L \ {c})) /\ Same(prev2, prev, (1..m) \ (L \ {c}))
  BY <1>7, <1>8 DEF Same
<1> QED BY <1>6, <1>9 DEF next2, prev2

\* Putting c back between the neighbours it still points to.
LEMMA RelinkOK ==
    ASSUME NEW m \in Nat, NEW L, (\A y \in L : y \in 1..m), NEW c \in (1..m) \ L, NEW next, NEW prev,
           Links(next, prev, L, m), IsNext(L, m, c, next[c]), IsPrev(L, c, prev[c])
    PROVE  LET next2 == NextWith(next, prev, c)
               prev2 == PrevWith(next, prev, c) IN
           /\ Links(next2, prev2, L \cup {c}, m)
           /\ Same(next2, next, (1..m) \ L) /\ Same(prev2, prev, (1..m) \ L)
<1> DEFINE next2 == NextWith(next, prev, c)
           prev2 == PrevWith(next, prev, c)
<1>1. (next[c] \in L \/ next[c] = m + 1) /\ next[c] > c /\ \A y \in L : ~(c < y /\ y < next[c])
  BY DEF IsNext
<1>2. (prev[c] \in L \/ prev[c] = 0) /\ prev[c] < c /\ \A y \in L : ~(prev[c] < y /\ y < c)
  BY DEF IsPrev
<1>3. next[c] \in 1..(m + 1) /\ prev[c] \in 0..m
  BY <1>1, <1>2
<1>4. /\ next2 \in [0..m -> Int] /\ prev2 \in [1..(m + 1) -> Int]
      /\ next2[prev[c]] = c /\ \A n \in 0..m : n # prev[c] => next2[n] = next[n]
      /\ prev2[next[c]] = c /\ \A n \in 1..(m + 1) : n # next[c] => prev2[n] = prev[n]
  BY <1>3 DEF Links, NextWith, PrevWith
<1> HIDE DEF next2, prev2
<1>5. ASSUME NEW n \in (L \cup {c}) \cup {0} PROVE IsNext(L \cup {c}, m, n, next2[n])
  <2>1. CASE n = prev[c]
    BY <1>2, <1>4, <2>1 DEF IsNext
  <2>2. CASE n = c
    <3>1. next2[n] = next[c]
      BY <1>2, <1>3, <1>4, <2>2
    <3> QED BY <1>1, <2>2, <3>1 DEF IsNext
  <2>3. CASE n # prev[c] /\ n # c
    <3>1. n \in 0..m /\ n \in L \cup {0} /\ IsNext(L, m, n, next[n])
      BY <2>3 DEF Links
    <3>2. (next[n] \in L \/ next[n] = m + 1) /\ next[n] > n /\ \A y \in L : ~(n < y /\ y < next[n])
      BY <3>1 DEF IsNext
    <3>3. ~(n < c /\ c < next[n])
      <4> SUFFICES ASSUME n < c, c < next[n] PROVE FALSE
        OBVIOUS
      <4>0. next[n] \in Int
        BY <3>2
      <4>1. CASE prev[c] < n
        BY <1>2, <1>3, <3>1, <4>1
      <4>2. CASE n < prev[c]
        BY <1>2, <1>3, <3>1, <3>2, <4>0, <4>2
      <4> QED BY <1>3, <2>3, <3>1, <4>1, <4>2
    <3>4. next2[n] = next[n]
      BY <1>4, <2>3, <3>1
    <3> QED BY <3>2, <3>3, <3>4 DEF IsNext
  <2> QED BY <2>1, <2>2, <2>3
<1>6. ASSUME NEW n \in (L \cup {c}) \cup {m + 1} PROVE IsPrev(L \cup {c}, n, prev2[n])
  <2>1. CASE n = next[c]
    BY <1>1, <1>4, <2>1 DEF IsPrev
  <2>2. CASE n = c
    <3>1. prev2[n] = prev[c]
      BY <1>1, <1>3, <1>4, <2>2
    <3> QED BY <1>2, <2>2, <3>1 DEF IsPrev
  <2>3. CASE n # next[c] /\ n # c
    <3>1. n \in 1..(m + 1) /\ n \in L \cup {m + 1} /\ IsPrev(L, n, prev[n])
      BY <2>3 DEF Links
    <3>2. (prev[n] \in L \/ prev[n] = 0) /\ prev[n] < n /\ \A y \in L : ~(prev[n] < y /\ y < n)
      BY <3>1 DEF IsPrev
    <3>3. ~(prev[n] < c /\ c < n)
      <4> SUFFICES ASSUME prev[n] < c, c < n PROVE FALSE
        OBVIOUS
      <4>0. prev[n] \in Int
        BY <3>2
      <4>1. CASE n < next[c]
        BY <1>1, <1>3, <3>1, <4>1
      <4>2. CASE next[c] < n
        BY <1>1, <1>3, <3>1, <3>2, <4>0, <4>2
      <4> QED BY <1>3, <2>3, <3>1, <4>1, <4>2
    <3>4. prev2[n] = prev[n]
      BY <1>4, <2>3, <3>1
    <3> QED BY <3>2, <3>3, <3>4 DEF IsPrev
  <2> QED BY <2>1, <2>2, <2>3
<1>7. Links(next2, prev2, L \cup {c}, m)
  BY <1>4, <1>5, <1>6 DEF Links
<1>8. ASSUME NEW x \in (1..m) \ L PROVE next2[x] = next[x] /\ prev2[x] = prev[x]
  <2>1. x # prev[c] /\ x # next[c] /\ x \in 0..m /\ x \in 1..(m + 1)
    BY <1>1, <1>2
  <2> QED BY <1>4, <2>1
<1>9. Same(next2, next, (1..m) \ L) /\ Same(prev2, prev, (1..m) \ L)
  BY <1>8 DEF Same
<1> QED BY <1>7, <1>9 DEF next2, prev2

-----------------------------------------------------------------------------
(* lift and unlift.  The call of the operation is entry c, its return r.   *)

\* What the entries of an operation that was taken out point to: the neighbours of the
\* return in the list without the operation, those of the call in the list with the return
Frame(next, prev, L, m, c, r) ==
    /\ IsNext(L, m, r, next[r]) /\ IsPrev(L, r, prev[r])
    /\ IsNext(L \cup {r}, m, c, next[c]) /\ IsPrev(L \cup {r}, c, prev[c])

\* lift takes both entries out, gives them their frame, and leaves the links of entries that
\* are not in the list alone.
LEMMA LiftLinks ==
    ASSUME NEW m \in Nat, NEW L, (\A y \in L : y \in 1..m), NEW c \in L, NEW r \in L, c # r,
           NEW next, NEW prev, Links(next, prev, L, m)
    PROVE  LET next2 == NextWithout(next, prev, c)
               prev2 == PrevWithout(next, prev, c)
               next3 == NextWithout(next2, prev2, r)
               prev3 == PrevWithout(next2, prev2, r) IN
           /\ Links(next3, prev3, L \ {c, r}, m)
           /\ Frame(next3, prev3, L \ {c, r}, m, c, r)
           /\ Same(next3, next, (1..m) \ L) /\ Same(prev3, prev, (1..m) \ L)
<1> DEFINE K == L \ {c}
           next2 == NextWithout(next, prev, c)
           prev2 == PrevWithout(next, prev, c)
           next3 == NextWithout(next2, prev2, r)
           prev3 == PrevWithout(next2, prev2, r)
<1>1. Links(next2, prev2, K, m) /\ Same(next2, next, (1..m) \ K) /\ Same(prev2, prev, (1..m) \ K)
  BY UnlinkOK
<1>2. /\ \A y \in K : y \in 1..m
      /\ r \in K /\ c \in (1..m) \ K /\ r \in (1..m) \ (K \ {r}) /\ K \ {r} = L \ {c, r}
  OBVIOUS
<1>2a. \A x \in (1..m) \ L : x \in (1..m) \ K /\ x \in (1..m) \ (K \ {r})
  OBVIOUS
<1>2b. c \in (1..m) \ (K \ {r})
  OBVIOUS
<1>2c. (K \ {r}) \cup {r} = L \ {c}
  OBVIOUS
<1> HIDE DEF K, next2, prev2
<1>3. /\ Links(next3, prev3, K \ {r}, m)
      /\ Same(next3, next2, (1..m) \ (K \ {r})) /\ Same(prev3, prev2, (1..m) \ (K \ {r}))
  BY <1>1, <1>2, UnlinkOK
<1> HIDE DEF next3, prev3
<1>4. /\ IsNext(L, m, c, next[c]) /\ IsPrev(L, c, prev[c])
      /\ IsNext(K, m, r, next2[r]) /\ IsPrev(K, r, prev2[r])
  BY <1>1, <1>2 DEF Links
<1>5. next3[c] = next[c] /\ prev3[c] = prev[c] /\ next3[r] = next2[r] /\ prev3[r] = prev2[r]
  BY <1>1, <1>2, <1>2b, <1>3 DEF Same
<1>6. IsNext(K \ {r}, m, r, next3[r]) /\ IsPrev(K \ {r}, r, prev3[r])
  BY <1>2, <1>4, <1>5 DEF IsNext, IsPrev
<1>7. IsNext(L \ {c}, m, c, next3[c]) /\ IsPrev(L \ {c}, c, prev3[c])
  BY <1>4, <1>5 DEF IsNext, IsPrev
<1>8. Frame(next3, prev3, K \ {r}, m, c, r)
  BY <1>2c, <1>6, <1>7 DEF Frame
<1>9. Same(next3, next, (1..m) \ L) /\ Same(prev3, prev, (1..m) \ L)
  BY <1>1, <1>2a, <1>3 DEF Same
<1> QED BY <1>2, <1>3, <1>8, <1>9 DEF next2, prev2, next3, prev3

\* unlift puts both back, if they have kept their frame.
LEMMA UnliftLinks ==
    ASSUME NEW m \in Nat, NEW L, (\A y \in L : y \in 1..m),
           NEW c \in (1..m) \ L, NEW r \in (1..m) \ L, c # r,
           NEW next, NEW prev, Links(next, prev, L, m), Frame(next, prev, L, m, c, r)
    PROVE  LET next2 == NextWith(next, prev, r)
               prev2 == PrevWith(next, prev, r)
               next3 == NextWith(next2, prev2, c)
               prev3 == PrevWith(next2, prev2, c)
               K == L \cup {c, r} IN
           /\ Links(next3, prev3, K, m)
           /\ Same(next3, next, (1..m) \ K) /\ Same(prev3, prev, (1..m) \ K)
<1> DEFINE K == L \cup {r}
           next2 == NextWith(next, prev, r)
           prev2 == PrevWith(next, prev, r)
           next3 == NextWith(next2, prev2, c)
           prev3 == PrevWith(next2, prev2, c)
<1>1. /\ IsNext(L, m, r, next[r]) /\ IsPrev(L, r, prev[r])
      /\ IsNext(K, m, c, next[c]) /\ IsPrev(K, c, prev[c])
  BY DEF Frame
<1>2. Links(next2, prev2, K, m) /\ Same(next2, next, (1..m) \ L) /\ Same(prev2, prev, (1..m) \ L)
  BY <1>1, RelinkOK
<1>3. /\ \A y \in K : y \in 1..m
      /\ c \in (1..m) \ K /\ K \cup {c} = L \cup {c, r}
  OBVIOUS
<1>3a. \A x \in (1..m) \ (L \cup {c, r}) : x \in (1..m) \ K /\ x \in (1..m) \ L
  OBVIOUS
<1> HIDE DEF K, next2, prev2
<1>4. IsNext(K, m, c, next2[c]) /\ IsPrev(K, c, prev2[c])
  BY <1>1, <1>2 DEF Same
<1>5. Links(next3, prev3, K \cup {c}, m) /\ Same(next3, next2, (1..m) \ K) /\ Same(prev3, prev2, (1..m) \ K)
  BY <1>2, <1>3, <1>4, RelinkOK
<1> HIDE DEF next3, prev3
<1>6. /\ Same(next3, next, (1..m) \ (L \cup {c, r}))
      /\ Same(prev3, prev, (1..m) \ (L \cup {c, r}))
  BY <1>2, <1>3a, <1>5 DEF Same
<1> QED BY <1>3, <1>5, <1>6 DEF next2, prev2, next3, prev3

-----------------------------------------------------------------------------
(* The invariant of checkSingle.                                           *)

\* A call and a return for each operation, the call first
GoodEntries(es) ==
    /\ es \in Seq([kind : {"call", "return"}, id : Nat])
    /\ \A i, j \in DOMAIN es : es[i] = es[j] => i = j
    /\ \A c \in DOMAIN es : es[c].kind = "call" =>
           \E r \in DOMAIN es : r > c /\ es[r] = [kind |-> "return", id |-> es[c].id]

Ret(es, n) == CHOOSE m \in DOMAIN es : es[m] = [kind |-> "return", id |-> es[n].id]

\* The entries that are in the list when the first i operations of the stack are not
Rest(es, calls, i) ==
    {n \in DOMAIN es : \A j \in 1..i : es[n].id # es[calls[j].entry].id}

IsSeq(q) == q \in Seq({q[i] : i \in DOMAIN q})

\* The links of every operation on the stack are those of the list it was taken out of
ListInv(es, next, prev, calls, lin) ==
    /\ IsSeq(calls)
    /\ lin = {es[calls[i].entry].id : i \in 1..Len(calls)}
    /\ \A i \in 1..Len(calls) :
           /\ calls[i].entry \in Rest(es, calls, i - 1) /\ es[calls[i].entry].kind = "call"
           /\ Frame(next, prev, Rest(es, calls, i), Len(es), calls[i].entry, Ret(es, calls[i].entry))
    /\ Links(next, prev, Rest(es, calls, Len(calls)), Len(es))

IsSearch(s) ==
    s = [pc |-> s.pc, entries |-> s.entries, entry |-> s.entry, next |-> s.next, prev |-> s.prev,
         state |-> s.state, linearized |-> s.linearized, cache |-> s.cache, calls |-> s.calls,
         longest |-> s.longest]

SearchInv(s) ==
    /\ IsSearch(s)
    /\ GoodEntries(s.entries)
    /\ ListInv(s.entries, s.next, s.prev, s.calls, s.linearized)
    /\ s.pc = "loop" /\ s.next[0] # End(s) => s.entry \in Rest(s.entries, s.calls, Len(s.calls))

ListIInv == search = [k \in Partitions |-> search[k]] /\ \A k \in Partitions : SearchInv(search[k])

\* The entries of the operation whose call is c.
LEMMA Pair ==
    ASSUME NEW es, GoodEntries(es), NEW c \in DOMAIN es, es[c].kind = "call"
    PROVE  /\ Ret(es, c) \in DOMAIN es /\ Ret(es, c) > c
           /\ \A n \in DOMAIN es : es[n].id = es[c].id <=> n \in {c, Ret(es, c)}
<1> DEFINE ret == [kind |-> "return", id |-> es[c].id]
<1>1. PICK r \in DOMAIN es : r > c /\ es[r] = ret
  BY DEF GoodEntries
<1>2. Ret(es, c) \in DOMAIN es /\ es[Ret(es, c)] = ret
  BY <1>1 DEF Ret
<1>3. Ret(es, c) = r
  BY <1>1, <1>2 DEF GoodEntries
<1>4. ASSUME NEW n \in DOMAIN es, es[n].id = es[c].id PROVE n \in {c, r}
  <2> DEFINE E == [kind : {"call", "return"}, id : Nat]
  <2>a. es \in Seq(E)
    BY DEF GoodEntries
  <2> HIDE DEF E
  <2>b. es[n] \in E /\ es[c] \in E
    BY <2>a
  <2>1. es[n] \in [kind : {"call", "return"}, id : Nat] /\ es[c] \in [kind : {"call", "return"}, id : Nat]
    BY <2>b DEF E
  <2>2. CASE es[n].kind = "call"
    <3>1. es[n] = es[c]
      BY <1>4, <2>1, <2>2
    <3> QED BY <3>1 DEF GoodEntries
  <2>3. CASE es[n].kind = "return"
    <3>1. es[n] = es[r]
      BY <1>1, <1>4, <2>1, <2>3
    <3> QED BY <3>1 DEF GoodEntries
  <2> QED BY <2>1, <2>2, <2>3
<1>5. es[r].id = es[c].id
  BY <1>1
<1> QED BY <1>1, <1>3, <1>4, <1>5

\* A frame says something of the links of its two entries only.
LEMMA FrameKept ==
    ASSUME NEW next, NEW prev, NEW L, NEW m, NEW c, NEW r, Frame(next, prev, L, m, c, r),
           NEW X, c \in X, r \in X, NEW next2, NEW prev2, Same(next2, next, X), Same(prev2, prev, X)
    PROVE  Frame(next2, prev2, L, m, c, r)
<1>1. next2[c] = next[c] /\ next2[r] = next[r] /\ prev2[c] = prev[c] /\ prev2[r] = prev[r]
  BY DEF Same
<1> QED BY <1>1 DEF Frame

\* Rest depends on the first i calls only.
LEMMA RestSame ==
    ASSUME NEW es, NEW calls, NEW calls2, NEW i \in Nat, \A j \in 1..i : calls2[j] = calls[j]
    PROVE  Rest(es, calls2, i) = Rest(es, calls, i)
BY DEF Rest

\* One more call takes the two entries of its operation out of the rest.
LEMMA RestStep ==
    ASSUME NEW es, GoodEntries(es), NEW calls, NEW i \in Nat \ {0},
           calls[i].entry \in Rest(es, calls, i - 1), es[calls[i].entry].kind = "call"
    PROVE  LET c == calls[i].entry
               r == Ret(es, c)
               K == Rest(es, calls, i - 1) IN
           /\ c \in K /\ r \in K /\ r > c
           /\ Rest(es, calls, i) = K \ {c, r}
<1> DEFINE c == calls[i].entry
           r == Ret(es, c)
           K == Rest(es, calls, i - 1)
<1>1. c \in DOMAIN es /\ c \in K
  BY DEF Rest
<1>2. r \in DOMAIN es /\ r > c /\ \A n \in DOMAIN es : es[n].id = es[c].id <=> n \in {c, r}
  BY <1>1, Pair
<1>3. es[r].id = es[c].id
  BY <1>2
<1>4. \A j \in 1..(i - 1) : es[c].id # es[calls[j].entry].id
  BY DEF Rest
<1>5. r \in K
  BY <1>2, <1>3, <1>4 DEF Rest
<1>6. 1..i = (1..(i - 1)) \cup {i}
  OBVIOUS
<1>7. Rest(es, calls, i) = {n \in K : es[n].id # es[c].id}
  BY <1>6 DEF Rest
<1>8. \A n \in K : n \in DOMAIN es
  BY DEF Rest
<1> HIDE DEF c, r, K
<1>9. Rest(es, calls, i) = K \ {c, r}
  BY <1>2, <1>7, <1>8
<1> QED BY <1>1, <1>2, <1>5, <1>9 DEF c, r, K

\* lift, and the call it belongs to on top of the stack.
LEMMA LiftOK ==
    ASSUME NEW es, GoodEntries(es), NEW next, NEW prev, NEW calls, NEW lin,
           ListInv(es, next, prev, calls, lin),
           NEW c \in Rest(es, calls, Len(calls)), es[c].kind = "call",
           NEW x, x.entry = c
    PROVE  LET r == Ret(es, c)
               next2 == NextWithout(next, prev, c)
               prev2 == PrevWithout(next, prev, c) IN
           ListInv(es, NextWithout(next2, prev2, r), PrevWithout(next2, prev2, r),
                   Append(calls, x), lin \cup {es[c].id})
<1> DEFINE r == Ret(es, c)
           next2 == NextWithout(next, prev, c)
           prev2 == PrevWithout(next, prev, c)
           next3 == NextWithout(next2, prev2, r)
           prev3 == PrevWithout(next2, prev2, r)
           m == Len(es)
           d == Len(calls)
           calls2 == Append(calls, x)
           L == Rest(es, calls, d)
<1>1. d \in Nat /\ m \in Nat /\ DOMAIN es = 1..m /\ \A y \in L : y \in 1..m
  BY DEF ListInv, IsSeq, GoodEntries, Rest
<1>2. IsSeq(calls2) /\ Len(calls2) = d + 1 /\ calls2[d + 1] = x /\ \A i \in 1..d : calls2[i] = calls[i]
  <2> DEFINE S == {calls[i] : i \in DOMAIN calls} \cup {x}
  <2>1. calls \in Seq(S)
    BY DEF ListInv, IsSeq
  <2>2. x \in S
    OBVIOUS
  <2> HIDE DEF S
  <2>3. calls2 \in Seq(S) /\ Len(calls2) = d + 1 /\ calls2[d + 1] = x /\ \A i \in 1..d : calls2[i] = calls[i]
    BY <2>1, <2>2
  <2>4. IsSeq(calls2)
    BY <2>3 DEF IsSeq
  <2> QED BY <2>3, <2>4
<1> HIDE DEF calls2
<1>3. ASSUME NEW i \in 0..d PROVE Rest(es, calls2, i) = Rest(es, calls, i)
  <2>1. i \in Nat /\ \A j \in 1..i : calls2[j] = calls[j]
    BY <1>1, <1>2
  <2> QED BY <2>1, RestSame
<1>4. /\ c \in L /\ r \in L /\ r > c /\ Rest(es, calls2, d + 1) = L \ {c, r}
  <2>1. calls2[d + 1].entry \in Rest(es, calls2, (d + 1) - 1) /\ d + 1 \in Nat \ {0}
    BY <1>1, <1>2, <1>3
  <2>2. Rest(es, calls2, (d + 1) - 1) = L
    BY <1>1, <1>3
  <2> HIDE DEF d, L
  <2>3. calls2[d + 1].entry = c
    BY <1>2
  <2> QED BY <2>1, <2>2, <2>3, RestStep
<1>5. /\ Links(next3, prev3, L \ {c, r}, m) /\ Frame(next3, prev3, L \ {c, r}, m, c, r)
      /\ Same(next3, next, (1..m) \ L) /\ Same(prev3, prev, (1..m) \ L)
  <2>1. Links(next, prev, L, m)
    BY DEF ListInv
  <2> HIDE DEF L, m, r
  <2>2. c # r
    BY <1>1, <1>4
  <2> QED BY <1>1, <1>4, <2>1, <2>2, LiftLinks
<1> HIDE DEF next3, prev3
<1>6. ASSUME NEW i \in 1..(d + 1)
      PROVE  /\ calls2[i].entry \in Rest(es, calls2, i - 1) /\ es[calls2[i].entry].kind = "call"
             /\ Frame(next3, prev3, Rest(es, calls2, i), m, calls2[i].entry, Ret(es, calls2[i].entry))
  <2>1. CASE i = d + 1
    <3>1. calls2[i].entry = c /\ Rest(es, calls2, i) = L \ {c, r}
      BY <1>2, <1>4, <2>1
    <3>2. Rest(es, calls2, i - 1) = L
      BY <1>1, <1>3, <2>1
    <3> HIDE DEF L, m
    <3> QED BY <1>4, <1>5, <3>1, <3>2
  <2>2. CASE i \in 1..d
    <3> DEFINE a == calls[i].entry
               b == Ret(es, a)
    <3>1. /\ a \in Rest(es, calls, i - 1) /\ es[a].kind = "call"
          /\ Frame(next, prev, Rest(es, calls, i), m, a, b)
      BY <2>2 DEF ListInv
    <3>2. a \in DOMAIN es
      BY <3>1 DEF Rest
    <3>3. b \in DOMAIN es /\ es[b].id = es[a].id
      BY <3>1, <3>2, Pair
    <3>4. a \notin L /\ b \notin L
      BY <2>2, <3>3 DEF Rest
    <3>5. a \in (1..m) \ L /\ b \in (1..m) \ L
      BY <1>1, <3>2, <3>3, <3>4
    <3> HIDE DEF b, L, m
    <3>6. Frame(next3, prev3, Rest(es, calls, i), m, a, b)
      BY <1>5, <3>1, <3>5, FrameKept
    <3>7. Rest(es, calls2, i) = Rest(es, calls, i) /\ Rest(es, calls2, i - 1) = Rest(es, calls, i - 1)
      BY <1>1, <1>3, <2>2
    <3> QED BY <1>2, <2>2, <3>1, <3>6, <3>7 DEF b
  <2> QED BY <1>1, <2>1, <2>2
<1>7. lin \cup {es[c].id} = {es[calls2[i].entry].id : i \in 1..(d + 1)}
  <2>1. lin = {es[calls[i].entry].id : i \in 1..d}
    BY DEF ListInv
  <2>2. 1..(d + 1) = (1..d) \cup {d + 1}
    BY <1>1
  <2> HIDE DEF d
  <2> QED BY <1>2, <2>1, <2>2
<1>8. ListInv(es, next3, prev3, calls2, lin \cup {es[c].id})
  BY <1>2, <1>4, <1>5, <1>6, <1>7 DEF ListInv
<1> QED BY <1>8 DEF next3, prev3, calls2

\* The call on top of the stack, and the stack without it
Top(calls) == calls[Len(calls)].entry
Popped(calls) == SubSeq(calls, 1, Len(calls) - 1)

\* unlift of the operation on top of the stack.
LEMMA UnliftOK ==
    ASSUME NEW es, GoodEntries(es), NEW next, NEW prev, NEW calls, NEW lin,
           ListInv(es, next, prev, calls, lin), calls # <<>>
    PROVE  LET r == Ret(es, Top(calls))
               next2 == NextWith(next, prev, r)
               prev2 == PrevWith(next, prev, r) IN
           /\ Top(calls) \in Rest(es, Popped(calls), Len(Popped(calls)))
           /\ es[Top(calls)].kind = "call"
           /\ ListInv(es, NextWith(next2, prev2, Top(calls)), PrevWith(next2, prev2, Top(calls)),
                      Popped(calls), lin \ {es[Top(calls)].id})
<1> DEFINE m == Len(es)
           d == Len(calls)
           c == calls[d].entry
           r == Ret(es, c)
           next2 == NextWith(next, prev, r)
           prev2 == PrevWith(next, prev, r)
           next3 == NextWith(next2, prev2, c)
           prev3 == PrevWith(next2, prev2, c)
           calls2 == SubSeq(calls, 1, d - 1)
           L == Rest(es, calls, d)
           K == Rest(es, calls, d - 1)
<1>1. /\ m \in Nat /\ DOMAIN es = 1..m
      /\ \A y \in K : y \in 1..m
      /\ \A y \in L : y \in 1..m
  BY DEF GoodEntries, Rest
<1>2. d \in Nat \ {0} /\ IsSeq(calls2) /\ Len(calls2) = d - 1 /\ \A i \in 1..(d - 1) : calls2[i] = calls[i]
  <2> DEFINE S == {calls[i] : i \in DOMAIN calls}
  <2>1. calls \in Seq(S)
    BY DEF ListInv, IsSeq
  <2> HIDE DEF S
  <2>2. d \in Nat \ {0}
    BY <2>1
  <2>3. /\ calls2 \in Seq(S) /\ Len(calls2) = d - 1
        /\ \A i \in 1..(d - 1) : calls2[i] = calls[i]
    <3>1. 1 \in 1..(d + 1) /\ d - 1 \in (1 - 1)..d /\ d - 1 \in Int
      BY <2>2
    <3>2. /\ calls2 \in Seq(S) /\ Len(calls2) = IF 1 <= d - 1 THEN d - 1 - 1 + 1 ELSE 0
          /\ \A i \in 1..(d - 1) : calls2[i] = calls[1 + i - 1]
      BY <2>1, <3>1, SubSeqProperties
    <3> HIDE DEF calls2, d
    <3>3. Len(calls2) = d - 1
      BY <2>2, <3>2
    <3>4. \A i \in 1..(d - 1) : 1 + i - 1 = i
      BY <2>2
    <3> QED BY <3>2, <3>3, <3>4
  <2> HIDE DEF calls2
  <2>4. IsSeq(calls2)
    BY <2>3 DEF IsSeq
  <2> QED BY <2>2, <2>3, <2>4
<1> HIDE DEF calls2
<1>3. ASSUME NEW i \in 0..(d - 1) PROVE Rest(es, calls2, i) = Rest(es, calls, i)
  <2>1. i \in Nat /\ \A j \in 1..i : calls2[j] = calls[j]
    BY <1>2
  <2> QED BY <2>1, RestSame
<1>4. c \in K /\ es[c].kind = "call" /\ Frame(next, prev, L, m, c, r) /\ Links(next, prev, L, m)
  BY <1>2 DEF ListInv
<1>5. c \in K /\ r \in K /\ r > c /\ L = K \ {c, r}
  <2> HIDE DEF d
  <2> QED BY <1>2, <1>4, RestStep
<1>6. /\ Links(next3, prev3, K, m)
      /\ Same(next3, next, (1..m) \ K) /\ Same(prev3, prev, (1..m) \ K)
  <2> HIDE DEF L, K, m, r, c
  <2>1. c # r /\ c \in (1..m) \ L /\ r \in (1..m) \ L /\ L \cup {c, r} = K
    BY <1>1, <1>5
  <2> QED BY <1>1, <1>4, <2>1, UnliftLinks
<1> HIDE DEF next3, prev3
<1>7. ASSUME NEW i \in 1..(d - 1)
      PROVE  /\ calls2[i].entry \in Rest(es, calls2, i - 1) /\ es[calls2[i].entry].kind = "call"
             /\ Frame(next3, prev3, Rest(es, calls2, i), m, calls2[i].entry, Ret(es, calls2[i].entry))
  <2> DEFINE a == calls[i].entry
             b == Ret(es, a)
  <2>0. i \in 1..d
    BY <1>2
  <2>1. /\ a \in Rest(es, calls, i - 1) /\ es[a].kind = "call"
        /\ Frame(next, prev, Rest(es, calls, i), m, a, b)
    BY <2>0 DEF ListInv
  <2>2. a \in DOMAIN es
    BY <2>1 DEF Rest
  <2>3. b \in DOMAIN es /\ es[b].id = es[a].id
    BY <2>1, <2>2, Pair
  <2>4. a \notin K /\ b \notin K
    BY <2>3 DEF Rest
  <2>5. a \in (1..m) \ K /\ b \in (1..m) \ K
    BY <1>1, <2>2, <2>3, <2>4
  <2> HIDE DEF b, K, m
  <2>6. Frame(next3, prev3, Rest(es, calls, i), m, a, b)
    BY <1>6, <2>1, <2>5, FrameKept
  <2>7. Rest(es, calls2, i) = Rest(es, calls, i) /\ Rest(es, calls2, i - 1) = Rest(es, calls, i - 1)
    BY <1>2, <1>3
  <2> QED BY <1>2, <2>1, <2>6, <2>7 DEF b
<1>8. lin \ {es[c].id} = {es[calls2[i].entry].id : i \in 1..(d - 1)}
  <2>1. lin = {es[calls[i].entry].id : i \in 1..d}
    BY DEF ListInv
  <2>2. \A i \in 1..(d - 1) : es[c].id # es[calls[i].entry].id
    BY <1>4 DEF Rest
  <2>3. 1..d = (1..(d - 1)) \cup {d}
    BY <1>2
  <2>4. \A i \in 1..(d - 1) : es[calls2[i].entry].id = es[calls[i].entry].id
    BY <1>2
  <2>5. es[c].id = es[calls[d].entry].id
    OBVIOUS
  <2> HIDE DEF d, c
  <2> QED BY <2>1, <2>2, <2>3, <2>4, <2>5
<1>9. Rest(es, calls2, d - 1) = K
  BY <1>2, <1>3
<1>10. ListInv(es, next3, prev3, calls2, lin \ {es[c].id})
  BY <1>2, <1>6, <1>7, <1>8, <1>9 DEF ListInv
<1> QED BY <1>2, <1>4, <1>9, <1>10 DEF next3, prev3, calls2, Top, Popped

\* The return of an operation in the list is in the list, behind the call.
LEMMA RetInRest ==
    ASSUME NEW es, GoodEntries(es), NEW calls, NEW i, NEW c \in Rest(es, calls, i), es[c].kind = "call"
    PROVE  Ret(es, c) \in Rest(es, calls, i) /\ Ret(es, c) > c
<1>1. c \in DOMAIN es /\ \A j \in 1..i : es[c].id # es[calls[j].entry].id
  BY DEF Rest
<1>2. Ret(es, c) \in DOMAIN es /\ Ret(es, c) > c /\ es[Ret(es, c)].id = es[c].id
  BY <1>1, Pair
<1> QED BY <1>1, <1>2 DEF Rest

\* Behind a call there is always an entry: at the latest the operation's own return.
LEMMA Behind ==
    ASSUME NEW es, GoodEntries(es), NEW next, NEW prev, NEW calls, NEW i,
           Links(next, prev, Rest(es, calls, i), Len(es)),
           NEW c \in Rest(es, calls, i), es[c].kind = "call"
    PROVE  next[c] \in Rest(es, calls, i)
<1> DEFINE L == Rest(es, calls, i)
           m == Len(es)
           r == Ret(es, c)
<1>1. r \in L /\ r > c
  BY RetInRest
<1>2. m \in Nat /\ DOMAIN es = 1..m
  BY DEF GoodEntries
<1>3. c \in 1..m /\ r \in 1..m
  BY <1>1, <1>2 DEF Rest
<1>4. IsNext(L, m, c, next[c])
  BY DEF Links
<1> HIDE DEF L, m, r
<1>5. next[c] \in L \/ next[c] = m + 1
  BY <1>4 DEF IsNext
<1>6. ASSUME next[c] = m + 1 PROVE FALSE
  BY <1>1, <1>2, <1>3, <1>4, <1>6 DEF IsNext
<1> QED BY <1>5, <1>6 DEF L

-----------------------------------------------------------------------------
(* The steps of checkSingle.                                               *)

\* The fields of a search other than the links
SameFields(t, s) ==
    /\ t.pc = s.pc /\ t.entries = s.entries /\ t.entry = s.entry /\ t.state = s.state
    /\ t.linearized = s.linearized /\ t.cache = s.cache /\ t.calls = s.calls /\ t.longest = s.longest

\* What Unlink does to the record of a search.
LEMMA UnlinkFields ==
    ASSUME NEW s, IsSearch(s), NEW n
    PROVE  /\ IsSearch(Unlink(s, n)) /\ SameFields(Unlink(s, n), s)
           /\ Unlink(s, n).next = NextWithout(s.next, s.prev, n)
           /\ Unlink(s, n).prev = PrevWithout(s.next, s.prev, n)
<1> DEFINE f == NextWithout(s.next, s.prev, n)
           g == PrevWithout(s.next, s.prev, n)
<1>1. Unlink(s, n) = [s EXCEPT !.next = f, !.prev = g]
  BY DEF Unlink, NextWithout, PrevWithout
<1> HIDE DEF f, g
<1>2. Unlink(s, n) = [pc |-> s.pc, entries |-> s.entries, entry |-> s.entry, next |-> f, prev |-> g,
                      state |-> s.state, linearized |-> s.linearized, cache |-> s.cache,
                      calls |-> s.calls, longest |-> s.longest]
  BY <1>1 DEF IsSearch
<1>3. Unlink(s, n).next = f /\ Unlink(s, n).prev = g /\ SameFields(Unlink(s, n), s)
  BY <1>2 DEF SameFields
<1>4. IsSearch(Unlink(s, n))
  BY <1>2 DEF IsSearch
<1> QED BY <1>3, <1>4 DEF f, g

\* What Relink does to the record of a search.
LEMMA RelinkFields ==
    ASSUME NEW s, IsSearch(s), NEW n
    PROVE  /\ IsSearch(Relink(s, n)) /\ SameFields(Relink(s, n), s)
           /\ Relink(s, n).next = NextWith(s.next, s.prev, n)
           /\ Relink(s, n).prev = PrevWith(s.next, s.prev, n)
<1> DEFINE f == NextWith(s.next, s.prev, n)
           g == PrevWith(s.next, s.prev, n)
<1>1. Relink(s, n) = [s EXCEPT !.next = f, !.prev = g]
  BY DEF Relink, NextWith, PrevWith
<1> HIDE DEF f, g
<1>2. Relink(s, n) = [pc |-> s.pc, entries |-> s.entries, entry |-> s.entry, next |-> f, prev |-> g,
                      state |-> s.state, linearized |-> s.linearized, cache |-> s.cache,
                      calls |-> s.calls, longest |-> s.longest]
  BY <1>1 DEF IsSearch
<1>3. Relink(s, n).next = f /\ Relink(s, n).prev = g /\ SameFields(Relink(s, n), s)
  BY <1>2 DEF SameFields
<1>4. IsSearch(Relink(s, n))
  BY <1>2 DEF IsSearch
<1> QED BY <1>3, <1>4 DEF f, g

\* lift changes nothing but the links.
LEMMA LiftFields ==
    ASSUME NEW s, IsSearch(s), NEW n
    PROVE  SameFields(Lift(s, n), s)
<1>1. IsSearch(Unlink(s, n)) /\ SameFields(Unlink(s, n), s)
  BY UnlinkFields
<1>2. SameFields(Unlink(Unlink(s, n), Match(s, n)), Unlink(s, n))
  BY <1>1, UnlinkFields
<1> QED BY <1>1, <1>2 DEF Lift, SameFields

\* The same for unlift.
LEMMA UnliftFields ==
    ASSUME NEW s, IsSearch(s), NEW n
    PROVE  SameFields(Unlift(s, n), s)
<1>1. IsSearch(Relink(s, Match(s, n))) /\ SameFields(Relink(s, Match(s, n)), s)
  BY RelinkFields
<1>2. SameFields(Relink(Relink(s, Match(s, n)), n), Relink(s, Match(s, n)))
  BY <1>1, RelinkFields
<1> QED BY <1>1, <1>2 DEF Unlift, SameFields

\* Reporting a result changes neither the list nor the stack.
LEMMA ReturnOK ==
    ASSUME NEW s, SearchInv(s), NEW t, IsSearch(t), t.pc = "returned",
           t.entries = s.entries, t.next = s.next, t.prev = s.prev, t.calls = s.calls,
           t.linearized = s.linearized
    PROVE  SearchInv(t)
BY DEF SearchInv

\* The search t is at the next entry
Skipped(s, t) ==
    /\ t.pc = s.pc /\ t.entries = s.entries /\ t.entry = NextEntry(s) /\ t.next = s.next /\ t.state = s.state
    /\ t.cache = s.cache /\ t.calls = s.calls /\ t.longest = s.longest

\* The next entry, when the operation cannot be linearized here.
LEMMA SkipOK ==
    ASSUME NEW s, SearchInv(s), s.pc = "loop", s.next[0] # End(s), IsCall(s, s.entry)
    PROVE  SearchInv([s EXCEPT !.entry = NextEntry(s)]) /\ Skipped(s, [s EXCEPT !.entry = NextEntry(s)])
<1> DEFINE t == [s EXCEPT !.entry = NextEntry(s)]
           e == NextEntry(s)
<1>1. e \in Rest(s.entries, s.calls, Len(s.calls))
  BY Behind DEF SearchInv, ListInv, NextEntry, IsCall
<1> HIDE DEF e
<1>2. t = [pc |-> s.pc, entries |-> s.entries, entry |-> e, next |-> s.next, prev |-> s.prev,
           state |-> s.state, linearized |-> s.linearized, cache |-> s.cache,
           calls |-> s.calls, longest |-> s.longest]
  BY DEF SearchInv, IsSearch, e
<1> HIDE DEF t
<1>3. IsSearch(t) /\ t.pc = s.pc /\ t.entries = s.entries /\ t.entry = e /\ t.next = s.next /\ t.prev = s.prev
      /\ t.calls = s.calls /\ t.linearized = s.linearized
  BY <1>2 DEF IsSearch
<1>4. SearchInv(t)
  BY <1>1, <1>3 DEF SearchInv
<1>5. Skipped(s, t)
  BY <1>2 DEF Skipped, e
<1> QED BY <1>4, <1>5 DEF t

\* The search t has one more call on the stack than s, and the search t one less
Pushed(s, t, ca, st) ==
    /\ t.pc = s.pc /\ t.entries = s.entries /\ t.entry = t.next[0] /\ t.state = st /\ t.cache = ca
    /\ t.calls = Append(s.calls, [entry |-> s.entry, state |-> s.state]) /\ t.longest = s.longest
Undone(s, t, lo, st) ==
    /\ t.pc = s.pc /\ t.entries = s.entries /\ t.entry = t.next[Top(s.calls)] /\ t.state = st
    /\ t.cache = s.cache /\ t.calls = Popped(s.calls) /\ t.longest = lo

\* The operation is linearized: its entries leave the list, its call goes on the stack.
LEMMA TryOK ==
    ASSUME NEW s, SearchInv(s), s.pc = "loop", s.next[0] # End(s), IsCall(s, s.entry), NEW ca, NEW st
    PROVE  LET t == [Lift(s, s.entry) EXCEPT
                       !.cache = ca,
                       !.calls = Append(@, [entry |-> s.entry, state |-> s.state]),
                       !.state = st, !.linearized = Set(s.linearized, s.entries[s.entry].id),
                       !.entry = Lift(s, s.entry).next[0]] IN
           SearchInv(t) /\ Pushed(s, t, ca, st)
<1> DEFINE es == s.entries
           c == s.entry
           r == Ret(es, c)
           u == Unlink(s, c)
           l == Lift(s, c)
           x == [entry |-> c, state |-> s.state]
           q == Append(s.calls, x)
           lin == s.linearized \cup {es[c].id}
           t == [l EXCEPT !.cache = ca, !.calls = Append(@, x), !.state = st,
                          !.linearized = Set(s.linearized, s.entries[s.entry].id), !.entry = l.next[0]]
<1>1. /\ IsSearch(s) /\ GoodEntries(es) /\ ListInv(es, s.next, s.prev, s.calls, s.linearized)
      /\ c \in Rest(es, s.calls, Len(s.calls)) /\ es[c].kind = "call"
  BY DEF SearchInv, IsCall
<1>2. /\ IsSearch(u) /\ SameFields(u, s)
      /\ u.next = NextWithout(s.next, s.prev, c) /\ u.prev = PrevWithout(s.next, s.prev, c)
  BY <1>1, UnlinkFields
<1>3. l = Unlink(u, r)
  BY DEF Lift, Match, Ret
<1> HIDE DEF u, l, r
<1>4. /\ IsSearch(l) /\ SameFields(l, u)
      /\ l.next = NextWithout(u.next, u.prev, r) /\ l.prev = PrevWithout(u.next, u.prev, r)
  BY <1>2, <1>3, UnlinkFields
<1>5. x.entry = c
  OBVIOUS
<1> HIDE DEF x
<1>6. ListInv(es, l.next, l.prev, q, lin)
  BY <1>1, <1>2, <1>4, <1>5, LiftOK DEF r
<1>7. l.pc = s.pc /\ l.entries = es /\ l.calls = s.calls /\ l.longest = s.longest
  BY <1>2, <1>4 DEF SameFields
<1>7a. t = [l EXCEPT !.cache = ca, !.calls = q, !.state = st, !.linearized = lin, !.entry = l.next[0]]
  BY <1>7 DEF Set
<1> HIDE DEF t, q, lin, es
<1>8. t = [pc |-> l.pc, entries |-> l.entries, entry |-> l.next[0], next |-> l.next, prev |-> l.prev,
           state |-> st, linearized |-> lin, cache |-> ca, calls |-> q, longest |-> l.longest]
  BY <1>4, <1>7a DEF IsSearch
<1>9. /\ IsSearch(t) /\ t.entries = es /\ t.entry = l.next[0] /\ t.next = l.next /\ t.prev = l.prev
      /\ t.calls = q /\ t.linearized = lin
  BY <1>7, <1>8 DEF IsSearch
<1>9a. t.pc = s.pc /\ t.state = st /\ t.cache = ca /\ t.longest = s.longest
  BY <1>7, <1>8
<1>10. l.next[0] \in Rest(es, q, Len(q)) \/ l.next[0] = Len(es) + 1
  <2>1. Links(l.next, l.prev, Rest(es, q, Len(q)), Len(es))
    BY <1>6 DEF ListInv
  <2>2. IsNext(Rest(es, q, Len(q)), Len(es), 0, l.next[0])
    BY <2>1 DEF Links
  <2> QED BY <2>2 DEF IsNext
<1>11. SearchInv(t)
  BY <1>1, <1>6, <1>9, <1>10 DEF SearchInv, End
<1>12. Pushed(s, t, ca, st)
  BY <1>9, <1>9a DEF Pushed, es, q, x
<1> QED BY <1>11, <1>12 DEF t, l, x, es

\* The last operation is undone, and the search goes on behind its call.
LEMMA BackOK ==
    ASSUME NEW s, SearchInv(s), s.calls # <<>>, NEW lo, NEW st
    PROVE  LET top == s.calls[Len(s.calls)]
               unlifted == Unlift(s, top.entry) IN
           LET t == [unlifted EXCEPT
                       !.longest = lo, !.state = st, !.linearized = Clear(@, s.entries[top.entry].id),
                       !.calls = SubSeq(@, 1, Len(@) - 1), !.entry = unlifted.next[top.entry]] IN
           SearchInv(t) /\ Undone(s, t, lo, st)
<1> DEFINE es == s.entries
           c == Top(s.calls)
           r == Ret(es, c)
           v == Relink(s, r)
           l == Unlift(s, c)
           q == Popped(s.calls)
           lin == s.linearized \ {es[c].id}
           t == [l EXCEPT !.longest = lo, !.state = st, !.linearized = Clear(@, s.entries[c].id),
                          !.calls = SubSeq(@, 1, Len(@) - 1), !.entry = l.next[c]]
<1>1. IsSearch(s) /\ GoodEntries(es) /\ ListInv(es, s.next, s.prev, s.calls, s.linearized)
  BY DEF SearchInv
<1>2. /\ IsSearch(v) /\ SameFields(v, s)
      /\ v.next = NextWith(s.next, s.prev, r) /\ v.prev = PrevWith(s.next, s.prev, r)
  BY <1>1, RelinkFields
<1>3. l = Relink(v, c)
  BY DEF Unlift, Match, Ret
<1> HIDE DEF v, l
<1>4. /\ IsSearch(l) /\ SameFields(l, v)
      /\ l.next = NextWith(v.next, v.prev, c) /\ l.prev = PrevWith(v.next, v.prev, c)
  BY <1>2, <1>3, RelinkFields
<1>5. /\ c \in Rest(es, q, Len(q)) /\ es[c].kind = "call"
      /\ ListInv(es, l.next, l.prev, q, lin)
  <2> DEFINE f == NextWith(s.next, s.prev, r)
             g == PrevWith(s.next, s.prev, r)
  <2>1. /\ c \in Rest(es, q, Len(q)) /\ es[c].kind = "call"
        /\ ListInv(es, NextWith(f, g, c), PrevWith(f, g, c), q, lin)
    BY <1>1, UnliftOK
  <2> QED BY <1>2, <1>4, <2>1
<1>6. l.pc = s.pc /\ l.entries = es /\ l.calls = s.calls
      /\ l.linearized = s.linearized /\ l.cache = s.cache
  BY <1>2, <1>4 DEF SameFields
<1>6a. t = [l EXCEPT !.longest = lo, !.state = st, !.linearized = lin, !.calls = q, !.entry = l.next[c]]
  BY <1>6 DEF Clear, Popped
<1> HIDE DEF t, q, lin, c, es
<1>7. t = [pc |-> l.pc, entries |-> l.entries, entry |-> l.next[c], next |-> l.next, prev |-> l.prev,
           state |-> st, linearized |-> lin, cache |-> l.cache, calls |-> q, longest |-> lo]
  BY <1>4, <1>6a DEF IsSearch
<1>8. /\ IsSearch(t) /\ t.entries = es /\ t.entry = l.next[c] /\ t.next = l.next /\ t.prev = l.prev
      /\ t.calls = q /\ t.linearized = lin
  BY <1>6, <1>7 DEF IsSearch
<1>8a. t.pc = s.pc /\ t.state = st /\ t.cache = s.cache /\ t.longest = lo
  BY <1>6, <1>7
<1>9. l.next[c] \in Rest(es, q, Len(q))
  <2>1. Links(l.next, l.prev, Rest(es, q, Len(q)), Len(es)) /\ c \in Rest(es, q, Len(q))
    BY <1>5 DEF ListInv
  <2> QED BY <1>1, <1>5, <2>1, Behind
<1>10. SearchInv(t)
  BY <1>1, <1>5, <1>8, <1>9 DEF SearchInv
<1>11. Undone(s, t, lo, st)
  BY <1>8, <1>8a DEF Undone, es, q, c
<1> QED BY <1>10, <1>11 DEF t, l, c, es, Top

-----------------------------------------------------------------------------
(* makeEntries.                                                            *)

\* idx[n] is the place in the history of operation n of the partition
IsIndex(k, idx) ==
    /\ \A n \in 1..Len(Part(k)) : idx[n] \in OnKey(k) /\ Part(k)[n] = history[idx[n]]
    /\ \A n, m \in 1..Len(Part(k)) : idx[n] = idx[m] => n = m
    /\ \A i \in OnKey(k) : \E n \in 1..Len(Part(k)) : idx[n] = i

\* A partition holds the operations on its key, each once.
LEMMA PartIndex ==
    ASSUME history \in Histories, NEW k \in Partitions
    PROVE  /\ Len(Part(k)) \in Nat \ {0} /\ DOMAIN Part(k) = 1..Len(Part(k)) /\ Part(k) \in Seq(Operation)
           /\ \E idx : IsIndex(k, idx)
<1> DEFINE S == OnKey(k)
           N == Cardinality(S)
           R == {p \in S \X S : p[1] < p[2]}
           rank(i) == Cardinality({j \in S : j < i})
           idx == [n \in 1..N |-> CHOOSE i \in S : rank(i) = n - 1]
<1>1. history \in Seq(Operation)
  BY HistoriesAssumption
<1>2. Len(history) \in Nat /\ DOMAIN history = 1..Len(history) /\ \A i \in DOMAIN history : history[i] \in Operation
  BY <1>1
<1>3. S \in SUBSET (1..Len(history)) /\ \A i \in S : i \in Int
  BY <1>2 DEF OnKey
<1>4. IsFiniteSet(S)
  <2>1. IsFiniteSet(1..Len(history))
    BY <1>2, FS_Interval
  <2> HIDE DEF S
  <2> QED BY <1>3, <2>1, FS_Subset
<1>5. S # {}
  BY DEF Partitions, OnKey
<1> HIDE DEF S
<1>6. Orders(R, S)
  BY <1>3 DEF Orders
<1>7. \A i \in S : Below(S, R, i) = {j \in S : j < i}
  BY <1>3 DEF Below
<1>8. /\ N \in Nat /\ \A n \in 0..(N - 1) : \E i \in S : Cardinality(Below(S, R, i)) = n
      /\ \A i \in S : Cardinality(Below(S, R, i)) \in 0..(N - 1)
      /\ \A i, j \in S : Cardinality(Below(S, R, i)) = Cardinality(Below(S, R, j)) => i = j
  <2> HIDE DEF R
  <2> QED BY <1>4, <1>6, Ranks
<1>9. N \in Nat \ {0}
  <2>1. N # 0
    BY <1>4, <1>5, FS_EmptySet
  <2> QED BY <1>8, <2>1
<1>10. /\ \A n \in 0..(N - 1) : \E i \in S : rank(i) = n
       /\ \A i \in S : rank(i) \in 0..(N - 1)
       /\ \A i, j \in S : rank(i) = rank(j) => i = j
  <2>1. \A i \in S : rank(i) = Cardinality(Below(S, R, i))
    BY <1>7
  <2> DEFINE b(i) == Cardinality(Below(S, R, i))
  <2>2. /\ \A n \in 0..(N - 1) : \E i \in S : b(i) = n
        /\ \A i \in S : b(i) \in 0..(N - 1)
        /\ \A i, j \in S : b(i) = b(j) => i = j
    BY <1>8
  <2>3. \A i \in S : rank(i) = b(i)
    BY <2>1
  <2> HIDE DEF rank, N, b
  <2>4. \A n \in 0..(N - 1) : \E i \in S : rank(i) = n
    BY <2>2, <2>3
  <2>5. \A i \in S : rank(i) \in 0..(N - 1)
    BY <2>2, <2>3
  <2>6. \A i, j \in S : rank(i) = rank(j) => i = j
    BY <2>2, <2>3
  <2> QED BY <2>4, <2>5, <2>6
<1>11. Part(k) = [n \in 1..N |-> history[CHOOSE i \in S : rank(i) = n - 1]]
  BY DEF Part, S
<1> HIDE DEF N, rank, idx
<1>12. ASSUME NEW n \in 1..N
       PROVE  idx[n] \in S /\ rank(idx[n]) = n - 1 /\ Part(k)[n] = history[idx[n]]
  <2>1. n - 1 \in 0..(N - 1)
    BY <1>9
  <2>2. \E i \in S : rank(i) = n - 1
    BY <1>10, <2>1
  <2>3. idx[n] = CHOOSE i \in S : rank(i) = n - 1
    BY DEF idx
  <2>4. idx[n] \in S /\ rank(idx[n]) = n - 1
    BY <2>2, <2>3
  <2> QED BY <1>11, <2>3, <2>4
<1>13. Part(k) \in Seq(Operation) /\ Len(Part(k)) = N /\ DOMAIN Part(k) = 1..N
  <2>1. \A n \in 1..N : Part(k)[n] \in Operation
    BY <1>2, <1>3, <1>12
  <2>2. Part(k) \in [1..N -> Operation]
    BY <1>11, <2>1
  <2> QED BY <1>9, <2>2
<1>14. \A n, m \in 1..N : idx[n] = idx[m] => n = m
  <2> SUFFICES ASSUME NEW n \in 1..N, NEW m \in 1..N, idx[n] = idx[m] PROVE n = m
    OBVIOUS
  <2>1. n - 1 = m - 1
    BY <1>12
  <2> QED BY <1>9, <2>1
<1>15. ASSUME NEW i \in S PROVE \E n \in 1..N : idx[n] = i
  <2>1. rank(i) + 1 \in 1..N /\ (rank(i) + 1) - 1 = rank(i)
    BY <1>9, <1>10
  <2>2. idx[rank(i) + 1] \in S /\ rank(idx[rank(i) + 1]) = rank(i)
    BY <1>12, <2>1
  <2>3. idx[rank(i) + 1] = i
    BY <1>10, <2>2
  <2> QED BY <2>1, <2>3
<1>16. IsIndex(k, idx)
  BY <1>12, <1>13, <1>14, <1>15 DEF IsIndex, S
<1> QED BY <1>9, <1>13, <1>16

\* A partition holds operations on its key, one or more.
LEMMA PartOK ==
    ASSUME history \in Histories, NEW k \in Partitions
    PROVE  /\ Part(k) \in Seq(Operation) /\ Len(Part(k)) \in Nat \ {0}
           /\ \A n \in 1..Len(Part(k)) :
                  Part(k)[n] \in Operation /\ Part(k)[n].Key = k /\ Part(k)[n].Call <= Part(k)[n].Return
<1>1. \A i \in DOMAIN history : history[i].Call <= history[i].Return
  BY HistoriesAssumption
<1>2. Len(Part(k)) \in Nat \ {0} /\ DOMAIN Part(k) = 1..Len(Part(k)) /\ Part(k) \in Seq(Operation)
  BY PartIndex
<1>3. PICK idx : IsIndex(k, idx)
  BY PartIndex
<1>4. \A n \in 1..Len(Part(k)) : idx[n] \in DOMAIN history /\ history[idx[n]].Key = k /\ Part(k)[n] = history[idx[n]]
  BY <1>3 DEF IsIndex, OnKey
<1>5. \A n \in 1..Len(Part(k)) : Part(k)[n] \in Operation
  BY <1>2
<1> QED BY <1>1, <1>2, <1>4, <1>5

\* Less orders the entries of a partition.
LEMMA LessOrders ==
    ASSUME history \in Histories, NEW k \in Partitions
    PROVE  Orders({p \in Entries(k) \X Entries(k) : Less(k, p[1], p[2])}, Entries(k))
<1> DEFINE E == Entries(k)
           R == {p \in E \X E : Less(k, p[1], p[2])}
<1>1. \A e \in E : Time(k, e) \in Int /\ e.id \in Int /\ e.kind \in {"call", "return"}
  <2> SUFFICES ASSUME NEW e \in E
               PROVE  Time(k, e) \in Int /\ e.id \in Int /\ e.kind \in {"call", "return"}
    OBVIOUS
  <2>1. Part(k) \in Seq(Operation) /\ e.id \in DOMAIN Part(k) /\ e.kind \in {"call", "return"}
    BY PartOK DEF Entries, Ids
  <2>2. Part(k)[e.id] \in Operation /\ e.id \in Int
    BY <2>1
  <2>3. Part(k)[e.id].Call \in Int /\ Part(k)[e.id].Return \in Int
    BY <2>2 DEF Operation
  <2> QED BY <2>1, <2>2, <2>3 DEF Time
<1>2. \A x, y \in E : x.kind = y.kind /\ x.id = y.id => x = y
  BY DEF Entries
<1> HIDE DEF E
<1>3. \A x, y \in E : <<x, y>> \in R <=> Less(k, x, y)
  OBVIOUS
<1> HIDE DEF R
<1>4. \A x \in E : ~Less(k, x, x)
  BY <1>1 DEF Less
<1>5. \A x, y \in E : x # y => Less(k, x, y) \/ Less(k, y, x)
  BY <1>1, <1>2 DEF Less
<1>6. \A x, y, z \in E : Less(k, x, y) /\ Less(k, y, z) => Less(k, x, z)
  BY <1>1 DEF Less
<1>7. Orders(R, E)
  BY <1>3, <1>4, <1>5, <1>6 DEF Orders
<1> QED BY <1>7 DEF R, E

\* Two entries for each operation.
LEMMA EntriesCount ==
    ASSUME history \in Histories, NEW k \in Partitions
    PROVE  IsFiniteSet(Entries(k)) /\ Cardinality(Entries(k)) = 2 * Len(Part(k))
<1> DEFINE N == Len(Part(k))
           B == {"call", "return"}
           P == B \X (1..N)
           E == Entries(k)
           f == [p \in P |-> [kind |-> p[1], id |-> p[2]]]
<1>1. N \in Nat /\ DOMAIN Part(k) = 1..N
  BY PartOK
<1>2. IsFiniteSet(B) /\ Cardinality(B) = 2
  <2>1. IsFiniteSet({"call"}) /\ Cardinality({"call"}) = 1 /\ "return" \notin {"call"}
    BY FS_Singleton
  <2>2. IsFiniteSet({"call"} \cup {"return"}) /\ Cardinality({"call"} \cup {"return"}) = 1 + 1
    BY <2>1, FS_AddElement
  <2>3. B = {"call"} \cup {"return"}
    OBVIOUS
  <2> QED BY <2>2, <2>3
<1>3. IsFiniteSet(1..N) /\ Cardinality(1..N) = N
  <2> HIDE DEF N
  <2> QED BY <1>1, FS_Interval
<1>4. IsFiniteSet(P) /\ Cardinality(P) = 2 * N
  <2> DEFINE D == 1..N
  <2>1. IsFiniteSet(D) /\ Cardinality(D) = N
    BY <1>3
  <2> HIDE DEF B, D, N
  <2>2. IsFiniteSet(B \X D) /\ Cardinality(B \X D) = Cardinality(B) * Cardinality(D)
    BY <1>2, <2>1, FS_Product
  <2> QED BY <1>2, <2>1, <2>2 DEF D
<1>5. E = [kind : B, id : 1..N]
  BY <1>1 DEF Entries, Ids
<1> HIDE DEF N, B, E
<1>6. f \in [P -> E]
  BY <1>5
<1>7. \A p, q \in P : f[p] = f[q] => p = q
  OBVIOUS
<1>8. \A e \in E : \E p \in P : f[p] = e
  <2> SUFFICES ASSUME NEW e \in E PROVE \E p \in P : f[p] = e
    OBVIOUS
  <2>1. e = [kind |-> e.kind, id |-> e.id] /\ e.kind \in B /\ e.id \in 1..N
    BY <1>5
  <2>2. <<e.kind, e.id>> \in P /\ f[<<e.kind, e.id>>] = e
    BY <2>1
  <2> QED BY <2>2
<1> HIDE DEF f, P
<1>9. f \in Bijection(P, E)
  BY <1>6, <1>7, <1>8, Fun_IsBij
<1>10. ExistsBijection(P, E)
  BY <1>9 DEF ExistsBijection
<1>11. IsFiniteSet(E) /\ Cardinality(E) = Cardinality(P)
  BY <1>4, <1>10, FS_Bijection
<1> QED BY <1>4, <1>11 DEF N, E

\* Sorting gives each entry its position.
LEMMA EntriesPlaced ==
    ASSUME history \in Histories, NEW k \in Partitions
    PROVE  LET es == MakeEntries(k)
               m == 2 * Len(Part(k)) IN
           /\ m \in Nat /\ es = [p \in 1..m |-> es[p]]
           /\ \A p \in 1..m : es[p] \in Entries(k) /\ Position(k, es[p]) = p
           /\ \A e \in Entries(k) : Position(k, e) \in 1..m /\ es[Position(k, e)] = e
           /\ \A e, f \in Entries(k) : Less(k, e, f) => Position(k, e) < Position(k, f)
<1> DEFINE es == MakeEntries(k)
           E == Entries(k)
           R == {p \in E \X E : Less(k, p[1], p[2])}
           m == 2 * Len(Part(k))
           pos(e) == Position(k, e)
<1>1. Orders(R, E) /\ IsFiniteSet(E) /\ Cardinality(E) = m
  BY LessOrders, EntriesCount
<1>2. m \in Nat /\ DOMAIN Part(k) = 1..Len(Part(k))
  BY PartOK
<1>4. \A e \in E : pos(e) = 1 + Cardinality(Below(E, R, e))
  <2> SUFFICES ASSUME NEW e \in E PROVE {b \in E : Less(k, b, e)} = Below(E, R, e)
    BY DEF Position
  <2> HIDE DEF E
  <2> QED BY DEF Below
<1>5. es = [p \in 1..m |-> CHOOSE e \in E : pos(e) = p]
  BY DEF MakeEntries
<1>6. \A c, r \in E : Less(k, c, r) => Cardinality(Below(E, R, c)) < Cardinality(Below(E, R, r))
  <2> SUFFICES ASSUME NEW c \in E, NEW r \in E, Less(k, c, r)
               PROVE  Cardinality(Below(E, R, c)) < Cardinality(Below(E, R, r))
    OBVIOUS
  <2> HIDE DEF E
  <2>1. <<c, r>> \in R
    OBVIOUS
  <2> HIDE DEF R
  <2> QED BY <1>1, <2>1, RankGrows
<1> HIDE DEF E, R, es, m, pos
<1>7. /\ \A e \in E : Cardinality(Below(E, R, e)) \in 0..(m - 1)
      /\ \A x, y \in E : Cardinality(Below(E, R, x)) = Cardinality(Below(E, R, y)) => x = y
      /\ \A n \in 0..(m - 1) : \E e \in E : Cardinality(Below(E, R, e)) = n
  BY <1>1, Ranks
<1>8. /\ \A e \in E : pos(e) \in 1..m
      /\ \A x, y \in E : pos(x) = pos(y) => x = y
      /\ \A c, r \in E : Less(k, c, r) => pos(c) < pos(r)
  <2>1. \A e \in E : pos(e) = 1 + Cardinality(Below(E, R, e)) /\ Cardinality(Below(E, R, e)) \in Int
    BY <1>2, <1>4, <1>7
  <2> QED BY <1>2, <1>6, <1>7, <2>1
<1>9. ASSUME NEW p \in 1..m PROVE es[p] \in E /\ pos(es[p]) = p
  <2>1. p - 1 \in 0..(m - 1)
    BY <1>2
  <2>2. \E e \in E : pos(e) = p
    <3>1. PICK e \in E : Cardinality(Below(E, R, e)) = p - 1
      BY <1>7, <2>1
    <3>2. pos(e) = p
      BY <1>2, <1>4, <3>1
    <3> QED BY <3>2
  <2>3. es[p] = CHOOSE e \in E : pos(e) = p
    BY <1>5
  <2> QED BY <2>2, <2>3
<1>10. \A e \in E : es[pos(e)] = e
  BY <1>8, <1>9
<1>11. es = [p \in 1..m |-> es[p]]
  BY <1>5
<1> QED BY <1>2, <1>8, <1>9, <1>10, <1>11 DEF es, m, E, pos

\* makeEntries puts each call before its return.
LEMMA EntriesOK ==
    ASSUME history \in Histories, NEW k \in Partitions
    PROVE  GoodEntries(MakeEntries(k)) /\ Len(MakeEntries(k)) = 2 * Len(Part(k))
<1> DEFINE es == MakeEntries(k)
           E == Entries(k)
           m == 2 * Len(Part(k))
           pos(e) == Position(k, e)
<1>2. m \in Nat /\ DOMAIN Part(k) = 1..Len(Part(k))
  BY PartOK
<1>3. E \subseteq [kind : {"call", "return"}, id : Nat]
  BY <1>2, PartOK DEF Entries, Ids
<1>5. es = [p \in 1..m |-> es[p]] /\ \A p \in 1..m : es[p] \in E /\ pos(es[p]) = p
  BY EntriesPlaced
<1>8. /\ \A e \in E : pos(e) \in 1..m /\ es[pos(e)] = e
      /\ \A c, r \in E : Less(k, c, r) => pos(c) < pos(r)
  BY EntriesPlaced
<1> HIDE DEF E, es, m, pos
<1>10. es \in [1..m -> [kind : {"call", "return"}, id : Nat]]
  BY <1>3, <1>5
<1>11. es \in Seq([kind : {"call", "return"}, id : Nat]) /\ Len(es) = m /\ DOMAIN es = 1..m
  <2> DEFINE T == [kind : {"call", "return"}, id : Nat]
  <2>1. es \in [1..m -> T]
    BY <1>10
  <2> HIDE DEF T
  <2>2. es \in Seq(T) /\ Len(es) = m /\ DOMAIN es = 1..m
    BY <1>2, <2>1
  <2> QED BY <2>2 DEF T
<1>12. \A i, j \in 1..m : es[i] = es[j] => i = j
  BY <1>5
<1>13. ASSUME NEW c \in 1..m, es[c].kind = "call"
       PROVE  \E r \in 1..m : r > c /\ es[r] = [kind |-> "return", id |-> es[c].id]
  <2> DEFINE a == es[c]
             b == [kind |-> "return", id |-> es[c].id]
             r == pos(b)
  <2>1. a \in E /\ pos(a) = c /\ b.kind = "return" /\ b.id = a.id
    BY <1>5
  <2>2. b \in E /\ a.id \in 1..Len(Part(k))
    BY <1>2, <2>1 DEF E, Entries, Ids
  <2>3. Less(k, a, b)
    <3> HIDE DEF a, b
    <3>1. Part(k)[a.id] \in Operation /\ Part(k)[a.id].Call <= Part(k)[a.id].Return
      BY <2>2, PartOK
    <3>2. Time(k, a) = Part(k)[a.id].Call /\ Time(k, b) = Part(k)[a.id].Return
      BY <1>13, <2>1 DEF Time, a
    <3>3. Time(k, a) \in Int /\ Time(k, b) \in Int /\ Time(k, a) <= Time(k, b)
      BY <3>1, <3>2 DEF Operation
    <3> QED BY <1>13, <2>1, <3>3 DEF Less, a
  <2> HIDE DEF a, b
  <2>4. r \in 1..m /\ r > c
    BY <1>8, <2>1, <2>2, <2>3
  <2>5. es[r] = b
    BY <1>8, <2>2
  <2> QED BY <2>4, <2>5 DEF b
<1>14. GoodEntries(es)
  BY <1>11, <1>12, <1>13 DEF GoodEntries
<1> QED BY <1>11, <1>14 DEF es, m

-----------------------------------------------------------------------------
(* The specification.                                                      *)

\* A search begins with all its entries in the list and an empty stack.
LEMMA NewSearchOK ==
    ASSUME history \in Histories, NEW k \in Partitions
    PROVE  SearchInv(NewSearch(k))
<1> DEFINE s == NewSearch(k)
           es == MakeEntries(k)
           m == 2 * Len(Part(k))
<1>1. GoodEntries(es) /\ Len(es) = m /\ m \in Nat /\ 1 \in 1..m
  BY EntriesOK, PartOK
<1>2. DOMAIN es = 1..m
  BY <1>1 DEF GoodEntries
<1>3. /\ IsSearch(s) /\ s.entries = es /\ s.entry = 1 /\ s.calls = <<>> /\ s.linearized = {}
      /\ s.next = Linked(m).next /\ s.prev = Linked(m).prev
  BY DEF NewSearch, IsSearch, NewBitset
<1> HIDE DEF s, es, m
<1>4. Rest(es, <<>>, 0) = 1..m
  BY <1>2 DEF Rest
<1>5. Links(s.next, s.prev, 1..m, m)
  BY <1>1, <1>3, LinkedOK
<1>6. ListInv(es, s.next, s.prev, <<>>, {})
  <2>1. IsSeq(<<>>) /\ Len(<<>>) = 0
    BY DEF IsSeq
  <2>2. 1..0 = {}
    OBVIOUS
  <2> QED BY <1>1, <1>4, <1>5, <2>1, <2>2 DEF ListInv
<1>7. s.entry \in Rest(s.entries, s.calls, Len(s.calls))
  BY <1>1, <1>3, <1>4
<1>8. SearchInv(s)
  BY <1>1, <1>3, <1>6, <1>7 DEF SearchInv
<1> QED BY <1>8 DEF s

\* The invariant holds initially.
LEMMA ListInit == Init => ListIInv
<1> SUFFICES ASSUME Init PROVE ListIInv
  OBVIOUS
<1>1. history \in Histories /\ search = [k \in Partitions |-> NewSearch(k)]
  BY DEF Init
<1>2. \A k \in Partitions : SearchInv(search[k])
  BY <1>1, NewSearchOK
<1> QED BY <1>1, <1>2 DEF ListIInv

\* A step of one partition leaves the searches of the others alone.
LEMMA OneSearch ==
    ASSUME ListIInv, NEW k \in Partitions, NEW t, SearchInv(t),
           search' = [search EXCEPT ![k] = t], UNCHANGED history
    PROVE  ListIInv'
<1>1. Partitions' = Partitions
  BY DEF Partitions
<1>2. search' = [j \in Partitions |-> IF j = k THEN t ELSE search[j]]
  BY DEF ListIInv
<1>3. \A j \in Partitions : SearchInv(search'[j])
  BY <1>2 DEF ListIInv
<1>4. search' = [j \in Partitions |-> search'[j]]
  BY <1>2
<1>5. (\A j \in Partitions : SearchInv(search[j]))'
  BY <1>1, <1>3
<1> QED BY <1>1, <1>4, <1>5 DEF ListIInv

\* The search has returned
Ended(s, t, lo) ==
    /\ t.pc = "returned" /\ t.entries = s.entries /\ t.state = s.state /\ t.calls = s.calls
    /\ t.longest = lo

\* All operations are linearized.
LEMMA AllShape ==
    ASSUME ListIInv, NEW k \in Partitions, AllLinearized(k)
    PROVE  \E t : /\ search' = [search EXCEPT ![k] = t] /\ SearchInv(t)
                  /\ Ended(search[k], t, [i \in DOMAIN search[k].longest |-> Linearization(search[k])])
<1> DEFINE s == search[k]
           lo == [i \in DOMAIN s.longest |-> Linearization(s)]
           w == [s EXCEPT !.longest = lo]
           t == [w EXCEPT !.pc = "returned"]
<1>1. search' = [search EXCEPT ![k] = t]
  BY DEF AllLinearized, Return
<1>2. SearchInv(s)
  BY DEF ListIInv
<1> HIDE DEF s, lo
<1>3. w = [pc |-> s.pc, entries |-> s.entries, entry |-> s.entry, next |-> s.next, prev |-> s.prev,
           state |-> s.state, linearized |-> s.linearized, cache |-> s.cache,
           calls |-> s.calls, longest |-> lo]
  BY <1>2 DEF SearchInv, IsSearch
<1> HIDE DEF w
<1>4. t = [pc |-> "returned", entries |-> s.entries, entry |-> s.entry, next |-> s.next, prev |-> s.prev,
           state |-> s.state, linearized |-> s.linearized, cache |-> s.cache,
           calls |-> s.calls, longest |-> lo]
  BY <1>3
<1> HIDE DEF t
<1>5. IsSearch(t) /\ t.pc = "returned" /\ t.entries = s.entries /\ t.next = s.next /\ t.prev = s.prev
      /\ t.calls = s.calls /\ t.linearized = s.linearized
  BY <1>4 DEF IsSearch
<1>6. SearchInv(t)
  BY <1>2, <1>5, ReturnOK
<1>7. Ended(s, t, lo)
  BY <1>4 DEF Ended
<1> QED BY <1>1, <1>6, <1>7 DEF s, lo

\* The search was cut short, or has found nothing.
LEMMA EndShape ==
    ASSUME ListIInv, NEW k \in Partitions, Killed(k) \/ NoneLinearized(k)
    PROVE  \E t : /\ search' = [search EXCEPT ![k] = t] /\ SearchInv(t)
                  /\ Ended(search[k], t, search[k].longest)
<1> DEFINE s == search[k]
           t == [s EXCEPT !.pc = "returned"]
<1>1. search' = [search EXCEPT ![k] = t]
  BY DEF Killed, NoneLinearized, Return
<1>2. SearchInv(s)
  BY DEF ListIInv
<1> HIDE DEF s
<1>3. t = [pc |-> "returned", entries |-> s.entries, entry |-> s.entry, next |-> s.next, prev |-> s.prev,
           state |-> s.state, linearized |-> s.linearized, cache |-> s.cache,
           calls |-> s.calls, longest |-> s.longest]
  BY <1>2 DEF SearchInv, IsSearch
<1> HIDE DEF t
<1>4. IsSearch(t) /\ t.pc = "returned" /\ t.entries = s.entries /\ t.next = s.next /\ t.prev = s.prev
      /\ t.calls = s.calls /\ t.linearized = s.linearized
  BY <1>3 DEF IsSearch
<1>5. SearchInv(t)
  BY <1>2, <1>4, ReturnOK
<1>6. Ended(s, t, s.longest)
  BY <1>3 DEF Ended
<1> QED BY <1>1, <1>5, <1>6 DEF s

\* May the operation at the entry be linearized here?
CanTry(k, s) ==
    LET id == s.entries[s.entry].id
        step == KvStep(s.state, Part(k)[id]) IN
    step.ok /\ ~CacheContains(s, Set(s.linearized, id), step.state)

\* The operation at the entry is linearized, or the search goes on to the next entry.
LEMMA TryShape ==
    ASSUME ListIInv, NEW k \in Partitions, TryCall(k)
    PROVE  LET s == search[k]
               id == s.entries[s.entry].id
               st == KvStep(s.state, Part(k)[id]).state
               ca == s.cache \cup {[linearized |-> Set(s.linearized, id), state |-> st]} IN
           \E t : /\ search' = [search EXCEPT ![k] = t] /\ SearchInv(t)
                  /\ IF CanTry(k, s) THEN Pushed(s, t, ca, st) ELSE Skipped(s, t)
<1> DEFINE s == search[k]
           id == s.entries[s.entry].id
           step == KvStep(s.state, Part(k)[id])
           st == step.state
           new == [linearized |-> Set(s.linearized, id), state |-> st]
           ca == s.cache \cup {new}
           t == [Lift(s, s.entry) EXCEPT
                   !.cache = @ \cup {new},
                   !.calls = Append(@, [entry |-> s.entry, state |-> s.state]),
                   !.state = st, !.linearized = Set(s.linearized, id),
                   !.entry = Lift(s, s.entry).next[0]]
           u == [s EXCEPT !.entry = NextEntry(s)]
<1>1. /\ s.pc = "loop" /\ s.next[0] # End(s) /\ IsCall(s, s.entry)
      /\ IF CanTry(k, s) THEN Continue(k, t) ELSE Continue(k, u)
  BY DEF TryCall, Running, CanTry
<1>2. SearchInv(s)
  BY DEF ListIInv
<1> HIDE DEF s
<1>3. SearchInv(u) /\ Skipped(s, u)
  BY <1>1, <1>2, SkipOK
<1>4. SearchInv(t) /\ Pushed(s, t, ca, st)
  <2>1. Lift(s, s.entry).cache = s.cache
    BY <1>2, LiftFields DEF SearchInv, SameFields
  <2>2. t = [Lift(s, s.entry) EXCEPT
               !.cache = ca,
               !.calls = Append(@, [entry |-> s.entry, state |-> s.state]),
               !.state = st, !.linearized = Set(s.linearized, id),
               !.entry = Lift(s, s.entry).next[0]]
    <3> HIDE DEF st, new, id
    <3> QED BY <2>1
  <2> HIDE DEF st, ca
  <2> QED BY <1>1, <1>2, <2>2, TryOK
<1> HIDE DEF t, u
<1>5. IF CanTry(k, s) THEN search' = [search EXCEPT ![k] = t] ELSE search' = [search EXCEPT ![k] = u]
  BY <1>1 DEF Continue
<1> QED BY <1>3, <1>4, <1>5 DEF s

\* The last operation is undone.
LEMMA BackShape ==
    ASSUME ListIInv, NEW k \in Partitions, Backtrack(k)
    PROVE  LET s == search[k] IN
           \E t : /\ search' = [search EXCEPT ![k] = t] /\ SearchInv(t)
                  /\ Undone(s, t, IF verbose THEN Longest(s) ELSE s.longest, s.calls[Len(s.calls)].state)
<1> DEFINE s == search[k]
           top == s.calls[Len(s.calls)]
           unlifted == Unlift(s, top.entry)
           lo == IF verbose THEN Longest(s) ELSE s.longest
           t == [unlifted EXCEPT
                   !.longest = IF verbose THEN Longest(s) ELSE @,
                   !.state = top.state, !.linearized = Clear(@, s.entries[top.entry].id),
                   !.calls = SubSeq(@, 1, Len(@) - 1), !.entry = unlifted.next[top.entry]]
<1>1. s.calls # <<>> /\ search' = [search EXCEPT ![k] = t]
  BY DEF Backtrack, Continue
<1>2. SearchInv(s)
  BY DEF ListIInv
<1> HIDE DEF s
<1>3. SearchInv(t) /\ Undone(s, t, lo, top.state)
  <2>1. unlifted.longest = s.longest
    BY <1>2, UnliftFields DEF SearchInv, SameFields
  <2>2. t = [unlifted EXCEPT
               !.longest = lo, !.state = top.state, !.linearized = Clear(@, s.entries[top.entry].id),
               !.calls = SubSeq(@, 1, Len(@) - 1), !.entry = unlifted.next[top.entry]]
    <3> HIDE DEF top, unlifted
    <3> QED BY <2>1
  <2> HIDE DEF lo
  <2> QED BY <1>1, <1>2, <2>2, BackOK
<1> HIDE DEF t
<1> QED BY <1>1, <1>3 DEF s

\* Every step of a search and of checkParallel keeps the invariant.
LEMMA ListStep == ListIInv /\ [Next]_vars => ListIInv'
<1> SUFFICES ASSUME ListIInv, [Next]_vars PROVE ListIInv'
  OBVIOUS
<1>1. CASE UNCHANGED <<history, search>>
  BY <1>1 DEF ListIInv, Partitions
<1>2. ASSUME NEW k \in Partitions, CheckSingle(k) PROVE ListIInv'
  <2>1. \E t : search' = [search EXCEPT ![k] = t] /\ SearchInv(t)
    BY <1>2, AllShape, EndShape, TryShape, BackShape DEF CheckSingle
  <2>2. UNCHANGED history
    BY <1>2 DEF CheckSingle, AllLinearized, Killed, TryCall, NoneLinearized, Backtrack, Return, Continue, argVars
  <2> QED BY <2>1, <2>2, OneSearch
<1>3. CASE CheckParallel \/ Visualize \/ UNCHANGED vars
  BY <1>1, <1>3 DEF CheckParallel, Timeout, ReceiveResult, Drain, Finish, Visualize, vars, argVars
<1> QED BY <1>2, <1>3 DEF Next

\* ListExact for one entry n
ExactAt(next, prev, L, m, n) ==
    LET after == {x \in L : x > n} IN
    IF after = {} THEN next[n] = m + 1
    ELSE next[n] \in after /\ (\A x \in after : next[n] <= x) /\ prev[next[n]] = n

\* What the links of the list say of each entry in it.
LEMMA LinksExact ==
    ASSUME NEW m \in Nat, NEW L, (\A y \in L : y \in 1..m), NEW next, NEW prev,
           Links(next, prev, L, m), NEW n \in L \cup {0}
    PROVE  ExactAt(next, prev, L, m, n)
<1> DEFINE after == {x \in L : x > n}
           e == next[n]
<1>1. n \in 0..m /\ (e \in L \/ e = m + 1) /\ e > n /\ \A y \in L : ~(n < y /\ y < e)
  BY DEF Links, IsNext
<1>2. CASE after = {}
  BY <1>1, <1>2 DEF ExactAt
<1>3. CASE after # {}
  <2>1. PICK y \in L : y > n
    BY <1>3
  <2>2. e # m + 1
    BY <1>1, <2>1
  <2>3. e \in L /\ e \in Int
    <3> HIDE DEF e
    <3>1. e \in L
      BY <1>1, <2>2
    <3> QED BY <3>1
  <2>4. \A x \in after : e <= x
    BY <1>1, <2>3
  <2>5. IsPrev(L, e, prev[e])
    BY <2>3 DEF Links
  <2> HIDE DEF e
  <2>6. (prev[e] \in L \/ prev[e] = 0) /\ prev[e] < e /\ \A x \in L : ~(prev[e] < x /\ x < e)
    BY <2>5 DEF IsPrev
  <2>7. prev[e] \in Int /\ prev[e] >= 0
    BY <2>6
  <2>8. ~(prev[e] < n)
    BY <1>1, <2>6, <2>7
  <2>9. ~(n < prev[e])
    BY <1>1, <2>6, <2>7
  <2>10. prev[e] = n
    BY <1>1, <2>7, <2>8, <2>9
  <2> QED BY <1>1, <1>3, <2>3, <2>4, <2>10 DEF e, ExactAt
<1> QED BY <1>2, <1>3

\* The invariant implies the property.
LEMMA ListInvariant == ListIInv => ListExact
<1> SUFFICES ASSUME ListIInv, NEW k \in Partitions
             PROVE  LET s == search[k]
                        left == {n \in DOMAIN s.entries : s.entries[n].id \notin s.linearized} IN
                    \A n \in left \cup {0} :
                        LET after == {m \in left : m > n} IN
                        IF after = {} THEN s.next[n] = End(s)
                        ELSE /\ s.next[n] \in after /\ \A m \in after : s.next[n] <= m
                             /\ s.prev[s.next[n]] = n
  BY DEF ListExact
<1> DEFINE s == search[k]
           es == s.entries
           left == {n \in DOMAIN es : es[n].id \notin s.linearized}
           m == Len(es)
<1>1. GoodEntries(es) /\ ListInv(es, s.next, s.prev, s.calls, s.linearized)
  BY DEF ListIInv, SearchInv
<1>2. left = Rest(es, s.calls, Len(s.calls))
  BY <1>1 DEF ListInv, Rest
<1>3. m \in Nat /\ \A y \in left : y \in 1..m
  BY <1>1 DEF GoodEntries
<1>4. Links(s.next, s.prev, left, m)
  BY <1>1, <1>2 DEF ListInv
<1>5. End(s) = m + 1
  BY DEF End
<1> HIDE DEF left, m, s, es
<1>6. \A n \in left \cup {0} : ExactAt(s.next, s.prev, left, m, n)
  BY <1>3, <1>4, LinksExact
<1> QED BY <1>5, <1>6 DEF left, s, es, ExactAt

\* However the searches of the partitions are interleaved and whatever is lifted and put
\* back, the list of each links exactly the entries of the operations that are not
\* linearized, forwards and backwards: for every history and any number of operations.
THEOREM PorcupineList == Spec => []ListExact
<1>1. Init => ListIInv
  BY ListInit
<1>2. ListIInv /\ [Next]_vars => ListIInv'
  BY ListStep
<1>3. ListIInv => ListExact
  BY ListInvariant
<1> QED BY <1>1, <1>2, <1>3, PTL DEF Spec

-----------------------------------------------------------------------------
(* Induction over natural numbers, for sets.  The library's induction      *)
(* theorem is about an operator; that every set of natural numbers has a   *)
(* least member is about a set.                                            *)

\* Every set of natural numbers that is not empty has a least member.
LEMMA Least ==
    ASSUME NEW T, \A x \in T : x \in Nat, NEW t \in T
    PROVE  \E x \in T : \A y \in T : x <= y
<1> DEFINE R == OpToRel(<, Nat)
<1>1. IsWellFoundedOn(R, Nat)
  BY NatLessThanWellFounded
<1>2. \A x, y \in Nat : y < x => <<y, x>> \in R
  BY DEF OpToRel
<1> HIDE DEF R
<1>3. T \subseteq Nat /\ T # {}
  OBVIOUS
<1>4. \E x \in T : \A y \in T : ~(<<y, x>> \in R)
  BY <1>1, <1>3, WFMin, Zenon
<1>5. PICK x \in T : \A y \in T : ~(<<y, x>> \in R)
  BY <1>4
<1>6. \A y \in T : x <= y
  <2> SUFFICES ASSUME NEW y \in T PROVE x <= y
    OBVIOUS
  <2>1. ~(y < x)
    BY <1>2, <1>5
  <2> QED BY <2>1
<1> QED BY <1>6

\* A set that has 0 and with each number up to N the next one has all numbers up to N.
LEMMA Induct ==
    ASSUME NEW N \in Nat, NEW S, 0 \in S, \A n \in 0..(N - 1) : n \in S => n + 1 \in S
    PROVE  \A n \in 0..N : n \in S
<1> DEFINE T == {n \in 0..N : n \notin S}
<1> SUFFICES ASSUME NEW t \in T PROVE FALSE
  OBVIOUS
<1>1. \A x \in T : x \in Nat
  OBVIOUS
<1> HIDE DEF T
<1>2. PICK x \in T : \A y \in T : x <= y
  BY <1>1, Least
<1>3. x \in 0..N /\ x \notin S /\ x # 0
  BY DEF T
<1>4. x - 1 \in 0..(N - 1) /\ x - 1 \in 0..N
  BY <1>3
<1>5. x - 1 \notin T
  BY <1>2, <1>3
<1>6. x - 1 \in S
  BY <1>4, <1>5 DEF T
<1>7. (x - 1) + 1 \in S
  BY <1>4, <1>6
<1> QED BY <1>3, <1>7

\* A finite list of integers has a largest one.
LEMMA Largest1 ==
    ASSUME NEW n \in Nat \ {0}, NEW f, \A x \in 1..n : f[x] \in Int
    PROVE  \E x \in 1..n : \A y \in 1..n : f[y] <= f[x]
<1> DEFINE S == {i \in Nat : i = 0 \/ i > n \/ \E x \in 1..i : \A y \in 1..i : f[y] <= f[x]}
<1>1. 0 \in S
  OBVIOUS
<1>2. ASSUME NEW i \in 0..(n - 1), i \in S PROVE i + 1 \in S
  <2>1. CASE i = 0
    <3>1. \A y \in 1..1 : f[y] <= f[1]
      BY <2>1
    <3> QED BY <2>1, <3>1
  <2>2. CASE i # 0
    <3>1. PICK x \in 1..i : \A y \in 1..i : f[y] <= f[x]
      BY <1>2, <2>2
    <3>2. CASE f[x] <= f[i + 1]
      <4>1. \A y \in 1..(i + 1) : f[y] <= f[i + 1]
        BY <3>1, <3>2
      <4> QED BY <4>1
    <3>3. CASE ~(f[x] <= f[i + 1])
      <4>1. \A y \in 1..(i + 1) : f[y] <= f[x]
        BY <3>1, <3>3
      <4> QED BY <4>1
    <3> QED BY <3>2, <3>3
  <2> QED BY <2>1, <2>2
<1> HIDE DEF S
<1>3. n \in S
  BY <1>1, <1>2, Induct
<1> QED BY <1>3 DEF S

-----------------------------------------------------------------------------
(* The search is right.  Runs of a partition are the legal sequences of    *)
(* some of its operations, with the states they go through; sts[i] is the  *)
(* state after i of them.                                                  *)

IsRun(ops, order, sts) ==
    /\ order \in Seq(1..Len(ops))
    /\ \A i, j \in 1..Len(order) : order[i] = order[j] => i = j
    /\ RealTime(ops, order)
    /\ sts[0] = InitState
    /\ \A i \in 1..Len(order) :
           /\ KvStep(sts[i - 1], ops[order[i]]).ok
           /\ sts[i] = KvStep(sts[i - 1], ops[order[i]]).state

\* The first i operations of a sequence
First(order, i) == {order[j] : j \in 1..i}

\* The sequence is not complete, and for each of its operations one as long was recorded
Covered(ops, longest, v, order) ==
    /\ Len(order) < Len(ops)
    /\ v => \A j \in 1..Len(order) : Len(longest[order[j]]) >= Len(order)

\* Every run through this point of the search is covered
Explored(ops, longest, v, lin, st) ==
    \A order, sts : IsRun(ops, order, sts) =>
        \A i \in 0..Len(order) :
            First(order, i) = lin /\ sts[i] = st => Covered(ops, longest, v, order)

\* The operations that the first i calls on the stack linearize, and the state after them
LinAfter(es, calls, i) == {es[calls[j].entry].id : j \in 1..i}
StAfter(calls, state, i) == IF i = Len(calls) THEN state ELSE calls[i + 1].state

\* No operation that is not linearized after i calls has returned before entry e
CallsUpto(es, calls, i, e) == \A n \in Rest(es, calls, i) : n < e => es[n].kind = "call"

\* The stack is a run
StackInv(ops, es, calls, state) ==
    /\ StAfter(calls, state, 0) = InitState
    /\ \A i \in 1..Len(calls) :
           LET step == KvStep(StAfter(calls, state, i - 1), ops[es[calls[i].entry].id]) IN
           /\ step.ok /\ StAfter(calls, state, i) = step.state
           /\ CallsUpto(es, calls, i - 1, calls[i].entry)

\* What is recorded for an operation is a run with it
LongestInv(ops, longest) ==
    /\ longest = [x \in 1..Len(ops) |-> longest[x]]
    /\ \A x \in 1..Len(ops) :
           /\ \E sts : IsRun(ops, longest[x], sts)
           /\ longest[x] # <<>> => x \in First(longest[x], Len(longest[x]))

\* The calls before entry e have been tried after the first i calls of the stack
Tried(ops, longest, v, es, calls, state, i, e) ==
    \A n \in Rest(es, calls, i) :
        LET step == KvStep(StAfter(calls, state, i), ops[es[n].id]) IN
        n < e /\ step.ok => Explored(ops, longest, v, LinAfter(es, calls, i) \cup {es[n].id}, step.state)

StackTried(ops, longest, v, es, calls, state) ==
    \A i \in 1..Len(calls) : Tried(ops, longest, v, es, calls, state, i - 1, calls[i].entry)

\* What is in the cache is on the stack or explored
CacheInv(ops, longest, v, es, calls, state, cache) ==
    \A e \in cache :
        \/ Explored(ops, longest, v, e.linearized, e.state)
        \/ \E i \in 1..Len(calls) :
               e.linearized = LinAfter(es, calls, i) /\ e.state = StAfter(calls, state, i)

\* The search of a partition with the operations ops
WalkInv(ops, v, s) ==
    /\ StackInv(ops, s.entries, s.calls, s.state)
    /\ LongestInv(ops, s.longest)
    /\ s.pc \in {"loop", "returned"}
    /\ s.pc = "loop" =>
           /\ StackTried(ops, s.longest, v, s.entries, s.calls, s.state)
           /\ CacheInv(ops, s.longest, v, s.entries, s.calls, s.state, s.cache)
           /\ s.next[0] # End(s) =>
                  /\ CallsUpto(s.entries, s.calls, Len(s.calls), s.entry)
                  /\ Tried(ops, s.longest, v, s.entries, s.calls, s.state, Len(s.calls), s.entry)

-----------------------------------------------------------------------------
(* The entries of a partition stand for its operations and their times.    *)

SortedEntries(ops, es) ==
    /\ GoodEntries(es)
    /\ \A n \in DOMAIN es : es[n].id \in 1..Len(ops)
    /\ \A x \in 1..Len(ops) : \E n \in DOMAIN es : es[n] = [kind |-> "call", id |-> x]
    /\ \A r, c \in DOMAIN es : es[r].kind = "return" /\ es[c].kind = "call" =>
           (r < c <=> ops[es[r].id].Return < ops[es[c].id].Call)

\* A return is before a call exactly if the operation returned before the other was called.
LEMMA EntriesSorted ==
    ASSUME history \in Histories, NEW k \in Partitions
    PROVE  SortedEntries(Part(k), MakeEntries(k))
<1> DEFINE es == MakeEntries(k)
           ops == Part(k)
           E == Entries(k)
           m == 2 * Len(ops)
           pos(e) == Position(k, e)
<1>1. ops \in Seq(Operation) /\ Len(ops) \in Nat /\ DOMAIN ops = 1..Len(ops)
  BY PartOK
<1>2. GoodEntries(es)
  BY EntriesOK
<1>3. es = [p \in 1..m |-> es[p]] /\ \A p \in 1..m : es[p] \in E /\ pos(es[p]) = p
  BY EntriesPlaced
<1>4. /\ \A e \in E : pos(e) \in 1..m /\ es[pos(e)] = e
      /\ \A c, r \in E : Less(k, c, r) => pos(c) < pos(r)
  BY EntriesPlaced
<1>5. E = [kind : {"call", "return"}, id : 1..Len(ops)]
  BY <1>1 DEF Entries, Ids
<1>6. \A e \in E : ops[e.id] \in Operation
  BY <1>1, <1>5
<1>7. \A e \in E : Time(k, e) = IF e.kind = "call" THEN ops[e.id].Call ELSE ops[e.id].Return
  BY DEF Time
<1>8. DOMAIN es = 1..m
  BY <1>3
<1> HIDE DEF E, es, m, pos, ops
<1>9. \A n \in 1..m : es[n].id \in 1..Len(ops)
  BY <1>3, <1>5
<1>10. ASSUME NEW x \in 1..Len(ops) PROVE \E n \in 1..m : es[n] = [kind |-> "call", id |-> x]
  <2>1. [kind |-> "call", id |-> x] \in E
    BY <1>5
  <2> QED BY <1>4, <2>1
<1>11. ASSUME NEW r \in 1..m, NEW c \in 1..m, es[r].kind = "return", es[c].kind = "call"
       PROVE  r < c <=> ops[es[r].id].Return < ops[es[c].id].Call
  <2> DEFINE a == es[r]
             b == es[c]
  <2>1. a \in E /\ b \in E /\ pos(a) = r /\ pos(b) = c /\ a # b
    BY <1>3, <1>11
  <2>2. ops[a.id] \in Operation /\ ops[b.id] \in Operation
    BY <1>6, <2>1
  <2>3. Time(k, a) = ops[a.id].Return /\ Time(k, b) = ops[b.id].Call
    BY <1>7, <1>11, <2>1
  <2>4. ops[a.id].Return \in Int /\ ops[b.id].Call \in Int
    BY <2>2 DEF Operation
  <2> HIDE DEF a, b
  <2>5. a.kind = "return" /\ b.kind = "call"
    BY <1>11 DEF a, b
  <2>6. CASE ops[a.id].Return < ops[b.id].Call
    <3>1. Less(k, a, b)
      BY <2>3, <2>6 DEF Less
    <3>2. r < c
      BY <1>4, <2>1, <3>1
    <3> QED BY <2>6, <3>2 DEF a, b
  <2>7. CASE ~(ops[a.id].Return < ops[b.id].Call)
    <3>1. Less(k, b, a)
      BY <2>3, <2>4, <2>5, <2>7 DEF Less
    <3>2. c < r
      BY <1>4, <2>1, <3>1
    <3> QED BY <2>7, <3>2 DEF a, b
  <2> QED BY <2>6, <2>7
<1> QED BY <1>2, <1>8, <1>9, <1>10, <1>11 DEF SortedEntries, es, ops

\* A run is not longer than the number of operations.
LEMMA RunCount ==
    ASSUME NEW ops, NEW order, NEW sts, IsRun(ops, order, sts), NEW i \in 0..Len(order), Len(ops) \in Nat
    PROVE  /\ Len(order) \in Nat /\ \A j \in 1..Len(order) : order[j] \in 1..Len(ops)
           /\ IsFiniteSet(First(order, i)) /\ Cardinality(First(order, i)) = i
           /\ First(order, i) \in SUBSET (1..Len(ops))
<1>1. Len(order) \in Nat /\ \A j \in 1..Len(order) : order[j] \in 1..Len(ops)
  <2> DEFINE S == 1..Len(ops)
  <2>1. order \in Seq(S)
    BY DEF IsRun
  <2> HIDE DEF S
  <2>2. Len(order) \in Nat /\ \A j \in 1..Len(order) : order[j] \in S
    BY <2>1
  <2> QED BY <2>2 DEF S
<1> DEFINE f == [j \in 1..i |-> order[j]]
           F == First(order, i)
<1>2. f \in [1..i -> F] /\ \A j, l \in 1..i : f[j] = f[l] => j = l
  <2>1. \A j \in 1..i : j \in 1..Len(order)
    BY <1>1
  <2> QED BY <2>1 DEF IsRun, First
<1>3. \A x \in F : \E j \in 1..i : f[j] = x
  BY DEF First
<1>4. F \in SUBSET (1..Len(ops))
  BY <1>1 DEF First
<1> HIDE DEF f, F
<1>5. f \in Bijection(1..i, F)
  BY <1>2, <1>3, Fun_IsBij
<1>6. ExistsBijection(1..i, F)
  BY <1>5 DEF ExistsBijection
<1>7. IsFiniteSet(1..i) /\ Cardinality(1..i) = i
  BY <1>1, FS_Interval
<1>8. IsFiniteSet(F) /\ Cardinality(F) = Cardinality(1..i)
  BY <1>6, <1>7, FS_Bijection
<1> QED BY <1>1, <1>4, <1>7, <1>8 DEF F

\* What is recorded for an operation is never replaced by something shorter
Longer(ops, v, longest, longest2) ==
    v => \A x \in 1..Len(ops) :
             Len(longest[x]) \in Nat /\ Len(longest2[x]) \in Nat /\ Len(longest2[x]) >= Len(longest[x])

\* What was explored stays so when longer sequences are recorded.
LEMMA ExploredKept ==
    ASSUME NEW ops, Len(ops) \in Nat, NEW longest, NEW longest2, NEW v, NEW lin, NEW st,
           Explored(ops, longest, v, lin, st),
           Longer(ops, v, longest, longest2)
    PROVE  Explored(ops, longest2, v, lin, st)
<1> SUFFICES ASSUME NEW order, NEW sts, IsRun(ops, order, sts), NEW i \in 0..Len(order),
                    First(order, i) = lin, sts[i] = st
             PROVE  Covered(ops, longest2, v, order)
  BY DEF Explored
<1>1. Covered(ops, longest, v, order)
  BY DEF Explored
<1>2. Len(order) \in Nat /\ \A j \in 1..Len(order) : order[j] \in 1..Len(ops)
  BY RunCount
<1>3. ASSUME v, NEW j \in 1..Len(order) PROVE Len(longest2[order[j]]) >= Len(order)
  <2>1. Len(longest[order[j]]) >= Len(order)
    BY <1>1, <1>3 DEF Covered
  <2>2. order[j] \in 1..Len(ops)
    BY <1>2
  <2> QED BY <1>2, <1>3, <2>1, <2>2 DEF Longer
<1> QED BY <1>1, <1>3 DEF Covered

\* The return of an operation.
LEMMA RetEntry ==
    ASSUME NEW es, GoodEntries(es), NEW c \in DOMAIN es, es[c].kind = "call"
    PROVE  /\ Ret(es, c) \in DOMAIN es /\ Ret(es, c) > c
           /\ es[Ret(es, c)].kind = "return" /\ es[Ret(es, c)].id = es[c].id
<1>1. PICK r \in DOMAIN es : es[r] = [kind |-> "return", id |-> es[c].id]
  BY DEF GoodEntries
<1>2. es[Ret(es, c)] = [kind |-> "return", id |-> es[c].id]
  BY <1>1 DEF Ret
<1> QED BY <1>2, Pair

\* The operations on the stack, in the order they were linearized
StackOrder(es, calls) == [i \in 1..Len(calls) |-> es[calls[i].entry].id]
StackStates(calls, state) == [i \in 0..Len(calls) |-> StAfter(calls, state, i)]

\* The list and the stack of a search
Stack(ops, es, next, prev, calls, lin, state) ==
    /\ ops \in Seq(Operation) /\ SortedEntries(ops, es)
    /\ ListInv(es, next, prev, calls, lin) /\ StackInv(ops, es, calls, state)

\* The stack is a run: no operation is linearized before one that returned before its call.
LEMMA StackRun ==
    ASSUME NEW ops, NEW es, NEW next, NEW prev, NEW calls, NEW lin, NEW state,
           Stack(ops, es, next, prev, calls, lin, state)
    PROVE  /\ IsRun(ops, StackOrder(es, calls), StackStates(calls, state))
           /\ Len(StackOrder(es, calls)) = Len(calls) /\ Len(calls) \in Nat
           /\ \A i \in 0..Len(calls) : First(StackOrder(es, calls), i) = LinAfter(es, calls, i)
           /\ lin = LinAfter(es, calls, Len(calls))
<1> /\ ops \in Seq(Operation) /\ SortedEntries(ops, es)
    /\ ListInv(es, next, prev, calls, lin) /\ StackInv(ops, es, calls, state)
  BY DEF Stack
<1> DEFINE d == Len(calls)
           order == StackOrder(es, calls)
           sts == StackStates(calls, state)
           c(i) == calls[i].entry
<1>1. d \in Nat /\ Len(ops) \in Nat /\ DOMAIN ops = 1..Len(ops)
  BY DEF ListInv, IsSeq
<1>2. \A i \in 1..d : /\ c(i) \in DOMAIN es /\ es[c(i)].kind = "call" /\ es[c(i)].id \in 1..Len(ops)
                      /\ \A j \in 1..(i - 1) : es[c(i)].id # es[c(j)].id
  BY DEF ListInv, Rest, SortedEntries
<1>3. \A i \in 1..d : order[i] = es[c(i)].id
  BY DEF StackOrder
<1>4. order \in [1..d -> 1..Len(ops)]
  BY <1>2 DEF StackOrder
<1> HIDE DEF order, d
<1>5. order \in Seq(1..Len(ops)) /\ Len(order) = d /\ DOMAIN order = 1..d
  <2> DEFINE S == 1..Len(ops)
  <2>1. order \in [1..d -> S]
    BY <1>4
  <2> HIDE DEF S
  <2>2. order \in Seq(S) /\ Len(order) = d /\ DOMAIN order = 1..d
    BY <1>1, <2>1
  <2> QED BY <2>2 DEF S
<1>6. ASSUME NEW i \in 1..d, NEW j \in 1..d, order[i] = order[j] PROVE i = j
  <2>1. CASE i < j
    <3>1. i \in 1..(j - 1)
      BY <1>1, <2>1
    <3> QED BY <1>2, <1>3, <1>6, <3>1
  <2>2. CASE j < i
    <3>1. j \in 1..(i - 1)
      BY <1>1, <2>2
    <3> QED BY <1>2, <1>3, <1>6, <3>1
  <2> QED BY <1>1, <2>1, <2>2
<1>7. RealTime(ops, order)
  <2> SUFFICES ASSUME NEW i \in 1..d, NEW x \in 1..Len(ops), ops[x].Return < ops[order[i]].Call
               PROVE  \E j \in 1..(i - 1) : order[j] = x
    BY <1>1, <1>5 DEF RealTime
  <2>1. PICK n \in DOMAIN es : es[n] = [kind |-> "call", id |-> x]
    BY DEF SortedEntries
  <2> DEFINE r == Ret(es, n)
  <2>2. es[n].kind = "call" /\ es[n].id = x
    BY <2>1
  <2>3. r \in DOMAIN es /\ es[r].kind = "return" /\ es[r].id = x
    BY <2>2, RetEntry DEF SortedEntries
  <2> HIDE DEF r
  <2>4. r < c(i)
    BY <1>2, <1>3, <2>3 DEF SortedEntries
  <2>5. r \notin Rest(es, calls, i - 1)
    <3>1. CallsUpto(es, calls, i - 1, c(i))
      BY DEF StackInv, d
    <3> QED BY <2>3, <2>4, <3>1 DEF CallsUpto
  <2>6. PICK j \in 1..(i - 1) : es[r].id = es[c(j)].id
    BY <2>3, <2>5 DEF Rest
  <2>7. j \in 1..d
    BY <1>1
  <2>8. order[j] = x
    BY <1>3, <2>3, <2>6, <2>7
  <2> QED BY <2>8
<1>8. /\ sts[0] = InitState
      /\ \A i \in 1..d : /\ KvStep(sts[i - 1], ops[order[i]]).ok
                         /\ sts[i] = KvStep(sts[i - 1], ops[order[i]]).state
  <2>1. \A i \in 0..d : sts[i] = StAfter(calls, state, i)
    BY DEF StackStates, d
  <2>2. 0 \in 0..d /\ \A i \in 1..d : i \in 0..d /\ i - 1 \in 0..d
    BY <1>1
  <2> HIDE DEF sts
  <2> QED BY <1>3, <2>1, <2>2 DEF StackInv, d
<1>9. IsRun(ops, order, sts)
  BY <1>5, <1>6, <1>7, <1>8 DEF IsRun
<1>10. ASSUME NEW i \in 0..d PROVE First(order, i) = LinAfter(es, calls, i)
  <2>1. \A j \in 1..i : order[j] = es[c(j)].id
    BY <1>1, <1>3
  <2> QED BY <2>1 DEF First, LinAfter
<1>11. lin = LinAfter(es, calls, d)
  BY DEF ListInv, LinAfter, d
<1> QED BY <1>1, <1>5, <1>9, <1>10, <1>11 DEF order, d

\* The first l numbers.
LEMMA Upto ==
    ASSUME NEW l \in Nat
    PROVE  IsFiniteSet(1..l) /\ Cardinality(1..l) = l
BY FS_Interval

\* The stack linearizes as many operations as it has calls.
LEMMA StackCount ==
    ASSUME NEW ops, NEW es, NEW next, NEW prev, NEW calls, NEW lin, NEW state,
           Stack(ops, es, next, prev, calls, lin, state)
    PROVE  LET now == LinAfter(es, calls, Len(calls)) IN
           Cardinality(now) = Len(calls) /\ IsFiniteSet(now) /\ now \in SUBSET (1..Len(ops))
<1> DEFINE order == StackOrder(es, calls)
           sts == StackStates(calls, state)
           d == Len(calls)
           now == LinAfter(es, calls, d)
<1>1. /\ IsRun(ops, order, sts) /\ Len(order) = d /\ d \in Nat
      /\ \A j \in 0..d : First(order, j) = LinAfter(es, calls, j)
  BY StackRun
<1>2. d \in 0..Len(order) /\ d \in 0..d
  BY <1>1
<1>3. First(order, d) = now
  BY <1>1, <1>2
<1>4. Len(ops) \in Nat
  BY DEF Stack
<1> HIDE DEF order, sts, d, now
<1>5. /\ IsFiniteSet(First(order, d)) /\ Cardinality(First(order, d)) = d
      /\ First(order, d) \in SUBSET (1..Len(ops))
  BY <1>1, <1>2, <1>4, RunCount
<1> QED BY <1>3, <1>5 DEF d, now

\* When the search meets a return, every run through the present point is covered: it ends
\* here, or goes on with an operation whose call is before that return and has been tried.
LEMMA ExploredHere ==
    ASSUME NEW ops, NEW es, NEW next, NEW prev, NEW calls, NEW lin, NEW state,
           Stack(ops, es, next, prev, calls, lin, state),
           NEW longest, NEW v,
           NEW e \in Rest(es, calls, Len(calls)), es[e].kind = "return",
           Tried(ops, longest, v, es, calls, state, Len(calls), e),
           v => \A x \in LinAfter(es, calls, Len(calls)) : Len(longest[x]) >= Len(calls)
    PROVE  Explored(ops, longest, v, LinAfter(es, calls, Len(calls)), state)
<1> DEFINE d == Len(calls)
           now == LinAfter(es, calls, d)
<1> SUFFICES ASSUME NEW order, NEW sts, IsRun(ops, order, sts), NEW i \in 0..Len(order),
                    First(order, i) = now, sts[i] = state
             PROVE  Covered(ops, longest, v, order)
  BY DEF Explored
<1> /\ ops \in Seq(Operation) /\ SortedEntries(ops, es)
    /\ ListInv(es, next, prev, calls, lin) /\ StackInv(ops, es, calls, state)
  BY DEF Stack
<1>1. d \in Nat /\ Len(ops) \in Nat /\ DOMAIN ops = 1..Len(ops) /\ StAfter(calls, state, d) = state
  BY DEF ListInv, IsSeq, StAfter
<1>2. Cardinality(now) = d /\ IsFiniteSet(now) /\ now \in SUBSET (1..Len(ops))
  BY StackCount
<1>3. i = d /\ Len(order) \in Nat /\ \A j \in 1..Len(order) : order[j] \in 1..Len(ops)
  BY <1>1, <1>2, RunCount
<1> DEFINE z == es[e].id
<1>4. e \in DOMAIN es /\ z \in 1..Len(ops) /\ z \notin now
  BY DEF Rest, SortedEntries, LinAfter
<1>5. d < Len(ops)
  <2>1. now \in SUBSET ((1..Len(ops)) \ {z})
    BY <1>2, <1>4
  <2>2. IsFiniteSet(1..Len(ops)) /\ Cardinality(1..Len(ops)) = Len(ops)
    BY <1>1, Upto
  <2> DEFINE W == 1..Len(ops)
  <2>3. IsFiniteSet(W) /\ Cardinality(W) = Len(ops) /\ z \in W
    BY <1>4, <2>2
  <2>4. now \in SUBSET (W \ {z})
    BY <2>1
  <2> HIDE DEF W, now, z
  <2>5. IsFiniteSet(W \ {z}) /\ Cardinality(W \ {z}) = Cardinality(W) - 1
    BY <2>3, FS_RemoveElement
  <2>6. Cardinality(now) <= Cardinality(W \ {z})
    BY <2>4, <2>5, FS_Subset
  <2> QED BY <1>1, <1>2, <2>3, <2>5, <2>6
<1> HIDE DEF now, d
<1>6. CASE Len(order) = d
  <2>1. \A j \in 1..Len(order) : order[j] \in now
    BY <1>3, <1>6 DEF First
  <2> QED BY <1>5, <1>6, <2>1 DEF Covered, now, d
<1>7. CASE Len(order) # d
  <2>1. d + 1 \in 1..Len(order) /\ d + 1 \in 0..Len(order)
    BY <1>1, <1>3, <1>7
  <2> DEFINE y == order[d + 1]
             step == KvStep(state, ops[y])
  <2>2. y \in 1..Len(ops) /\ step.ok /\ sts[d + 1] = step.state
    <3>1. (d + 1) - 1 = d
      BY <1>1
    <3> QED BY <1>3, <2>1, <3>1 DEF IsRun
  <2>3. y \notin now
    <3>1. \A j \in 1..d : order[j] # order[d + 1]
      BY <1>1, <1>3, <2>1 DEF IsRun
    <3> QED BY <1>3, <3>1 DEF First
  <2>4. PICK n \in DOMAIN es : es[n] = [kind |-> "call", id |-> y]
    BY <2>2 DEF SortedEntries
  <2>5. es[n].kind = "call" /\ es[n].id = y
    BY <2>4
  <2> HIDE DEF y, step
  <2>6. n \in Rest(es, calls, d)
    BY <2>3, <2>5 DEF Rest, now, LinAfter
  <2>7. n < e
    <3>1. ~(ops[z].Return < ops[y].Call)
      <4> SUFFICES ASSUME ops[z].Return < ops[y].Call PROVE FALSE
        OBVIOUS
      <4>0. DOMAIN order = 1..Len(order)
        BY DEF IsRun
      <4>1. PICK j \in 1..((d + 1) - 1) : order[j] = z
        BY <1>1, <1>4, <2>1, <4>0 DEF IsRun, RealTime, y
      <4>2. j \in 1..d
        BY <1>1
      <4>3. z \in now
        BY <1>3, <4>1, <4>2 DEF First
      <4> QED BY <1>4, <4>3
    <3>2. ~(e < n)
      BY <1>4, <2>5, <3>1 DEF SortedEntries
    <3>3. e # n
      BY <2>5
    <3>4. e \in Int /\ n \in Int
      BY <1>4 DEF SortedEntries, GoodEntries
    <3> QED BY <3>2, <3>3, <3>4
  <2>8. Explored(ops, longest, v, now \cup {y}, step.state)
    BY <1>1, <2>2, <2>5, <2>6, <2>7 DEF Tried, now, d, step
  <2>9. First(order, d + 1) = now \cup {y}
    <3>1. 1..(d + 1) = (1..d) \cup {d + 1}
      BY <1>1
    <3> QED BY <1>3, <3>1 DEF First, y
  <2> QED BY <2>1, <2>2, <2>8, <2>9 DEF Explored
<1> QED BY <1>6, <1>7

-----------------------------------------------------------------------------
(* The steps of the search.                                                *)

\* Two stacks whose first d calls are the same
SameUpto(es, calls, state, calls2, state2, d) ==
    /\ \A i \in 1..d : calls2[i] = calls[i]
    /\ \A i \in 0..d : /\ Rest(es, calls2, i) = Rest(es, calls, i)
                       /\ LinAfter(es, calls2, i) = LinAfter(es, calls, i)
                       /\ StAfter(calls2, state2, i) = StAfter(calls, state, i)

\* The stack with the call c on top
WithCall(calls, c, state) == Append(calls, [entry |-> c, state |-> state])

\* One call more.
LEMMA PushSame ==
    ASSUME NEW calls, IsSeq(calls), NEW es, NEW c, NEW state, NEW state2
    PROVE  LET d == Len(calls)
               calls2 == WithCall(calls, c, state) IN
           /\ d \in Nat /\ Len(calls2) = d + 1 /\ calls2[d + 1] = [entry |-> c, state |-> state]
           /\ SameUpto(es, calls, state, calls2, state2, d)
           /\ StAfter(calls, state, d) = state /\ StAfter(calls2, state2, d + 1) = state2
           /\ LinAfter(es, calls2, d + 1) = LinAfter(es, calls, d) \cup {es[c].id}
<1> DEFINE d == Len(calls)
           x == [entry |-> c, state |-> state]
           calls2 == Append(calls, x)
<1>1. d \in Nat /\ Len(calls2) = d + 1 /\ calls2[d + 1] = x /\ \A i \in 1..d : calls2[i] = calls[i]
  <2> DEFINE S == {calls[i] : i \in DOMAIN calls} \cup {x}
  <2>1. calls \in Seq(S)
    BY DEF IsSeq
  <2>2. x \in S
    OBVIOUS
  <2> HIDE DEF S, x
  <2> QED BY <2>1, <2>2
<1>2. x.entry = c /\ x.state = state
  OBVIOUS
<1> HIDE DEF calls2, x
<1>3. ASSUME NEW i \in 0..d
      PROVE  /\ Rest(es, calls2, i) = Rest(es, calls, i)
             /\ LinAfter(es, calls2, i) = LinAfter(es, calls, i)
             /\ StAfter(calls2, state2, i) = StAfter(calls, state, i)
  <2>1. i \in Nat /\ i # d + 1 /\ \A j \in 1..i : calls2[j] = calls[j]
    BY <1>1
  <2>2. Rest(es, calls2, i) = Rest(es, calls, i)
    BY <2>1, RestSame
  <2>3. LinAfter(es, calls2, i) = LinAfter(es, calls, i)
    BY <2>1 DEF LinAfter
  <2>4. CASE i = d
    BY <1>1, <1>2, <2>1, <2>2, <2>3, <2>4 DEF StAfter
  <2>5. CASE i # d
    <3>1. i + 1 \in 1..d
      BY <1>1, <2>5
    <3> QED BY <1>1, <2>1, <2>2, <2>3, <2>5, <3>1 DEF StAfter
  <2> QED BY <2>4, <2>5
<1>4. LinAfter(es, calls2, d + 1) = LinAfter(es, calls, d) \cup {es[c].id}
  <2>1. 1..(d + 1) = (1..d) \cup {d + 1}
    BY <1>1
  <2> HIDE DEF d
  <2> QED BY <1>1, <1>2, <2>1 DEF LinAfter
<1> QED BY <1>1, <1>3, <1>4 DEF SameUpto, StAfter, WithCall, calls2, x

\* The stack without the last call.
LEMMA PopSame ==
    ASSUME NEW calls, IsSeq(calls), calls # <<>>, NEW es, NEW state
    PROVE  LET d == Len(calls)
               calls2 == Popped(calls)
               state2 == calls[d].state IN
           /\ d \in Nat \ {0} /\ Len(calls2) = d - 1 /\ IsSeq(calls2)
           /\ SameUpto(es, calls, state, calls2, state2, d - 1)
           /\ StAfter(calls, state, d) = state /\ StAfter(calls, state, d - 1) = state2
           /\ LinAfter(es, calls, d) = LinAfter(es, calls, d - 1) \cup {es[Top(calls)].id}
<1> DEFINE d == Len(calls)
           calls2 == SubSeq(calls, 1, d - 1)
           state2 == calls[d].state
<1>1. d \in Nat \ {0} /\ IsSeq(calls2) /\ Len(calls2) = d - 1 /\ \A i \in 1..(d - 1) : calls2[i] = calls[i]
  <2> DEFINE S == {calls[i] : i \in DOMAIN calls}
  <2>1. calls \in Seq(S)
    BY DEF IsSeq
  <2> HIDE DEF S
  <2>2. d \in Nat \ {0}
    BY <2>1
  <2>3. 1 \in 1..(d + 1) /\ d - 1 \in (1 - 1)..d /\ d - 1 \in Int
    BY <2>2
  <2>4. /\ calls2 \in Seq(S) /\ Len(calls2) = IF 1 <= d - 1 THEN d - 1 - 1 + 1 ELSE 0
        /\ \A i \in 1..(d - 1) : calls2[i] = calls[1 + i - 1]
    BY <2>1, <2>3, SubSeqProperties
  <2> HIDE DEF calls2, d
  <2>5. Len(calls2) = d - 1
    BY <2>2, <2>4
  <2>6. \A i \in 1..(d - 1) : 1 + i - 1 = i
    BY <2>2
  <2>7. IsSeq(calls2)
    BY <2>4 DEF IsSeq
  <2> QED BY <2>2, <2>4, <2>5, <2>6, <2>7
<1> HIDE DEF calls2
<1>2. StAfter(calls, state, d) = state /\ StAfter(calls, state, d - 1) = state2
  BY <1>1 DEF StAfter
<1>3. ASSUME NEW i \in 0..(d - 1)
      PROVE  /\ Rest(es, calls2, i) = Rest(es, calls, i)
             /\ LinAfter(es, calls2, i) = LinAfter(es, calls, i)
             /\ StAfter(calls2, state2, i) = StAfter(calls, state, i)
  <2>1. i \in Nat /\ i # d /\ \A j \in 1..i : calls2[j] = calls[j]
    BY <1>1
  <2>2. Rest(es, calls2, i) = Rest(es, calls, i)
    BY <2>1, RestSame
  <2>3. LinAfter(es, calls2, i) = LinAfter(es, calls, i)
    BY <2>1 DEF LinAfter
  <2>4. CASE i = d - 1
    BY <1>1, <1>2, <2>1, <2>2, <2>3, <2>4 DEF StAfter
  <2>5. CASE i # d - 1
    <3>1. i + 1 \in 1..(d - 1)
      BY <1>1, <2>5
    <3> QED BY <1>1, <2>1, <2>2, <2>3, <2>5, <3>1 DEF StAfter
  <2> QED BY <2>4, <2>5
<1>4. LinAfter(es, calls, d) = LinAfter(es, calls, d - 1) \cup {es[calls[d].entry].id}
  <2>1. 1..d = (1..(d - 1)) \cup {d}
    BY <1>1
  <2> HIDE DEF d
  <2> QED BY <1>1, <2>1 DEF LinAfter
<1> QED BY <1>1, <1>2, <1>3, <1>4 DEF SameUpto, calls2, Top, Popped

\* Exactly the entries of the operations that are not linearized are left.
LEMMA RestLin ==
    ASSUME NEW es, NEW calls, NEW i
    PROVE  \A n : n \in Rest(es, calls, i) <=> n \in DOMAIN es /\ es[n].id \notin LinAfter(es, calls, i)
BY DEF Rest, LinAfter

\* What was tried stays so when longer sequences are recorded.
LEMMA TriedKept ==
    ASSUME NEW ops, Len(ops) \in Nat, NEW longest, NEW longest2, NEW v, NEW es, NEW calls, NEW state,
           NEW i, NEW e, Tried(ops, longest, v, es, calls, state, i, e),
           Longer(ops, v, longest, longest2)
    PROVE  Tried(ops, longest2, v, es, calls, state, i, e)
<1> SUFFICES ASSUME NEW n \in Rest(es, calls, i), n < e, KvStep(StAfter(calls, state, i), ops[es[n].id]).ok
             PROVE  Explored(ops, longest2, v, LinAfter(es, calls, i) \cup {es[n].id},
                             KvStep(StAfter(calls, state, i), ops[es[n].id]).state)
  BY DEF Tried
<1>1. Explored(ops, longest, v, LinAfter(es, calls, i) \cup {es[n].id},
               KvStep(StAfter(calls, state, i), ops[es[n].id]).state)
  BY DEF Tried
<1> QED BY <1>1, ExploredKept

\* What was tried on one stack was tried on another with the same first calls.
LEMMA TriedSame ==
    ASSUME NEW ops, NEW longest, NEW v, NEW es, NEW calls, NEW state, NEW calls2, NEW state2, NEW d,
           SameUpto(es, calls, state, calls2, state2, d), NEW i \in 0..d, NEW e,
           Tried(ops, longest, v, es, calls, state, i, e)
    PROVE  Tried(ops, longest, v, es, calls2, state2, i, e)
<1>1. /\ Rest(es, calls2, i) = Rest(es, calls, i)
      /\ LinAfter(es, calls2, i) = LinAfter(es, calls, i)
      /\ StAfter(calls2, state2, i) = StAfter(calls, state, i)
  BY DEF SameUpto
<1> QED BY <1>1 DEF Tried

\* Nothing is before the first entry of the list.
LEMMA NothingBefore ==
    ASSUME NEW es, GoodEntries(es), NEW calls, NEW i, NEW e, IsNext(Rest(es, calls, i), Len(es), 0, e),
           NEW ops, NEW longest, NEW v, NEW state
    PROVE  CallsUpto(es, calls, i, e) /\ Tried(ops, longest, v, es, calls, state, i, e)
<1>1. ASSUME NEW n \in Rest(es, calls, i) PROVE ~(n < e)
  <2>1. n \in DOMAIN es
    BY DEF Rest
  <2>2. 0 < n
    BY <2>1 DEF GoodEntries
  <2> QED BY <2>2 DEF IsNext
<1> QED BY <1>1 DEF CallsUpto, Tried

\* The entries before the one that follows c are c and those before c.
LEMMA BeforeNext ==
    ASSUME NEW es, GoodEntries(es), NEW calls, NEW i, NEW c \in Rest(es, calls, i), NEW e,
           IsNext(Rest(es, calls, i), Len(es), c, e), NEW n \in Rest(es, calls, i), n < e
    PROVE  n < c \/ n = c
<1>1. n \in Int /\ c \in Int
  BY DEF Rest, GoodEntries
<1>2. ~(c < n)
  BY DEF IsNext
<1> QED BY <1>1, <1>2

\* The operation of c is linearized: the stack stays a run.
LEMMA PushStack ==
    ASSUME NEW ops, NEW es, NEW calls, NEW state, IsSeq(calls), StackInv(ops, es, calls, state),
           NEW c \in Rest(es, calls, Len(calls)), CallsUpto(es, calls, Len(calls), c),
           KvStep(state, ops[es[c].id]).ok
    PROVE  StackInv(ops, es, WithCall(calls, c, state), KvStep(state, ops[es[c].id]).state)
<1> DEFINE d == Len(calls)
           x == [entry |-> c, state |-> state]
           calls2 == WithCall(calls, c, state)
           step == KvStep(state, ops[es[c].id])
           state2 == step.state
<1>1. /\ d \in Nat /\ Len(calls2) = d + 1 /\ calls2[d + 1] = x
      /\ SameUpto(es, calls, state, calls2, state2, d)
      /\ StAfter(calls, state, d) = state /\ StAfter(calls2, state2, d + 1) = state2
  BY PushSame
<1>2. x.entry = c /\ step.ok
  OBVIOUS
<1> HIDE DEF calls2, x, state2
<1>3. StAfter(calls2, state2, 0) = InitState
  <2>1. 0 \in 0..d
    BY <1>1
  <2> QED BY <1>1, <2>1 DEF SameUpto, StackInv
<1>4. ASSUME NEW i \in 1..(d + 1)
      PROVE  LET st == KvStep(StAfter(calls2, state2, i - 1), ops[es[calls2[i].entry].id]) IN
             /\ st.ok /\ StAfter(calls2, state2, i) = st.state
             /\ CallsUpto(es, calls2, i - 1, calls2[i].entry)
  <2>1. CASE i = d + 1
    <3>1. i - 1 = d /\ d \in 0..d
      BY <1>1, <2>1
    <3>2. StAfter(calls2, state2, i - 1) = state /\ Rest(es, calls2, i - 1) = Rest(es, calls, d)
      BY <1>1, <3>1 DEF SameUpto
    <3>3. calls2[i].entry = c
      BY <1>1, <1>2, <2>1
    <3>4. CallsUpto(es, calls2, i - 1, c)
      BY <3>2 DEF CallsUpto
    <3> QED BY <1>1, <1>2, <2>1, <3>2, <3>3, <3>4 DEF state2
  <2>2. CASE i # d + 1
    <3>1. i \in 1..d /\ i \in 0..d /\ i - 1 \in 0..d
      BY <1>1, <2>2
    <3>2. /\ calls2[i] = calls[i] /\ Rest(es, calls2, i - 1) = Rest(es, calls, i - 1)
          /\ StAfter(calls2, state2, i - 1) = StAfter(calls, state, i - 1)
          /\ StAfter(calls2, state2, i) = StAfter(calls, state, i)
      BY <1>1, <3>1 DEF SameUpto
    <3>3. LET st == KvStep(StAfter(calls, state, i - 1), ops[es[calls[i].entry].id]) IN
          /\ st.ok /\ StAfter(calls, state, i) = st.state
          /\ CallsUpto(es, calls, i - 1, calls[i].entry)
      BY <3>1 DEF StackInv
    <3>4. CallsUpto(es, calls2, i - 1, calls2[i].entry)
      BY <3>2, <3>3 DEF CallsUpto
    <3> QED BY <3>2, <3>3, <3>4
  <2> QED BY <2>1, <2>2
<1> QED BY <1>1, <1>3, <1>4 DEF StackInv, calls2, x, state2

\* The operation of c is linearized: what was tried before it and before the calls on the
\* stack is explored, and the cache holds the new point of the search.
LEMMA PushTried ==
    ASSUME NEW ops, NEW es, NEW calls, NEW state, IsSeq(calls), NEW longest, NEW v, NEW cache, NEW c, NEW state2,
           StackTried(ops, longest, v, es, calls, state),
           Tried(ops, longest, v, es, calls, state, Len(calls), c),
           CacheInv(ops, longest, v, es, calls, state, cache)
    PROVE  LET calls2 == WithCall(calls, c, state)
               lin2 == LinAfter(es, calls, Len(calls)) \cup {es[c].id} IN
           /\ StackTried(ops, longest, v, es, calls2, state2)
           /\ CacheInv(ops, longest, v, es, calls2, state2,
                       cache \cup {[linearized |-> lin2, state |-> state2]})
<1> DEFINE d == Len(calls)
           x == [entry |-> c, state |-> state]
           calls2 == WithCall(calls, c, state)
           lin2 == LinAfter(es, calls, d) \cup {es[c].id}
           new == [linearized |-> lin2, state |-> state2]
<1>1. /\ d \in Nat /\ Len(calls2) = d + 1 /\ calls2[d + 1] = x
      /\ SameUpto(es, calls, state, calls2, state2, d)
      /\ StAfter(calls2, state2, d + 1) = state2 /\ LinAfter(es, calls2, d + 1) = lin2
  BY PushSame
<1>2. x.entry = c /\ new.linearized = lin2 /\ new.state = state2
  OBVIOUS
<1> HIDE DEF calls2, x, new, lin2
<1>3. ASSUME NEW i \in 1..(d + 1)
      PROVE  Tried(ops, longest, v, es, calls2, state2, i - 1, calls2[i].entry)
  <2>0. i - 1 \in 0..d
    BY <1>1
  <2>1. CASE i = d + 1
    <3>1. i - 1 = d /\ calls2[i].entry = c
      BY <1>1, <1>2, <2>1
    <3> QED BY <1>1, <2>0, <3>1, TriedSame
  <2>2. CASE i # d + 1
    <3>1. i \in 1..d
      BY <1>1, <2>2
    <3>2. Tried(ops, longest, v, es, calls, state, i - 1, calls[i].entry)
      BY <3>1 DEF StackTried
    <3>3. calls2[i] = calls[i]
      BY <1>1, <3>1 DEF SameUpto
    <3> QED BY <1>1, <2>0, <3>2, <3>3, TriedSame
  <2> QED BY <2>1, <2>2
<1>4. ASSUME NEW e \in cache \cup {new}
      PROVE  \/ Explored(ops, longest, v, e.linearized, e.state)
             \/ \E i \in 1..(d + 1) :
                    e.linearized = LinAfter(es, calls2, i) /\ e.state = StAfter(calls2, state2, i)
  <2>1. CASE e = new
    <3>1. d + 1 \in 1..(d + 1)
      BY <1>1
    <3> QED BY <1>1, <1>2, <2>1, <3>1
  <2>2. CASE e \in cache /\ ~Explored(ops, longest, v, e.linearized, e.state)
    <3>1. PICK i \in 1..d : e.linearized = LinAfter(es, calls, i) /\ e.state = StAfter(calls, state, i)
      BY <2>2 DEF CacheInv
    <3>2. i \in 0..d /\ i \in 1..(d + 1)
      BY <1>1
    <3>3. LinAfter(es, calls2, i) = LinAfter(es, calls, i) /\ StAfter(calls2, state2, i) = StAfter(calls, state, i)
      BY <1>1, <3>2 DEF SameUpto
    <3> QED BY <3>1, <3>2, <3>3
  <2> QED BY <2>1, <2>2
<1>5. StackTried(ops, longest, v, es, calls2, state2)
  BY <1>1, <1>3 DEF StackTried
<1>6. CacheInv(ops, longest, v, es, calls2, state2, cache \cup {new})
  BY <1>1, <1>4 DEF CacheInv
<1> QED BY <1>5, <1>6 DEF calls2, x, new, lin2

\* The operation of c cannot be linearized here, or what follows is in the cache, and so
\* explored: it cannot be on the stack, which does not have the operation.
LEMMA SkipTried ==
    ASSUME NEW ops, NEW es, GoodEntries(es), NEW calls, NEW state, IsSeq(calls), NEW longest, NEW v, NEW cache,
           CacheInv(ops, longest, v, es, calls, state, cache),
           NEW c \in Rest(es, calls, Len(calls)), es[c].kind = "call",
           NEW e, IsNext(Rest(es, calls, Len(calls)), Len(es), c, e),
           CallsUpto(es, calls, Len(calls), c), Tried(ops, longest, v, es, calls, state, Len(calls), c),
           LET step == KvStep(state, ops[es[c].id]) IN
           step.ok => \E y \in cache : /\ LinAfter(es, calls, Len(calls)) \cup {es[c].id} = y.linearized
                                       /\ y.state = step.state
    PROVE  CallsUpto(es, calls, Len(calls), e) /\ Tried(ops, longest, v, es, calls, state, Len(calls), e)
<1> DEFINE d == Len(calls)
           lin == LinAfter(es, calls, d)
           step == KvStep(state, ops[es[c].id])
<1>1. d \in Nat /\ StAfter(calls, state, d) = state
  BY DEF IsSeq, StAfter
<1>2. ASSUME step.ok PROVE Explored(ops, longest, v, lin \cup {es[c].id}, step.state)
  <2>1. PICK y \in cache : lin \cup {es[c].id} = y.linearized /\ y.state = step.state
    BY <1>2
  <2>2. ASSUME NEW i \in 1..d PROVE y.linearized # LinAfter(es, calls, i)
    <3>1. LinAfter(es, calls, i) \subseteq lin
      BY <1>1 DEF LinAfter
    <3>2. es[c].id \notin lin
      BY RestLin
    <3> QED BY <2>1, <3>1, <3>2
  <2>3. Explored(ops, longest, v, y.linearized, y.state)
    BY <2>2 DEF CacheInv
  <2> QED BY <2>1, <2>3
<1> HIDE DEF step, lin, d
<1>3. ASSUME NEW n \in Rest(es, calls, d), n < e PROVE n < c \/ n = c
  BY <1>3, BeforeNext DEF d
<1>4. CallsUpto(es, calls, d, e)
  BY <1>3 DEF CallsUpto, d
<1>5. Tried(ops, longest, v, es, calls, state, d, e)
  <2> SUFFICES ASSUME NEW n \in Rest(es, calls, d), n < e, KvStep(StAfter(calls, state, d), ops[es[n].id]).ok
               PROVE  Explored(ops, longest, v, LinAfter(es, calls, d) \cup {es[n].id},
                               KvStep(StAfter(calls, state, d), ops[es[n].id]).state)
    BY DEF Tried
  <2>1. CASE n = c
    BY <1>1, <1>2, <2>1 DEF step, lin
  <2>2. CASE n < c
    BY <2>2 DEF Tried, d
  <2> QED BY <1>3, <2>1, <2>2
<1> QED BY <1>4, <1>5 DEF d

\* The last operation is undone: the stack stays a run.
LEMMA PopStack ==
    ASSUME NEW ops, NEW es, NEW calls, NEW state, IsSeq(calls), calls # <<>>, StackInv(ops, es, calls, state)
    PROVE  StackInv(ops, es, Popped(calls), calls[Len(calls)].state)
<1> DEFINE d == Len(calls)
           calls2 == Popped(calls)
           state2 == calls[d].state
<1>1. d \in Nat \ {0} /\ Len(calls2) = d - 1 /\ SameUpto(es, calls, state, calls2, state2, d - 1)
  BY PopSame
<1> HIDE DEF calls2, state2
<1>2. StAfter(calls2, state2, 0) = InitState
  <2>1. 0 \in 0..(d - 1)
    BY <1>1
  <2> QED BY <1>1, <2>1 DEF SameUpto, StackInv
<1>3. ASSUME NEW i \in 1..(d - 1)
      PROVE  LET st == KvStep(StAfter(calls2, state2, i - 1), ops[es[calls2[i].entry].id]) IN
             /\ st.ok /\ StAfter(calls2, state2, i) = st.state
             /\ CallsUpto(es, calls2, i - 1, calls2[i].entry)
  <2>1. i \in 1..d /\ i \in 0..(d - 1) /\ i - 1 \in 0..(d - 1)
    BY <1>1
  <2>2. /\ calls2[i] = calls[i] /\ Rest(es, calls2, i - 1) = Rest(es, calls, i - 1)
        /\ StAfter(calls2, state2, i - 1) = StAfter(calls, state, i - 1)
        /\ StAfter(calls2, state2, i) = StAfter(calls, state, i)
    BY <1>1, <2>1 DEF SameUpto
  <2>3. LET st == KvStep(StAfter(calls, state, i - 1), ops[es[calls[i].entry].id]) IN
        /\ st.ok /\ StAfter(calls, state, i) = st.state
        /\ CallsUpto(es, calls, i - 1, calls[i].entry)
    BY <2>1 DEF StackInv
  <2>4. CallsUpto(es, calls2, i - 1, calls2[i].entry)
    BY <2>2, <2>3 DEF CallsUpto
  <2> QED BY <2>2, <2>3, <2>4
<1> QED BY <1>1, <1>2, <1>3 DEF StackInv, calls2, state2

\* The last operation is undone when every run through the present point is covered: the
\* point is explored, and the calls up to the one that is undone have been tried.
LEMMA PopTried ==
    ASSUME NEW ops, Len(ops) \in Nat, NEW es, GoodEntries(es), NEW calls, NEW state, IsSeq(calls), calls # <<>>,
           StackInv(ops, es, calls, state),
           \A i \in 1..Len(calls) : /\ calls[i].entry \in Rest(es, calls, i - 1)
                                    /\ es[calls[i].entry].kind = "call",
           NEW longest, NEW longest2, NEW v, NEW cache, Longer(ops, v, longest, longest2),
           StackTried(ops, longest, v, es, calls, state), CacheInv(ops, longest, v, es, calls, state, cache),
           Explored(ops, longest2, v, LinAfter(es, calls, Len(calls)), state),
           NEW e, IsNext(Rest(es, Popped(calls), Len(Popped(calls))), Len(es), Top(calls), e)
    PROVE  LET calls2 == Popped(calls)
               state2 == calls[Len(calls)].state IN
           /\ StackTried(ops, longest2, v, es, calls2, state2)
           /\ CacheInv(ops, longest2, v, es, calls2, state2, cache)
           /\ CallsUpto(es, calls2, Len(calls2), e)
           /\ Tried(ops, longest2, v, es, calls2, state2, Len(calls2), e)
<1> DEFINE d == Len(calls)
           calls2 == Popped(calls)
           state2 == calls[d].state
           c == Top(calls)
<1>1. /\ d \in Nat \ {0} /\ Len(calls2) = d - 1 /\ SameUpto(es, calls, state, calls2, state2, d - 1)
      /\ StAfter(calls, state, d) = state /\ StAfter(calls, state, d - 1) = state2
      /\ LinAfter(es, calls, d) = LinAfter(es, calls, d - 1) \cup {es[c].id}
  BY PopSame
<1>2. d \in 1..d /\ d - 1 \in 0..(d - 1)
  BY <1>1
<1>3. /\ calls[d].entry = c /\ es[c].kind = "call" /\ c \in Rest(es, calls, d - 1)
      /\ KvStep(state2, ops[es[c].id]).ok /\ KvStep(state2, ops[es[c].id]).state = state
      /\ CallsUpto(es, calls, d - 1, c) /\ Tried(ops, longest, v, es, calls, state, d - 1, c)
  BY <1>1, <1>2 DEF StackInv, StackTried, Top
<1> HIDE DEF d, calls2, state2, c
<1>4. /\ Rest(es, calls2, d - 1) = Rest(es, calls, d - 1)
      /\ LinAfter(es, calls2, d - 1) = LinAfter(es, calls, d - 1)
      /\ StAfter(calls2, state2, d - 1) = StAfter(calls, state, d - 1)
  BY <1>1, <1>2 DEF SameUpto
<1>5. ASSUME NEW i \in 1..(d - 1) PROVE Tried(ops, longest2, v, es, calls2, state2, i - 1, calls2[i].entry)
  <2>1. i \in 1..d /\ i - 1 \in 0..(d - 1)
    BY <1>1
  <2>2. Tried(ops, longest, v, es, calls, state, i - 1, calls[i].entry)
    BY <2>1 DEF StackTried, d
  <2>3. Tried(ops, longest2, v, es, calls, state, i - 1, calls[i].entry)
    BY <2>2, TriedKept
  <2>4. Tried(ops, longest2, v, es, calls2, state2, i - 1, calls[i].entry)
    BY <1>1, <2>1, <2>3, TriedSame
  <2>5. calls2[i] = calls[i]
    BY <1>1 DEF SameUpto
  <2> QED BY <2>4, <2>5
<1>6. ASSUME NEW y \in cache
      PROVE  \/ Explored(ops, longest2, v, y.linearized, y.state)
             \/ \E i \in 1..(d - 1) : y.linearized = LinAfter(es, calls2, i) /\ y.state = StAfter(calls2, state2, i)
  <2>1. CASE Explored(ops, longest, v, y.linearized, y.state)
    BY <2>1, ExploredKept
  <2>2. CASE ~Explored(ops, longest, v, y.linearized, y.state)
    <3>1. PICK i \in 1..d : y.linearized = LinAfter(es, calls, i) /\ y.state = StAfter(calls, state, i)
      BY <2>2 DEF CacheInv, d
    <3>2. CASE i = d
      BY <1>1, <3>1, <3>2 DEF d
    <3>3. CASE i # d
      <4>1. i \in 1..(d - 1) /\ i \in 0..(d - 1)
        BY <1>1, <3>3
      <4>2. LinAfter(es, calls2, i) = LinAfter(es, calls, i) /\ StAfter(calls2, state2, i) = StAfter(calls, state, i)
        BY <1>1, <4>1 DEF SameUpto
      <4> QED BY <3>1, <4>1, <4>2
    <3> QED BY <3>2, <3>3
  <2> QED BY <2>1, <2>2
<1>7. ASSUME NEW n \in Rest(es, calls2, d - 1), n < e PROVE n < c \/ n = c
  <2>1. IsNext(Rest(es, calls2, d - 1), Len(es), c, e)
    BY <1>1 DEF calls2, c
  <2>2. c \in Rest(es, calls2, d - 1)
    BY <1>3, <1>4
  <2> QED BY <1>7, <2>1, <2>2, BeforeNext
<1>8. CallsUpto(es, calls2, d - 1, e)
  BY <1>3, <1>4, <1>7 DEF CallsUpto
<1>9. Tried(ops, longest2, v, es, calls2, state2, d - 1, e)
  <2> SUFFICES ASSUME NEW n \in Rest(es, calls2, d - 1), n < e,
                      KvStep(StAfter(calls2, state2, d - 1), ops[es[n].id]).ok
               PROVE  Explored(ops, longest2, v, LinAfter(es, calls2, d - 1) \cup {es[n].id},
                               KvStep(StAfter(calls2, state2, d - 1), ops[es[n].id]).state)
    BY DEF Tried
  <2>1. CASE n = c
    BY <1>1, <1>3, <1>4, <2>1 DEF d
  <2>2. CASE n < c
    <3>1. Tried(ops, longest2, v, es, calls, state, d - 1, c)
      BY <1>3, TriedKept
    <3> QED BY <1>4, <2>2, <3>1 DEF Tried
  <2> QED BY <1>7, <2>1, <2>2
<1>10. StackTried(ops, longest2, v, es, calls2, state2)
  BY <1>1, <1>5 DEF StackTried
<1>11. CacheInv(ops, longest2, v, es, calls2, state2, cache)
  BY <1>1, <1>6 DEF CacheInv
<1> QED BY <1>1, <1>8, <1>9, <1>10, <1>11 DEF calls2, state2, d

\* What is recorded when the search turns back: the stack, for the operations on it for
\* which nothing longer is known
Recorded(es, longest, lin, calls) ==
    [i \in DOMAIN longest |->
        IF i \in lin /\ Len(calls) > Len(longest[i]) THEN StackOrder(es, calls) ELSE longest[i]]

\* What is recorded are runs.
LEMMA RecordOK ==
    ASSUME NEW ops, NEW es, NEW next, NEW prev, NEW calls, NEW lin, NEW state,
           Stack(ops, es, next, prev, calls, lin, state),
           NEW longest, LongestInv(ops, longest)
    PROVE  LET longest2 == Recorded(es, longest, lin, calls) IN
           /\ LongestInv(ops, longest2) /\ Longer(ops, TRUE, longest, longest2)
           /\ \A x \in LinAfter(es, calls, Len(calls)) : Len(longest2[x]) >= Len(calls)
<1> DEFINE d == Len(calls)
           f == StackOrder(es, calls)
           longest2 == Recorded(es, longest, lin, calls)
           sts == StackStates(calls, state)
<1>1. /\ IsRun(ops, f, sts) /\ Len(f) = d /\ d \in Nat /\ lin = LinAfter(es, calls, d)
      /\ First(f, d) = lin
  <2>1. /\ IsRun(ops, f, sts) /\ Len(f) = d /\ d \in Nat /\ lin = LinAfter(es, calls, d)
        /\ \A i \in 0..d : First(f, i) = LinAfter(es, calls, i)
    BY StackRun
  <2>2. d \in 0..d
    BY <2>1
  <2> QED BY <2>1, <2>2
<1>2. Len(ops) \in Nat
  BY DEF Stack
<1>3. lin \in SUBSET (1..Len(ops))
  BY <1>1, StackCount
<1>4. /\ DOMAIN longest = 1..Len(ops)
      /\ \A x \in 1..Len(ops) : /\ \E s : IsRun(ops, longest[x], s)
                                /\ longest[x] # <<>> => x \in First(longest[x], Len(longest[x]))
  BY DEF LongestInv
<1>5. \A x \in 1..Len(ops) : Len(longest[x]) \in Nat
  <2> SUFFICES ASSUME NEW x \in 1..Len(ops) PROVE Len(longest[x]) \in Nat
    OBVIOUS
  <2>1. longest[x] \in Seq(1..Len(ops))
    BY <1>4 DEF IsRun
  <2> DEFINE q == longest[x]
             S == 1..Len(ops)
  <2>2. q \in Seq(S)
    BY <2>1
  <2> HIDE DEF q, S
  <2>3. Len(q) \in Nat
    BY <2>2
  <2> QED BY <2>3 DEF q
<1> HIDE DEF d, sts, f
<1>6. \A x \in 1..Len(ops) :
         longest2[x] = IF x \in lin /\ d > Len(longest[x]) THEN f ELSE longest[x]
  BY <1>4 DEF d, f, Recorded
<1>7. longest2 = [x \in 1..Len(ops) |-> longest2[x]]
  BY <1>4 DEF Recorded
<1> HIDE DEF longest2
<1>8. \A x \in 1..Len(ops) : /\ \E s : IsRun(ops, longest2[x], s)
                             /\ longest2[x] # <<>> => x \in First(longest2[x], Len(longest2[x]))
  BY <1>1, <1>4, <1>6
<1>9. Longer(ops, TRUE, longest, longest2)
  BY <1>1, <1>5, <1>6 DEF Longer
<1>10. \A x \in lin : Len(longest2[x]) >= d
  BY <1>1, <1>3, <1>5, <1>6
<1>11. LongestInv(ops, longest2)
  BY <1>7, <1>8 DEF LongestInv
<1> QED BY <1>1, <1>9, <1>10, <1>11 DEF d, longest2

-----------------------------------------------------------------------------
(* The steps of checkSingle keep the search right.                         *)

Sound(ops, v, s) ==
    /\ ops \in Seq(Operation) /\ v \in BOOLEAN /\ SortedEntries(ops, s.entries)
    /\ SearchInv(s) /\ WalkInv(ops, v, s)

\* The list and the stack of a search.
LEMMA SoundStack ==
    ASSUME NEW ops, NEW v, NEW s, Sound(ops, v, s)
    PROVE  /\ Stack(ops, s.entries, s.next, s.prev, s.calls, s.linearized, s.state)
           /\ GoodEntries(s.entries) /\ IsSeq(s.calls) /\ Len(s.calls) \in Nat /\ Len(ops) \in Nat
           /\ s.linearized = LinAfter(s.entries, s.calls, Len(s.calls))
           /\ Links(s.next, s.prev, Rest(s.entries, s.calls, Len(s.calls)), Len(s.entries))
<1>1. /\ ops \in Seq(Operation) /\ SortedEntries(ops, s.entries) /\ GoodEntries(s.entries)
      /\ ListInv(s.entries, s.next, s.prev, s.calls, s.linearized)
      /\ StackInv(ops, s.entries, s.calls, s.state)
  BY DEF Sound, SearchInv, WalkInv
<1>2. IsSeq(s.calls) /\ Links(s.next, s.prev, Rest(s.entries, s.calls, Len(s.calls)), Len(s.entries))
      /\ s.linearized = LinAfter(s.entries, s.calls, Len(s.calls))
  BY <1>1 DEF ListInv, LinAfter
<1>3. Len(s.calls) \in Nat
  BY <1>2 DEF IsSeq
<1>4. Len(ops) \in Nat
  BY <1>1
<1> QED BY <1>1, <1>2, <1>3, <1>4 DEF Stack

\* What the invariant says of the entry a running search is at.
LEMMA SoundHere ==
    ASSUME NEW ops, NEW v, NEW s, Sound(ops, v, s), s.pc = "loop", s.next[0] # End(s)
    PROVE  LET d == Len(s.calls) IN
           /\ s.entry \in Rest(s.entries, s.calls, d) /\ LongestInv(ops, s.longest)
           /\ StackInv(ops, s.entries, s.calls, s.state)
           /\ StackTried(ops, s.longest, v, s.entries, s.calls, s.state)
           /\ CacheInv(ops, s.longest, v, s.entries, s.calls, s.state, s.cache)
           /\ CallsUpto(s.entries, s.calls, d, s.entry)
           /\ Tried(ops, s.longest, v, s.entries, s.calls, s.state, d, s.entry)
BY DEF Sound, SearchInv, WalkInv

\* The operation is linearized.
LEMMA SoundPush ==
    ASSUME NEW ops, NEW v, NEW s, Sound(ops, v, s), s.pc = "loop", s.next[0] # End(s), IsCall(s, s.entry),
           NEW id, id = s.entries[s.entry].id, NEW st, KvStep(s.state, ops[id]).ok, st = KvStep(s.state, ops[id]).state,
           NEW ca, ca = s.cache \cup {[linearized |-> Set(s.linearized, id), state |-> st]},
           NEW t, SearchInv(t), Pushed(s, t, ca, st)
    PROVE  Sound(ops, v, t)
<1> DEFINE es == s.entries
           d == Len(s.calls)
           calls2 == WithCall(s.calls, s.entry, s.state)
<1>1. /\ GoodEntries(es) /\ IsSeq(s.calls) /\ s.linearized = LinAfter(es, s.calls, d)
  BY SoundStack
<1>2. /\ s.entry \in Rest(es, s.calls, d) /\ LongestInv(ops, s.longest)
      /\ StackInv(ops, es, s.calls, s.state)
      /\ StackTried(ops, s.longest, v, es, s.calls, s.state)
      /\ CacheInv(ops, s.longest, v, es, s.calls, s.state, s.cache)
      /\ CallsUpto(es, s.calls, d, s.entry)
      /\ Tried(ops, s.longest, v, es, s.calls, s.state, d, s.entry)
  BY SoundHere
<1>3. /\ t.pc = "loop" /\ t.entries = es /\ t.calls = calls2 /\ t.state = st /\ t.longest = s.longest
      /\ t.cache = s.cache \cup {[linearized |-> LinAfter(es, s.calls, d) \cup {es[s.entry].id}, state |-> st]}
      /\ t.entry = t.next[0]
  BY <1>1 DEF Pushed, Set, WithCall
<1>4. StackInv(ops, es, t.calls, t.state)
  <2>1. StackInv(ops, es, calls2, KvStep(s.state, ops[es[s.entry].id]).state)
    BY <1>1, <1>2, PushStack
  <2> QED BY <1>3, <2>1
<1>5. StackTried(ops, t.longest, v, es, t.calls, t.state) /\ CacheInv(ops, t.longest, v, es, t.calls, t.state, t.cache)
  <2>1. /\ StackTried(ops, s.longest, v, es, calls2, st)
        /\ CacheInv(ops, s.longest, v, es, calls2, st,
                    s.cache \cup {[linearized |-> LinAfter(es, s.calls, d) \cup {es[s.entry].id}, state |-> st]})
    BY <1>1, <1>2, PushTried
  <2> QED BY <1>3, <2>1
<1>6. CallsUpto(es, t.calls, Len(t.calls), t.entry)
      /\ Tried(ops, t.longest, v, es, t.calls, t.state, Len(t.calls), t.entry)
  <2>1. Links(t.next, t.prev, Rest(es, t.calls, Len(t.calls)), Len(es))
    BY <1>3 DEF SearchInv, ListInv
  <2>2. IsNext(Rest(es, t.calls, Len(t.calls)), Len(es), 0, t.entry)
    BY <1>3, <2>1 DEF Links
  <2> QED BY <1>1, <2>2, NothingBefore
<1>7. WalkInv(ops, v, t)
  BY <1>2, <1>3, <1>4, <1>5, <1>6 DEF WalkInv
<1> QED BY <1>3, <1>7 DEF Sound

\* The search goes on to the next entry.
LEMMA SoundSkip ==
    ASSUME NEW ops, NEW v, NEW s, Sound(ops, v, s), s.pc = "loop", s.next[0] # End(s), IsCall(s, s.entry),
           NEW id, id = s.entries[s.entry].id,
           KvStep(s.state, ops[id]).ok => CacheContains(s, Set(s.linearized, id), KvStep(s.state, ops[id]).state),
           NEW t, SearchInv(t), Skipped(s, t)
    PROVE  Sound(ops, v, t)
<1> DEFINE es == s.entries
           d == Len(s.calls)
<1>1. /\ GoodEntries(es) /\ IsSeq(s.calls) /\ s.linearized = LinAfter(es, s.calls, d)
      /\ Links(s.next, s.prev, Rest(es, s.calls, d), Len(es))
  BY SoundStack
<1>2. /\ s.entry \in Rest(es, s.calls, d) /\ LongestInv(ops, s.longest)
      /\ StackInv(ops, es, s.calls, s.state)
      /\ StackTried(ops, s.longest, v, es, s.calls, s.state)
      /\ CacheInv(ops, s.longest, v, es, s.calls, s.state, s.cache)
      /\ CallsUpto(es, s.calls, d, s.entry)
      /\ Tried(ops, s.longest, v, es, s.calls, s.state, d, s.entry)
  BY SoundHere
<1>3. /\ t.pc = "loop" /\ t.entries = es /\ t.calls = s.calls /\ t.state = s.state /\ t.longest = s.longest
      /\ t.cache = s.cache /\ t.entry = s.next[s.entry]
  BY DEF Skipped, NextEntry
<1>4. IsNext(Rest(es, s.calls, d), Len(es), s.entry, t.entry)
  BY <1>1, <1>2, <1>3 DEF Links
<1>5. es[s.entry].kind = "call"
  BY DEF IsCall
<1>6. KvStep(s.state, ops[id]).ok =>
          \E y \in s.cache : /\ LinAfter(es, s.calls, d) \cup {es[s.entry].id} = y.linearized
                             /\ y.state = KvStep(s.state, ops[id]).state
  BY <1>1 DEF CacheContains, Equals, Set
<1> HIDE DEF es, d
<1>7. CallsUpto(es, s.calls, d, t.entry) /\ Tried(ops, s.longest, v, es, s.calls, s.state, d, t.entry)
  BY <1>1, <1>2, <1>4, <1>5, <1>6, SkipTried DEF es, d
<1>8. WalkInv(ops, v, t)
  BY <1>2, <1>3, <1>7 DEF WalkInv, d
<1> QED BY <1>3, <1>8 DEF Sound, es

\* The last operation is undone.
LEMMA SoundUndo ==
    ASSUME NEW ops, NEW v, NEW s, Sound(ops, v, s), s.pc = "loop", s.next[0] # End(s), ~IsCall(s, s.entry),
           s.calls # <<>>, NEW lo, lo = IF v THEN Longest(s) ELSE s.longest,
           NEW t, SearchInv(t), Undone(s, t, lo, s.calls[Len(s.calls)].state)
    PROVE  Sound(ops, v, t)
<1> DEFINE es == s.entries
           d == Len(s.calls)
<1>1. /\ GoodEntries(es) /\ IsSeq(s.calls) /\ s.linearized = LinAfter(es, s.calls, d)
      /\ Stack(ops, es, s.next, s.prev, s.calls, s.linearized, s.state) /\ d \in Nat /\ Len(ops) \in Nat
  BY SoundStack
<1>2. /\ s.entry \in Rest(es, s.calls, d) /\ LongestInv(ops, s.longest)
      /\ StackInv(ops, es, s.calls, s.state)
      /\ StackTried(ops, s.longest, v, es, s.calls, s.state)
      /\ CacheInv(ops, s.longest, v, es, s.calls, s.state, s.cache)
      /\ CallsUpto(es, s.calls, d, s.entry)
      /\ Tried(ops, s.longest, v, es, s.calls, s.state, d, s.entry)
  BY SoundHere
<1>3. /\ t.pc = "loop" /\ t.entries = es /\ t.calls = Popped(s.calls) /\ t.state = s.calls[d].state
      /\ t.longest = lo /\ t.cache = s.cache /\ t.entry = t.next[Top(s.calls)]
  BY DEF Undone
<1>4. es[s.entry].kind = "return"
  <2> DEFINE E == [kind : {"call", "return"}, id : Nat]
  <2>1. es \in Seq(E) /\ s.entry \in DOMAIN es
    BY <1>1, <1>2 DEF GoodEntries, Rest
  <2> HIDE DEF E
  <2>2. es[s.entry] \in E
    BY <2>1
  <2> QED BY <2>2 DEF E, IsCall
<1>5. /\ LongestInv(ops, lo) /\ Longer(ops, v, s.longest, lo)
      /\ v => \A x \in LinAfter(es, s.calls, d) : Len(lo[x]) >= d
  <2>1. CASE v
    <3>1. Linearization(s) = StackOrder(es, s.calls)
      <4>1. DOMAIN s.calls = 1..Len(s.calls)
        BY <1>1 DEF IsSeq
      <4> QED BY <4>1 DEF Linearization, StackOrder
    <3>2. lo = Recorded(es, s.longest, s.linearized, s.calls)
      BY <2>1, <3>1 DEF Longest, Recorded
    <3> HIDE DEF es
    <3>3. /\ LongestInv(ops, lo) /\ Longer(ops, TRUE, s.longest, lo)
          /\ \A x \in LinAfter(es, s.calls, d) : Len(lo[x]) >= d
      BY <1>1, <1>2, <3>2, RecordOK
    <3> QED BY <3>3 DEF Longer
  <2>2. CASE ~v
    BY <1>2, <2>2 DEF Longer
  <2> QED BY <2>1, <2>2
<1>6. Explored(ops, lo, v, LinAfter(es, s.calls, d), s.state)
  <2>1. Tried(ops, lo, v, es, s.calls, s.state, d, s.entry)
    BY <1>1, <1>2, <1>5, TriedKept
  <2> HIDE DEF es
  <2> QED BY <1>1, <1>2, <1>4, <1>5, <2>1, ExploredHere
<1>7. StackInv(ops, es, t.calls, t.state)
  BY <1>1, <1>2, <1>3, PopStack
<1>8. IsNext(Rest(es, Popped(s.calls), Len(Popped(s.calls))), Len(es), Top(s.calls), t.entry)
  <2>1. Links(t.next, t.prev, Rest(es, t.calls, Len(t.calls)), Len(es))
    BY <1>3 DEF SearchInv, ListInv
  <2>2. Top(s.calls) \in Rest(es, Popped(s.calls), Len(Popped(s.calls)))
    BY UnliftOK DEF Sound, SearchInv
  <2> QED BY <1>3, <2>1, <2>2 DEF Links
<1>9. \A i \in 1..Len(s.calls) : /\ s.calls[i].entry \in Rest(es, s.calls, i - 1)
                                 /\ es[s.calls[i].entry].kind = "call"
  BY DEF Sound, SearchInv, ListInv
<1> HIDE DEF es
<1>10. /\ StackTried(ops, lo, v, es, t.calls, t.state) /\ CacheInv(ops, lo, v, es, t.calls, t.state, t.cache)
       /\ CallsUpto(es, t.calls, Len(t.calls), t.entry)
       /\ Tried(ops, lo, v, es, t.calls, t.state, Len(t.calls), t.entry)
  BY <1>1, <1>2, <1>3, <1>5, <1>6, <1>8, <1>9, PopTried
<1>11. WalkInv(ops, v, t)
  BY <1>3, <1>5, <1>7, <1>10 DEF WalkInv
<1> QED BY <1>3, <1>11 DEF Sound, es

\* There is a run of all operations
HasFull(ops) == \E order, sts : IsRun(ops, order, sts) /\ Len(order) = Len(ops)

\* No run with an operation is longer than what is recorded for it
Complete(ops, longest) ==
    \A order, sts : IsRun(ops, order, sts) => \A j \in 1..Len(order) : Len(longest[order[j]]) >= Len(order)

\* The empty sequence is a run.
LEMMA EmptyRun ==
    ASSUME NEW ops
    PROVE  IsRun(ops, <<>>, [i \in 0..0 |-> InitState])
<1>1. Len(<<>>) = 0 /\ 1..0 = {} /\ DOMAIN <<>> = {} /\ <<>> \in Seq(1..Len(ops))
  <2> DEFINE S == 1..Len(ops)
  <2> HIDE DEF S
  <2>1. <<>> \in Seq(S)
    OBVIOUS
  <2> QED BY <2>1 DEF S
<1>2. RealTime(ops, <<>>)
  BY <1>1 DEF RealTime
<1> QED BY <1>1, <1>2 DEF IsRun

\* A search begins.
LEMMA SoundNew ==
    ASSUME history \in Histories, NEW k \in Partitions, NEW v \in BOOLEAN
    PROVE  Sound(Part(k), v, NewSearch(k))
<1> DEFINE s == NewSearch(k)
           es == MakeEntries(k)
           ops == Part(k)
<1>1. ops \in Seq(Operation) /\ DOMAIN ops = 1..Len(ops)
  BY PartOK
<1>2. SortedEntries(ops, es) /\ GoodEntries(es)
  BY EntriesSorted DEF SortedEntries
<1>3. SearchInv(s)
  BY NewSearchOK
<1>4. /\ s.pc = "loop" /\ s.entries = es /\ s.entry = 1 /\ s.state = InitState /\ s.cache = {} /\ s.calls = <<>>
      /\ s.longest = [i \in 1..Len(ops) |-> <<>>]
  BY <1>1 DEF NewSearch, Ids
<1> HIDE DEF s, es, ops
<1>5. Len(<<>>) = 0 /\ 1..0 = {}
  OBVIOUS
<1>6. StackInv(ops, es, <<>>, InitState)
  BY <1>5 DEF StackInv, StAfter
<1>7. LongestInv(ops, s.longest)
  <2>1. \A x \in 1..Len(ops) : s.longest[x] = <<>>
    BY <1>4
  <2>2. s.longest = [x \in 1..Len(ops) |-> s.longest[x]]
    BY <1>4
  <2>3. \E sts : IsRun(ops, <<>>, sts)
    BY EmptyRun
  <2> HIDE DEF LongestInv
  <2>4. \A x \in 1..Len(ops) : /\ \E sts : IsRun(ops, s.longest[x], sts)
                               /\ s.longest[x] # <<>> => x \in First(s.longest[x], Len(s.longest[x]))
    BY <2>1, <2>3
  <2> QED BY <2>2, <2>4 DEF LongestInv
<1>8. /\ StackTried(ops, s.longest, v, es, <<>>, InitState)
      /\ CacheInv(ops, s.longest, v, es, <<>>, InitState, {})
  BY <1>5 DEF StackTried, CacheInv
<1>9. ASSUME NEW n \in Rest(es, <<>>, 0) PROVE ~(n < 1)
  BY <1>2 DEF Rest, GoodEntries
<1>10. CallsUpto(es, <<>>, 0, 1) /\ Tried(ops, s.longest, v, es, <<>>, InitState, 0, 1)
  BY <1>9 DEF CallsUpto, Tried
<1>11. WalkInv(ops, v, s)
  BY <1>4, <1>5, <1>6, <1>7, <1>8, <1>10 DEF WalkInv
<1> QED BY <1>1, <1>2, <1>3, <1>4, <1>11 DEF Sound, s, ops

\* A search that returns what it has recorded.
LEMMA SoundEnd ==
    ASSUME NEW ops, NEW v, NEW s, Sound(ops, v, s), NEW t, SearchInv(t), Ended(s, t, s.longest)
    PROVE  Sound(ops, v, t)
BY DEF Sound, WalkInv, Ended

\* A search that finds nothing has met every run: none is complete, and for each operation
\* the longest was recorded.
LEMMA SoundNone ==
    ASSUME NEW ops, NEW v, NEW s, Sound(ops, v, s), s.pc = "loop", s.next[0] # End(s), ~IsCall(s, s.entry),
           s.calls = <<>>
    PROVE  ~HasFull(ops) /\ (v => Complete(ops, s.longest))
<1> DEFINE es == s.entries
<1>1. /\ GoodEntries(es) /\ s.linearized = LinAfter(es, s.calls, 0) /\ Len(s.calls) = 0
      /\ Stack(ops, es, s.next, s.prev, s.calls, s.linearized, s.state) /\ Len(ops) \in Nat
  BY SoundStack
<1>2. /\ s.entry \in Rest(es, s.calls, 0) /\ StackInv(ops, es, s.calls, s.state)
      /\ Tried(ops, s.longest, v, es, s.calls, s.state, 0, s.entry)
  BY <1>1, SoundHere
<1>3. es[s.entry].kind = "return"
  <2> DEFINE E == [kind : {"call", "return"}, id : Nat]
  <2>1. es \in Seq(E) /\ s.entry \in DOMAIN es
    BY <1>1, <1>2 DEF GoodEntries, Rest
  <2> HIDE DEF E
  <2>2. es[s.entry] \in E
    BY <2>1
  <2> QED BY <2>2 DEF E, IsCall
<1>4. LinAfter(es, s.calls, 0) = {}
  BY DEF LinAfter
<1>5. s.state = InitState
  BY <1>1, <1>2 DEF StackInv, StAfter
<1> HIDE DEF es
<1>6. Explored(ops, s.longest, v, {}, InitState)
  BY <1>1, <1>2, <1>3, <1>4, <1>5, ExploredHere
<1>7. ASSUME NEW order, NEW sts, IsRun(ops, order, sts) PROVE Covered(ops, s.longest, v, order)
  <2>1. Len(order) \in Nat
    <3> DEFINE S == 1..Len(ops)
    <3>1. order \in Seq(S)
      BY <1>7 DEF IsRun
    <3> HIDE DEF S
    <3> QED BY <3>1
  <2>2. 0 \in 0..Len(order) /\ First(order, 0) = {} /\ sts[0] = InitState
    BY <1>7, <2>1 DEF First, IsRun
  <2> QED BY <1>6, <1>7, <2>2 DEF Explored
<1>8. ASSUME HasFull(ops) PROVE FALSE
  <2>1. PICK order, sts : IsRun(ops, order, sts) /\ Len(order) = Len(ops)
    BY <1>8 DEF HasFull
  <2> QED BY <1>1, <1>7, <2>1 DEF Covered
<1> QED BY <1>7, <1>8 DEF Complete, Covered

\* A search that has linearized all operations has found a complete run.
LEMMA SoundAll ==
    ASSUME NEW ops, NEW v, NEW s, Sound(ops, v, s), s.next[0] = End(s),
           NEW t, SearchInv(t), Ended(s, t, [i \in DOMAIN s.longest |-> Linearization(s)])
    PROVE  Sound(ops, v, t) /\ HasFull(ops) /\ Complete(ops, t.longest)
<1> DEFINE es == s.entries
           d == Len(s.calls)
           l == Len(ops)
           lin == s.linearized
           f == StackOrder(es, s.calls)
           sts == StackStates(s.calls, s.state)
<1>1. /\ GoodEntries(es) /\ IsSeq(s.calls) /\ lin = LinAfter(es, s.calls, d)
      /\ Stack(ops, es, s.next, s.prev, s.calls, lin, s.state) /\ d \in Nat /\ l \in Nat
      /\ Links(s.next, s.prev, Rest(es, s.calls, d), Len(es))
  BY SoundStack
<1>2. IsRun(ops, f, sts) /\ Len(f) = d /\ First(f, d) = lin
  <2>1. IsRun(ops, f, sts) /\ Len(f) = d /\ \A i \in 0..d : First(f, i) = LinAfter(es, s.calls, i)
    BY <1>1, StackRun
  <2>2. d \in 0..d
    BY <1>1
  <2> QED BY <1>1, <2>1, <2>2
<1>3. Cardinality(lin) = d /\ IsFiniteSet(lin)
  BY <1>1, StackCount
<1>4. \A n \in DOMAIN es : n \notin Rest(es, s.calls, d)
  <2> SUFFICES ASSUME NEW n \in DOMAIN es, n \in Rest(es, s.calls, d) PROVE FALSE
    OBVIOUS
  <2>1. n \in 1..Len(es) /\ Len(es) \in Nat
    BY <1>1 DEF GoodEntries
  <2>2. IsNext(Rest(es, s.calls, d), Len(es), 0, s.next[0])
    BY <1>1 DEF Links
  <2> QED BY <2>1, <2>2 DEF IsNext, End
<1>5. \A x \in 1..l : x \in lin
  <2> SUFFICES ASSUME NEW x \in 1..l PROVE x \in lin
    OBVIOUS
  <2>1. PICK n \in DOMAIN es : es[n] = [kind |-> "call", id |-> x]
    BY DEF Sound, SortedEntries
  <2>2. es[n].id = x
    BY <2>1
  <2> QED BY <1>1, <1>4, <2>2, RestLin
<1>6. lin \in SUBSET (1..l)
  BY <1>1, StackCount
<1>7. IsFiniteSet(1..l) /\ Cardinality(1..l) = l
  <2> HIDE DEF l
  <2> QED BY <1>1, Upto
<1>8. d = l
  <2>1. lin = 1..l
    BY <1>5, <1>6
  <2> HIDE DEF d, l, lin
  <2> QED BY <1>3, <1>7, <2>1
<1>9. HasFull(ops)
  BY <1>2, <1>8 DEF HasFull
<1>10. DOMAIN s.longest = 1..l
  BY DEF Sound, WalkInv, LongestInv
<1>11. t.longest = [i \in 1..l |-> f]
  <2>1. DOMAIN s.calls = 1..d
    BY <1>1 DEF IsSeq
  <2>2. Linearization(s) = f
    BY <2>1 DEF Linearization, StackOrder
  <2> QED BY <1>10, <2>2 DEF Ended
<1> HIDE DEF f, d, l, lin, sts
<1>12. LongestInv(ops, t.longest)
  <2>1. t.longest = [i \in 1..Len(ops) |-> f]
    BY <1>11 DEF l
  <2>2. \A x \in 1..Len(ops) : t.longest[x] = f
    BY <2>1
  <2>3. t.longest = [x \in 1..Len(ops) |-> t.longest[x]]
    BY <2>1
  <2>4. \A x \in 1..Len(ops) : x \in First(f, Len(f))
    BY <1>2, <1>5 DEF l
  <2> QED BY <1>2, <2>2, <2>3, <2>4 DEF LongestInv
<1>13. Complete(ops, t.longest)
  <2> SUFFICES ASSUME NEW order, NEW st, IsRun(ops, order, st), NEW j \in 1..Len(order)
               PROVE  Len(t.longest[order[j]]) >= Len(order)
    BY DEF Complete
  <2>1. Len(ops) \in Nat
    BY <1>1 DEF l
  <2>2. Len(order) \in Nat
    <3> DEFINE S == 1..Len(ops)
    <3>1. order \in Seq(S)
      BY DEF IsRun
    <3> HIDE DEF S
    <3> QED BY <3>1
  <2>3. Len(order) \in 0..Len(order)
    BY <2>2
  <2> DEFINE F == First(order, Len(order))
  <2>4. /\ IsFiniteSet(F) /\ Cardinality(F) = Len(order) /\ F \in SUBSET (1..l) /\ order[j] \in 1..l
    BY <2>1, <2>3, RunCount DEF l
  <2> DEFINE W == 1..l
  <2> HIDE DEF F, W
  <2>5. IsFiniteSet(W) /\ Cardinality(W) = l /\ F \in SUBSET W
    BY <1>7, <2>4 DEF W
  <2>6. Cardinality(F) <= Cardinality(W)
    BY <2>5, FS_Subset
  <2>7. Len(order) <= l
    BY <2>4, <2>5, <2>6
  <2>8. t.longest[order[j]] = f
    BY <1>11, <2>4
  <2> QED BY <1>1, <1>2, <1>8, <2>2, <2>7, <2>8
<1>14. Sound(ops, v, t)
  BY <1>12 DEF Sound, WalkInv, Ended
<1> QED BY <1>9, <1>13, <1>14

-----------------------------------------------------------------------------
(* The maps an order goes through.                                         *)

NextMap(o, old) ==
    CASE o.Op = "get" -> old
      [] o.Op = "put" -> [old EXCEPT ![o.Key] = o.Value]
      [] OTHER -> [old EXCEPT ![o.Key] = @ \o o.Value]

FirstMap == [k \in Key |-> <<>>]

\* f goes through the maps of the first n operations
Through(ops, order, n, f) ==
    f = [i \in 0..n |-> IF i = 0 THEN FirstMap ELSE NextMap(ops[order[i]], f[i - 1])]

\* There are such maps.
LEMMA ThroughExists ==
    ASSUME NEW ops, NEW order, NEW N \in Nat
    PROVE  \E f : Through(ops, order, N, f)
<1> DEFINE S == {n \in Nat : \E f : Through(ops, order, n, f)}
<1>1. 0 \in S
  <2> DEFINE f == [i \in 0..0 |-> FirstMap]
  <2>1. Through(ops, order, 0, f)
    BY DEF Through
  <2> QED BY <2>1
<1>2. ASSUME NEW n \in 0..(N - 1), n \in S PROVE n + 1 \in S
  <2>1. PICK f : Through(ops, order, n, f)
    BY <1>2
  <2> DEFINE x == NextMap(ops[order[n + 1]], f[n])
             g == [i \in 0..(n + 1) |-> IF i = n + 1 THEN x ELSE f[i]]
             h == [i \in 0..(n + 1) |-> IF i = 0 THEN FirstMap ELSE NextMap(ops[order[i]], g[i - 1])]
  <2>2. \A i \in 0..n : f[i] = IF i = 0 THEN FirstMap ELSE NextMap(ops[order[i]], f[i - 1])
    BY <2>1 DEF Through
  <2>3. g[n + 1] = x /\ \A i \in 0..n : g[i] = f[i]
    OBVIOUS
  <2> HIDE DEF g, x
  <2>4. ASSUME NEW i \in 0..(n + 1) PROVE g[i] = h[i]
    <3>1. CASE i = n + 1
      <4>1. i # 0 /\ i - 1 = n /\ n \in 0..n
        BY <3>1
      <4> QED BY <2>3, <3>1, <4>1 DEF x
    <3>2. CASE i \in 0..n /\ i # 0
      <4>1. i - 1 \in 0..n
        BY <3>2
      <4> QED BY <2>2, <2>3, <3>2, <4>1
    <3>3. CASE i = 0
      <4>1. 0 \in 0..n
        OBVIOUS
      <4> QED BY <2>2, <2>3, <3>3, <4>1
    <3> QED BY <3>1, <3>2, <3>3
  <2>5. g = h
    <3>1. g = [i \in 0..(n + 1) |-> g[i]]
      BY DEF g
    <3> HIDE DEF h
    <3>2. h = [i \in 0..(n + 1) |-> h[i]]
      BY DEF h
    <3> QED BY <2>4, <3>1, <3>2
  <2>6. Through(ops, order, n + 1, g)
    BY <2>5 DEF Through
  <2> QED BY <2>6
<1> HIDE DEF S
<1>3. \A n \in 0..N : n \in S
  BY <1>1, <1>2, Induct
<1>4. N \in S
  BY <1>3
<1> QED BY <1>4 DEF S

\* The maps of an order.
LEMMA MapsThrough ==
    ASSUME NEW ops, NEW order, Len(order) \in Nat
    PROVE  Through(ops, order, Len(order), Maps(ops, order))
<1>1. Maps(ops, order) = CHOOSE f : Through(ops, order, Len(order), f)
  BY DEF Maps, Through, NextMap, FirstMap
<1>2. \E f : Through(ops, order, Len(order), f)
  BY ThroughExists
<1> QED BY <1>1, <1>2

\* What an operation does to the value of each key.
LEMMA MapsStep ==
    ASSUME NEW ops, NEW order, Len(order) \in Nat, \A n \in 1..Len(order) : ops[order[n]] \in Operation
    PROVE  LET M == Maps(ops, order) IN
           /\ \A k \in Key : M[0][k] = InitState
           /\ \A n \in 1..Len(order) : \A k \in Key :
                  M[n][k] = IF ops[order[n]].Key = k THEN KvStep(M[n - 1][k], ops[order[n]]).state ELSE M[n - 1][k]
<1> DEFINE M == Maps(ops, order)
           L == Len(order)
<1>1. M = [i \in 0..L |-> IF i = 0 THEN FirstMap ELSE NextMap(ops[order[i]], M[i - 1])]
  BY MapsThrough DEF Through
<1> HIDE DEF M
<1>2. M[0] = FirstMap /\ \A n \in 1..L : M[n] = NextMap(ops[order[n]], M[n - 1])
  <2>1. 0 \in 0..L /\ \A n \in 1..L : n \in 0..L /\ n # 0
    OBVIOUS
  <2> QED BY <1>1, <2>1
<1> DEFINE S == {n \in Nat : M[n] = [k \in Key |-> M[n][k]]}
<1>3. 0 \in S
  BY <1>2 DEF FirstMap
<1>4. ASSUME NEW n \in 0..(L - 1), n \in S PROVE n + 1 \in S
  <2> DEFINE o == ops[order[n + 1]]
             old == M[n]
  <2>1. n + 1 \in 1..L /\ (n + 1) - 1 = n
    OBVIOUS
  <2>2. M[n + 1] = NextMap(o, old)
    BY <1>2, <2>1
  <2>3. old = [k \in Key |-> old[k]]
    BY <1>4
  <2> HIDE DEF o, old
  <2>4. NextMap(o, old) = [k \in Key |-> NextMap(o, old)[k]]
    BY <2>3 DEF NextMap
  <2> QED BY <2>2, <2>4
<1>5. \A n \in 0..L : M[n] = [k \in Key |-> M[n][k]]
  <2> HIDE DEF S
  <2>1. \A n \in 0..L : n \in S
    BY <1>3, <1>4, Induct
  <2> QED BY <2>1 DEF S
<1>6. ASSUME NEW n \in 1..L, NEW k \in Key
      PROVE  M[n][k] = IF ops[order[n]].Key = k THEN KvStep(M[n - 1][k], ops[order[n]]).state ELSE M[n - 1][k]
  <2> DEFINE o == ops[order[n]]
             old == M[n - 1]
  <2>1. n - 1 \in 0..L
    OBVIOUS
  <2>2. old = [x \in Key |-> old[x]]
    BY <1>5, <2>1
  <2>3. M[n] = NextMap(o, old) /\ o \in Operation
    BY <1>2
  <2> HIDE DEF o, old
  <2>4. o.Key \in Key
    BY <2>3 DEF Operation
  <2>5. NextMap(o, old)[k] = IF o.Key = k THEN KvStep(old[k], o).state ELSE old[k]
    BY <2>2, <2>4 DEF NextMap, KvStep
  <2> QED BY <2>3, <2>5 DEF o, old
<1>7. \A k \in Key : M[0][k] = InitState
  BY <1>2 DEF FirstMap, InitState
<1> QED BY <1>6, <1>7 DEF M

\* A read is right exactly if the model takes the step.
LEMMA StepOK ==
    ASSUME NEW o, NEW state
    PROVE  KvStep(state, o).ok <=> (o.Op \in {"get", "appendReturning"} => o.Output = state)
BY DEF KvStep

\* The values of the key of a partition are the states of the run.
LEMMA RunMaps ==
    ASSUME NEW ops, NEW order, Len(order) \in Nat, NEW k \in Key, NEW sts,
           \A n \in 1..Len(order) : ops[order[n]] \in Operation /\ ops[order[n]].Key = k,
           sts[0] = InitState,
           \A n \in 1..Len(order) : sts[n] = KvStep(sts[n - 1], ops[order[n]]).state
    PROVE  \A n \in 0..Len(order) : Maps(ops, order)[n][k] = sts[n]
<1> DEFINE M == Maps(ops, order)
           L == Len(order)
           S == {n \in Nat : M[n][k] = sts[n]}
<1>1. /\ M[0][k] = InitState
      /\ \A n \in 1..L : M[n][k] = KvStep(M[n - 1][k], ops[order[n]]).state
  BY MapsStep
<1> HIDE DEF M
<1>2. 0 \in S
  BY <1>1
<1>3. ASSUME NEW n \in 0..(L - 1), n \in S PROVE n + 1 \in S
  <2>1. n + 1 \in 1..L /\ (n + 1) - 1 = n
    OBVIOUS
  <2>2. M[n + 1][k] = KvStep(M[n][k], ops[order[n + 1]]).state
    BY <1>1, <2>1
  <2>3. sts[n + 1] = KvStep(sts[n], ops[order[n + 1]]).state
    BY <2>1
  <2>4. M[n][k] = sts[n]
    BY <1>3
  <2> QED BY <2>2, <2>3, <2>4
<1> HIDE DEF S
<1>4. \A n \in 0..L : n \in S
  BY <1>2, <1>3, Induct
<1> QED BY <1>4 DEF S, M

\* A key that occurs is a key.
LEMMA PartitionKey ==
    ASSUME history \in Histories, NEW k \in Partitions
    PROVE  k \in Key
<1>1. history \in Seq(Operation)
  BY HistoriesAssumption
<1>2. PICK i \in DOMAIN history : history[i].Key = k
  BY DEF Partitions
<1>3. history[i] \in Operation
  BY <1>1
<1> QED BY <1>2, <1>3 DEF Operation

\* What the search calls a run is a legal sequence, and can be replayed.
LEMMA RunLegal ==
    ASSUME history \in Histories, NEW k \in Partitions, NEW order, NEW sts, IsRun(Part(k), order, sts)
    PROVE  Legal(Part(k), order) /\ Replay(k, order)
<1> DEFINE ops == Part(k)
           L == Len(order)
           M == Maps(ops, order)
<1>1. L \in Nat /\ DOMAIN order = 1..L /\ \A n \in 1..L : order[n] \in 1..Len(ops)
  <2> DEFINE S == 1..Len(ops)
  <2>1. order \in Seq(S)
    BY DEF IsRun
  <2> HIDE DEF S
  <2>2. L \in Nat /\ DOMAIN order = 1..L /\ \A n \in 1..L : order[n] \in S
    BY <2>1
  <2> QED BY <2>2 DEF S
<1>2. \A n \in 1..L : ops[order[n]] \in Operation /\ ops[order[n]].Key = k
  BY <1>1, PartOK
<1>3. k \in Key
  BY PartitionKey
<1>4. /\ RealTime(ops, order) /\ sts[0] = InitState
      /\ \A n \in 1..L : /\ KvStep(sts[n - 1], ops[order[n]]).ok
                         /\ sts[n] = KvStep(sts[n - 1], ops[order[n]]).state
  BY DEF IsRun
<1> HIDE DEF ops
<1>5. \A n \in 0..L : M[n][k] = sts[n]
  <2>1. \A n \in 1..L : sts[n] = KvStep(sts[n - 1], ops[order[n]]).state
    BY <1>4
  <2> QED BY <1>1, <1>2, <1>3, <1>4, <2>1, RunMaps
<1>6. ASSUME NEW n \in 1..L, ops[order[n]].Op \in {"get", "appendReturning"}
      PROVE  ops[order[n]].Output = M[n - 1][ops[order[n]].Key]
  <2>1. n - 1 \in 0..L
    BY <1>1
  <2>2. M[n - 1][k] = sts[n - 1]
    BY <1>5, <2>1
  <2>3. ops[order[n]].Output = sts[n - 1]
    BY <1>4, <1>6, StepOK
  <2> QED BY <1>2, <2>2, <2>3
<1>7. Legal(ops, order)
  BY <1>1, <1>4, <1>6 DEF Legal
<1>8. Replay(k, order)
  <2> DEFINE Eq(f) == f = [n \in 0..L |->
                             IF n = 0 THEN [ok |-> TRUE, state |-> InitState]
                             ELSE [ok |-> f[n - 1].ok /\ KvStep(f[n - 1].state, ops[order[n]]).ok,
                                   state |-> KvStep(f[n - 1].state, ops[order[n]]).state]]
             after == CHOOSE f : Eq(f)
             g == [n \in 0..L |-> [ok |-> TRUE, state |-> sts[n]]]
  <2>1. Replay(k, order) = after[L].ok
    BY DEF Replay, ops
  <2>2. Eq(g)
    <3> DEFINE h == [n \in 0..L |->
                       IF n = 0 THEN [ok |-> TRUE, state |-> InitState]
                       ELSE [ok |-> g[n - 1].ok /\ KvStep(g[n - 1].state, ops[order[n]]).ok,
                             state |-> KvStep(g[n - 1].state, ops[order[n]]).state]]
    <3>1. ASSUME NEW n \in 0..L PROVE g[n] = h[n]
      <4>1. CASE n = 0
        BY <1>4, <4>1
      <4>2. CASE n # 0
        <5>1. n \in 1..L /\ n - 1 \in 0..L
          BY <1>1, <4>2
        <5>2. g[n - 1].ok = TRUE /\ g[n - 1].state = sts[n - 1] /\ g[n] = [ok |-> TRUE, state |-> sts[n]]
          BY <5>1
        <5> HIDE DEF g
        <5>3. h[n] = [ok |-> TRUE /\ KvStep(sts[n - 1], ops[order[n]]).ok,
                      state |-> KvStep(sts[n - 1], ops[order[n]]).state]
          BY <4>2, <5>2
        <5>4. KvStep(sts[n - 1], ops[order[n]]).ok = TRUE
          BY <1>4, <5>1 DEF KvStep
        <5> QED BY <1>4, <5>1, <5>2, <5>3, <5>4
      <4> QED BY <4>1, <4>2
    <3> HIDE DEF h
    <3>2. h = [n \in 0..L |-> h[n]]
      BY DEF h
    <3>3. g = h
      BY <3>1, <3>2
    <3> QED BY <3>3 DEF h
  <2>3. Eq(after)
    <3> HIDE DEF Eq, g
    <3> QED BY <2>2
  <2> HIDE DEF after
  <2> DEFINE S == {n \in Nat : after[n].ok = TRUE /\ after[n].state = sts[n]}
  <2>4. after[0] = [ok |-> TRUE, state |-> InitState]
        /\ \A n \in 1..L : after[n] = [ok |-> after[n - 1].ok /\ KvStep(after[n - 1].state, ops[order[n]]).ok,
                                       state |-> KvStep(after[n - 1].state, ops[order[n]]).state]
    <3>1. 0 \in 0..L /\ \A n \in 1..L : n \in 0..L /\ n # 0
      BY <1>1
    <3> QED BY <2>3, <3>1
  <2>5. 0 \in S
    BY <1>4, <2>4
  <2>6. ASSUME NEW n \in 0..(L - 1), n \in S PROVE n + 1 \in S
    <3>1. n + 1 \in 1..L /\ (n + 1) - 1 = n
      BY <1>1
    <3>2. after[n + 1] = [ok |-> after[n].ok /\ KvStep(after[n].state, ops[order[n + 1]]).ok,
                          state |-> KvStep(after[n].state, ops[order[n + 1]]).state]
      BY <2>4, <3>1
    <3>3. after[n].ok = TRUE /\ after[n].state = sts[n]
      BY <2>6
    <3>4. KvStep(sts[n], ops[order[n + 1]]).ok /\ sts[n + 1] = KvStep(sts[n], ops[order[n + 1]]).state
      BY <1>4, <3>1
    <3>5. after[n + 1].ok = TRUE /\ after[n + 1].state = sts[n + 1]
      <4>1. KvStep(sts[n], ops[order[n + 1]]).ok = TRUE
        BY <3>4 DEF KvStep
      <4>2. after[n + 1] = [ok |-> TRUE, state |-> sts[n + 1]]
        BY <3>2, <3>3, <3>4, <4>1
      <4> QED BY <4>2
    <3> QED BY <3>5
  <2> HIDE DEF S
  <2>7. \A n \in 0..L : n \in S
    BY <1>1, <2>5, <2>6, Induct
  <2>8. L \in S
    BY <1>1, <2>7
  <2> QED BY <2>1, <2>8 DEF S
<1> QED BY <1>7, <1>8 DEF ops

\* An arrangement is a sequence of different members of the set.
LEMMA ArrangementSeq ==
    ASSUME NEW S, IsFiniteSet(S), NEW order \in Arrangements(S)
    PROVE  /\ order \in Seq(S) /\ Len(order) \in Nat /\ DOMAIN order = 1..Len(order)
           /\ \A i \in 1..Len(order) : order[i] \in S
           /\ \A i, j \in 1..Len(order) : order[i] = order[j] => i = j
<1>1. Cardinality(S) \in Nat
  BY FS_CardinalityType
<1>2. PICK n \in 0..Cardinality(S) : order \in [1..n -> S] /\ \A i, j \in 1..n : order[i] = order[j] => i = j
  BY DEF Arrangements
<1>3. n \in Nat
  BY <1>1
<1>4. order \in Seq(S) /\ Len(order) = n /\ DOMAIN order = 1..n
  BY <1>2, <1>3
<1> QED BY <1>2, <1>3, <1>4

\* A sequence of different members of a finite set is an arrangement.
LEMMA SeqArrangement ==
    ASSUME NEW S, IsFiniteSet(S), NEW n \in Nat, NEW order \in [1..n -> S],
           \A i, j \in 1..n : order[i] = order[j] => i = j
    PROVE  order \in Arrangements(S) /\ Len(order) = n /\ DOMAIN order = 1..n
<1> DEFINE F == {order[i] : i \in 1..n}
<1>1. order \in [1..n -> F] /\ \A x \in F : \E i \in 1..n : order[i] = x
  OBVIOUS
<1>2. F \in SUBSET S
  OBVIOUS
<1> HIDE DEF F
<1>3. order \in Bijection(1..n, F)
  BY <1>1, Fun_IsBij
<1>4. ExistsBijection(1..n, F)
  BY <1>3 DEF ExistsBijection
<1>5. IsFiniteSet(1..n) /\ Cardinality(1..n) = n
  BY Upto
<1>6. Cardinality(F) = n
  BY <1>4, <1>5, FS_Bijection
<1>7. Cardinality(F) <= Cardinality(S) /\ Cardinality(S) \in Nat
  BY <1>2, FS_Subset, FS_CardinalityType
<1>8. n \in 0..Cardinality(S)
  BY <1>6, <1>7
<1>9. order \in Seq(S) /\ Len(order) = n /\ DOMAIN order = 1..n
  OBVIOUS
<1> QED BY <1>8, <1>9 DEF Arrangements

\* A legal sequence is what the search calls a run.
LEMMA LegalRun ==
    ASSUME history \in Histories, NEW k \in Partitions, NEW order \in Arrangements(Ids(k)), Legal(Part(k), order)
    PROVE  \E sts : IsRun(Part(k), order, sts)
<1> DEFINE ops == Part(k)
           L == Len(order)
           M == Maps(ops, order)
           sts == [n \in 0..L |-> M[n][k]]
<1>1. Len(ops) \in Nat /\ Ids(k) = 1..Len(ops)
  BY PartIndex DEF Ids
<1>2. IsFiniteSet(1..Len(ops))
  <2> HIDE DEF ops
  <2> QED BY <1>1, Upto
<1>3. /\ order \in Seq(1..Len(ops)) /\ L \in Nat /\ DOMAIN order = 1..L
      /\ \A i \in 1..L : order[i] \in 1..Len(ops)
      /\ \A i, j \in 1..L : order[i] = order[j] => i = j
  <2> DEFINE S == 1..Len(ops)
  <2>1. IsFiniteSet(S) /\ order \in Arrangements(S)
    BY <1>1, <1>2
  <2> HIDE DEF S
  <2>2. /\ order \in Seq(S) /\ L \in Nat /\ DOMAIN order = 1..L
        /\ \A i \in 1..L : order[i] \in S
        /\ \A i, j \in 1..L : order[i] = order[j] => i = j
    BY <2>1, ArrangementSeq
  <2> QED BY <2>2 DEF S
<1>4. \A n \in 1..L : ops[order[n]] \in Operation /\ ops[order[n]].Key = k
  BY <1>3, PartOK
<1>5. k \in Key
  BY PartitionKey
<1>6. /\ RealTime(ops, order)
      /\ \A n \in 1..L : ops[order[n]].Op \in {"get", "appendReturning"} =>
             ops[order[n]].Output = M[n - 1][ops[order[n]].Key]
  BY <1>3 DEF Legal
<1> HIDE DEF ops
<1>7. /\ M[0][k] = InitState
      /\ \A n \in 1..L : M[n][k] = KvStep(M[n - 1][k], ops[order[n]]).state
  BY <1>3, <1>4, <1>5, MapsStep
<1> HIDE DEF M
<1>8. \A n \in 0..L : sts[n] = M[n][k]
  OBVIOUS
<1> HIDE DEF sts
<1>9. ASSUME NEW n \in 1..L
      PROVE  KvStep(sts[n - 1], ops[order[n]]).ok /\ sts[n] = KvStep(sts[n - 1], ops[order[n]]).state
  <2>1. n \in 0..L /\ n - 1 \in 0..L
    BY <1>3
  <2>2. sts[n] = M[n][k] /\ sts[n - 1] = M[n - 1][k]
    BY <1>8, <2>1
  <2>3. KvStep(sts[n - 1], ops[order[n]]).ok
    BY <1>4, <1>6, <2>2, StepOK
  <2> QED BY <1>7, <2>2, <2>3
<1>10. sts[0] = InitState
  <2>1. 0 \in 0..L
    BY <1>3
  <2>2. sts[0] = M[0][k]
    BY <1>8, <2>1
  <2> QED BY <1>7, <2>2
<1>11. IsRun(ops, order, sts)
  BY <1>3, <1>6, <1>9, <1>10 DEF IsRun
<1> QED BY <1>11 DEF ops

-----------------------------------------------------------------------------
(* Keys can be checked one by one.                                         *)

\* A legal order of operations of the history, with the values of the keys it goes through
RunAll(order, vals) ==
    /\ order \in Seq(DOMAIN history)
    /\ \A i, j \in 1..Len(order) : order[i] = order[j] => i = j
    /\ RealTime(history, order)
    /\ \A k \in Partitions : vals[0][k] = InitState
    /\ \A n \in 1..Len(order) :
           LET o == history[order[n]] IN
           /\ KvStep(vals[n - 1][o.Key], o).ok
           /\ \A k \in Partitions :
                  vals[n][k] = IF o.Key = k THEN KvStep(vals[n - 1][k], o).state ELSE vals[n - 1][k]

\* The operations of a history.
LEMMA HistoryOK ==
    ASSUME history \in Histories
    PROVE  /\ Len(history) \in Nat /\ DOMAIN history = 1..Len(history) /\ IsFiniteSet(DOMAIN history)
           /\ Cardinality(DOMAIN history) = Len(history)
           /\ \A x \in DOMAIN history : /\ history[x] \in Operation /\ history[x].Key \in Partitions
                                        /\ history[x].Return \in Int /\ history[x].Call \in Int
<1>1. history \in Seq(Operation)
  BY HistoriesAssumption
<1>2. Len(history) \in Nat /\ DOMAIN history = 1..Len(history) /\ \A x \in DOMAIN history : history[x] \in Operation
  BY <1>1
<1>3. \A x \in DOMAIN history : history[x].Key \in Partitions
  BY DEF Partitions
<1>4. \A x \in DOMAIN history : history[x].Return \in Int /\ history[x].Call \in Int
  BY <1>2 DEF Operation
<1>5. IsFiniteSet(1..Len(history)) /\ Cardinality(1..Len(history)) = Len(history)
  BY <1>2, Upto
<1> QED BY <1>2, <1>3, <1>4, <1>5

\* The order that makes a history linearizable.
LEMMA LinearizableRun ==
    ASSUME history \in Histories
    PROVE  Linearizable <=> \E order, vals : RunAll(order, vals) /\ Len(order) = Len(history)
<1>1. /\ Len(history) \in Nat /\ DOMAIN history = 1..Len(history) /\ IsFiniteSet(DOMAIN history)
      /\ \A x \in DOMAIN history : history[x] \in Operation /\ history[x].Key \in Partitions
  BY HistoryOK
<1>2. \A k \in Partitions : k \in Key
  BY PartitionKey
<1>3. ASSUME NEW order \in Arrangements(DOMAIN history), Legal(history, order)
      PROVE  RunAll(order, Maps(history, order))
  <2> DEFINE M == Maps(history, order)
             L == Len(order)
             S == DOMAIN history
  <2>1. /\ order \in Seq(S) /\ L \in Nat /\ DOMAIN order = 1..L
        /\ \A i \in 1..L : order[i] \in S
        /\ \A i, j \in 1..L : order[i] = order[j] => i = j
    <3> HIDE DEF S
    <3>1. IsFiniteSet(S) /\ order \in Arrangements(S)
      BY <1>1 DEF S
    <3> QED BY <3>1, ArrangementSeq
  <2>2. \A n \in 1..L : history[order[n]] \in Operation /\ history[order[n]].Key \in Partitions
    BY <1>1, <2>1
  <2>3. /\ \A k \in Key : M[0][k] = InitState
        /\ \A n \in 1..L : \A k \in Key :
             M[n][k] = IF history[order[n]].Key = k THEN KvStep(M[n - 1][k], history[order[n]]).state ELSE M[n - 1][k]
    BY <2>1, <2>2, MapsStep
  <2>4. /\ RealTime(history, order)
        /\ \A n \in 1..L : history[order[n]].Op \in {"get", "appendReturning"} =>
               history[order[n]].Output = M[n - 1][history[order[n]].Key]
    BY <1>3, <2>1 DEF Legal
  <2> HIDE DEF M, L
  <2>5. \A n \in 1..L : KvStep(M[n - 1][history[order[n]].Key], history[order[n]]).ok
    BY <2>4, StepOK
  <2>6. \A k \in Partitions : M[0][k] = InitState
    BY <1>2, <2>3
  <2>7. \A n \in 1..L : \A k \in Partitions :
             M[n][k] = IF history[order[n]].Key = k THEN KvStep(M[n - 1][k], history[order[n]]).state ELSE M[n - 1][k]
    BY <1>2, <2>3
  <2> QED BY <2>1, <2>4, <2>5, <2>6, <2>7 DEF RunAll, M, L
<1>4. ASSUME NEW order, NEW vals, RunAll(order, vals), Len(order) = Len(history)
      PROVE  order \in Arrangements(DOMAIN history) /\ Legal(history, order)
  <2> DEFINE M == Maps(history, order)
             L == Len(order)
             Good(n) == \A k \in Partitions : M[n][k] = vals[n][k]
             S == {n \in Nat : Good(n)}
  <2>1. L \in Nat /\ DOMAIN order = 1..L /\ order \in [1..L -> DOMAIN history] /\ \A i \in 1..L : order[i] \in DOMAIN history
    <3> DEFINE D == DOMAIN history
    <3>1. order \in Seq(D)
      BY <1>4 DEF RunAll
    <3> HIDE DEF D
    <3>2. L \in Nat /\ DOMAIN order = 1..L /\ order \in [1..L -> D] /\ \A i \in 1..L : order[i] \in D
      BY <3>1
    <3> QED BY <3>2 DEF D
  <2>2. /\ \A i, j \in 1..L : order[i] = order[j] => i = j
        /\ RealTime(history, order)
        /\ \A k \in Partitions : vals[0][k] = InitState
        /\ \A n \in 1..L : KvStep(vals[n - 1][history[order[n]].Key], history[order[n]]).ok
        /\ \A n \in 1..L : \A k \in Partitions :
               vals[n][k] = IF history[order[n]].Key = k
                            THEN KvStep(vals[n - 1][k], history[order[n]]).state ELSE vals[n - 1][k]
    BY <1>4 DEF RunAll
  <2>3. order \in Arrangements(DOMAIN history)
    BY <1>1, <2>1, <2>2, SeqArrangement
  <2>4. \A n \in 1..L : history[order[n]] \in Operation /\ history[order[n]].Key \in Partitions
    BY <1>1, <2>1
  <2>5. /\ \A k \in Key : M[0][k] = InitState
        /\ \A n \in 1..L : \A k \in Key :
             M[n][k] = IF history[order[n]].Key = k THEN KvStep(M[n - 1][k], history[order[n]]).state ELSE M[n - 1][k]
    BY <2>1, <2>4, MapsStep
  <2> HIDE DEF M, L
  <2>6. 0 \in S
    BY <1>2, <2>2, <2>5
  <2>7. ASSUME NEW n \in 0..(L - 1), n \in S PROVE n + 1 \in S
    <3>1. n + 1 \in 1..L /\ (n + 1) - 1 = n
      BY <2>1
    <3>2. \A k \in Partitions : M[n][k] = vals[n][k]
      BY <2>7
    <3>3. ASSUME NEW k \in Partitions PROVE M[n + 1][k] = vals[n + 1][k]
      <4>1. M[n + 1][k] = IF history[order[n + 1]].Key = k THEN KvStep(M[n][k], history[order[n + 1]]).state ELSE M[n][k]
        BY <1>2, <2>5, <3>1
      <4>2. vals[n + 1][k] = IF history[order[n + 1]].Key = k
                             THEN KvStep(vals[n][k], history[order[n + 1]]).state ELSE vals[n][k]
        BY <2>2, <3>1
      <4> QED BY <3>2, <4>1, <4>2
    <3> QED BY <3>3
  <2>8. \A n \in 0..L : Good(n)
    <3> HIDE DEF S
    <3>1. \A n \in 0..L : n \in S
      BY <2>1, <2>6, <2>7, Induct
    <3> QED BY <3>1 DEF S
  <2>9. ASSUME NEW n \in 1..L, history[order[n]].Op \in {"get", "appendReturning"}
        PROVE  history[order[n]].Output = M[n - 1][history[order[n]].Key]
    <3>1. n - 1 \in 0..L
      BY <2>1
    <3>2. M[n - 1][history[order[n]].Key] = vals[n - 1][history[order[n]].Key]
      BY <2>4, <2>8, <3>1
    <3>3. KvStep(vals[n - 1][history[order[n]].Key], history[order[n]]).ok
      BY <2>2
    <3> QED BY <2>9, <3>2, <3>3, StepOK
  <2>10. Legal(history, order)
    BY <2>1, <2>2, <2>9 DEF Legal, M
  <2> QED BY <2>3, <2>10
<1>5. ASSUME Linearizable PROVE \E order, vals : RunAll(order, vals) /\ Len(order) = Len(history)
  BY <1>3, <1>5 DEF Linearizable
<1>6. ASSUME \E order, vals : RunAll(order, vals) /\ Len(order) = Len(history) PROVE Linearizable
  BY <1>4, <1>6 DEF Linearizable
<1> QED BY <1>5, <1>6

\* A sequence and its extension by one element.
LEMMA AppendSeq ==
    ASSUME NEW D, NEW order \in Seq(D), NEW m \in D
    PROVE  LET order2 == Append(order, m)
               L == Len(order) IN
           /\ L \in Nat /\ order2 \in Seq(D) /\ Len(order2) = L + 1 /\ order2[L + 1] = m
           /\ DOMAIN order = 1..L /\ DOMAIN order2 = 1..(L + 1)
           /\ \A i \in 1..L : order2[i] = order[i] /\ order[i] \in D
OBVIOUS

\* One more operation at the end keeps the order of real time if all that returned before
\* its call are there.
LEMMA RealTimeAppend ==
    ASSUME NEW ops, NEW D, NEW order \in Seq(D), NEW m \in D, RealTime(ops, order),
           \A x \in DOMAIN ops : ops[x].Return < ops[m].Call => \E j \in 1..Len(order) : order[j] = x
    PROVE  RealTime(ops, Append(order, m))
<1> DEFINE order2 == Append(order, m)
           L == Len(order)
<1>1. /\ L \in Nat /\ order2[L + 1] = m /\ DOMAIN order = 1..L /\ DOMAIN order2 = 1..(L + 1)
      /\ \A i \in 1..L : order2[i] = order[i]
  BY AppendSeq
<1> HIDE DEF order2, L
<1> SUFFICES ASSUME NEW i \in 1..(L + 1), NEW x \in DOMAIN ops, ops[x].Return < ops[order2[i]].Call
             PROVE  \E j \in 1..(i - 1) : order2[j] = x
  BY <1>1 DEF RealTime, order2
<1>2. CASE i = L + 1
  <2>1. PICK j \in 1..L : order[j] = x
    BY <1>1, <1>2 DEF L
  <2>2. j \in 1..(i - 1) /\ order2[j] = x
    BY <1>1, <1>2, <2>1
  <2> QED BY <2>2
<1>3. CASE i # L + 1
  <2>1. i \in 1..L /\ order2[i] = order[i]
    BY <1>1, <1>3
  <2>2. PICK j \in 1..(i - 1) : order[j] = x
    BY <1>1, <2>1 DEF RealTime
  <2>3. j \in 1..L
    BY <1>1, <2>1
  <2> QED BY <1>1, <2>2, <2>3
<1> QED BY <1>2, <1>3

\* An element that is new keeps the elements different.
LEMMA DifferentAppend ==
    ASSUME NEW D, NEW order \in Seq(D), NEW m \in D, \A i, j \in 1..Len(order) : order[i] = order[j] => i = j,
           \A i \in 1..Len(order) : order[i] # m
    PROVE  \A i, j \in 1..(Len(order) + 1) : Append(order, m)[i] = Append(order, m)[j] => i = j
<1> DEFINE order2 == Append(order, m)
           L == Len(order)
<1>1. L \in Nat /\ order2[L + 1] = m /\ \A i \in 1..L : order2[i] = order[i]
  BY AppendSeq
<1> HIDE DEF order2, L
<1> SUFFICES ASSUME NEW i \in 1..(L + 1), NEW j \in 1..(L + 1), order2[i] = order2[j] PROVE i = j
  BY DEF order2, L
<1>2. CASE i = L + 1 /\ j = L + 1
  BY <1>2
<1>3. CASE i = L + 1 /\ j # L + 1
  <2>1. j \in 1..L
    BY <1>1, <1>3
  <2> QED BY <1>1, <1>3, <2>1 DEF L
<1>4. CASE i # L + 1 /\ j = L + 1
  <2>1. i \in 1..L
    BY <1>1, <1>4
  <2> QED BY <1>1, <1>4, <2>1 DEF L
<1>5. CASE i # L + 1 /\ j # L + 1
  <2>1. i \in 1..L /\ j \in 1..L
    BY <1>1, <1>5
  <2> QED BY <1>1, <2>1 DEF L
<1> QED BY <1>2, <1>3, <1>4, <1>5

\* A run and one more operation.
LEMMA RunAppend ==
    ASSUME NEW ops, NEW order, NEW sts, IsRun(ops, order, sts), DOMAIN ops = 1..Len(ops), NEW m \in 1..Len(ops),
           m \notin First(order, Len(order)), KvStep(sts[Len(order)], ops[m]).ok,
           \A x \in 1..Len(ops) : ops[x].Return < ops[m].Call => x \in First(order, Len(order))
    PROVE  \E order2, sts2 : /\ IsRun(ops, order2, sts2)
                             /\ First(order2, Len(order2)) = First(order, Len(order)) \cup {m}
                             /\ sts2[Len(order2)] = KvStep(sts[Len(order)], ops[m]).state
<1> DEFINE D == 1..Len(ops)
           L == Len(order)
           order2 == Append(order, m)
           st == KvStep(sts[L], ops[m]).state
           sts2 == [i \in 0..(L + 1) |-> IF i = L + 1 THEN st ELSE sts[i]]
<1>1. order \in Seq(D) /\ m \in D
  BY DEF IsRun
<1> HIDE DEF D
<1>2. /\ L \in Nat /\ order2 \in Seq(D) /\ Len(order2) = L + 1 /\ order2[L + 1] = m
      /\ \A i \in 1..L : order2[i] = order[i]
  BY <1>1, AppendSeq
<1>3. RealTime(ops, order2)
  <2>1. RealTime(ops, order)
    BY DEF IsRun
  <2>2. \A x \in DOMAIN ops : ops[x].Return < ops[m].Call => \E j \in 1..Len(order) : order[j] = x
    BY DEF First
  <2> QED BY <1>1, <2>1, <2>2, RealTimeAppend
<1>4. \A i, j \in 1..(L + 1) : order2[i] = order2[j] => i = j
  <2>1. \A i, j \in 1..Len(order) : order[i] = order[j] => i = j
    BY DEF IsRun
  <2>2. \A i \in 1..Len(order) : order[i] # m
    BY DEF First
  <2> QED BY <1>1, <2>1, <2>2, DifferentAppend
<1> HIDE DEF order2, L, st
<1>5. sts2[L + 1] = st /\ \A i \in 0..L : sts2[i] = sts[i]
  BY <1>2
<1> HIDE DEF sts2
<1>6. sts2[0] = InitState
  <2>1. 0 \in 0..L
    BY <1>2
  <2> QED BY <1>5, <2>1 DEF IsRun
<1>7. ASSUME NEW i \in 1..(L + 1)
      PROVE  KvStep(sts2[i - 1], ops[order2[i]]).ok /\ sts2[i] = KvStep(sts2[i - 1], ops[order2[i]]).state
  <2>1. CASE i = L + 1
    <3>1. i - 1 = L /\ L \in 0..L
      BY <1>2, <2>1
    <3>2. sts2[i - 1] = sts[L] /\ order2[i] = m /\ sts2[i] = st
      BY <1>2, <1>5, <2>1, <3>1
    <3> QED BY <3>2 DEF st, L
  <2>2. CASE i # L + 1
    <3>1. i \in 1..L /\ i \in 0..L /\ i - 1 \in 0..L
      BY <1>2, <2>2
    <3>2. sts2[i - 1] = sts[i - 1] /\ order2[i] = order[i] /\ sts2[i] = sts[i]
      BY <1>2, <1>5, <3>1
    <3>3. KvStep(sts[i - 1], ops[order[i]]).ok /\ sts[i] = KvStep(sts[i - 1], ops[order[i]]).state
      BY <3>1 DEF IsRun, L
    <3> QED BY <3>2, <3>3
  <2> QED BY <2>1, <2>2
<1>8. IsRun(ops, order2, sts2)
  BY <1>2, <1>3, <1>4, <1>6, <1>7 DEF IsRun, D
<1>9. First(order2, L + 1) = First(order, L) \cup {m}
  <2>1. 1..(L + 1) = (1..L) \cup {L + 1}
    BY <1>2
  <2> QED BY <1>2, <2>1 DEF First
<1> QED BY <1>2, <1>5, <1>8, <1>9 DEF L, st

\* The operations on one key, in the order of all.
LEMMA Project ==
    ASSUME history \in Histories, NEW order, NEW vals, RunAll(order, vals), Len(order) = Len(history),
           NEW k \in Partitions
    PROVE  HasFull(Part(k))
<1> DEFINE ops == Part(k)
           N == Len(ops)
           H == Len(order)
           D == DOMAIN history
<1>1. /\ Len(history) \in Nat /\ D = 1..Len(history) /\ IsFiniteSet(D)
      /\ Cardinality(D) = Len(history)
  BY HistoryOK
<1>2. N \in Nat /\ DOMAIN ops = 1..N
  BY PartIndex
<1>3. PICK idx : IsIndex(k, idx)
  BY PartIndex
<1>4. /\ \A n \in 1..N : idx[n] \in D /\ history[idx[n]].Key = k /\ ops[n] = history[idx[n]]
      /\ \A n, m \in 1..N : idx[n] = idx[m] => n = m
      /\ \A i \in D : history[i].Key = k => \E n \in 1..N : idx[n] = i
  BY <1>3 DEF IsIndex, OnKey
<1>5. order \in Seq(D) /\ H \in Nat /\ DOMAIN order = 1..H /\ \A i \in 1..H : order[i] \in D
  <2>1. order \in Seq(D)
    BY DEF RunAll
  <2> HIDE DEF D
  <2> QED BY <2>1
<1>6. /\ \A i, j \in 1..H : order[i] = order[j] => i = j
      /\ RealTime(history, order) /\ vals[0][k] = InitState
      /\ \A n \in 1..H :
           LET o == history[order[n]] IN
           /\ KvStep(vals[n - 1][o.Key], o).ok
           /\ vals[n][k] = IF o.Key = k THEN KvStep(vals[n - 1][k], o).state ELSE vals[n - 1][k]
  BY DEF RunAll
<1> DEFINE Upp(sub, sts, p) ==
             /\ IsRun(ops, sub, sts) /\ sts[Len(sub)] = vals[p][k]
             /\ \A m \in 1..N : m \in First(sub, Len(sub)) <=> \E i \in 1..p : order[i] = idx[m]
           S == {p \in Nat : \E sub, sts : Upp(sub, sts, p)}
<1> HIDE DEF ops, D
<1>7. 0 \in S
  <2> DEFINE sts == [i \in 0..0 |-> InitState]
  <2>1. IsRun(ops, <<>>, sts)
    BY EmptyRun
  <2>2. Len(<<>>) = 0 /\ 1..0 = {} /\ sts[0] = InitState
    OBVIOUS
  <2>3. Upp(<<>>, sts, 0)
    BY <1>6, <2>1, <2>2 DEF First
  <2> QED BY <2>3
<1>8. ASSUME NEW p \in 0..(H - 1), p \in S PROVE p + 1 \in S
  <2>1. p + 1 \in 1..H /\ (p + 1) - 1 = p /\ 1..(p + 1) = (1..p) \cup {p + 1} /\ \A i \in 1..p : i \in 1..H
    BY <1>5
  <2>2. PICK sub, sts : Upp(sub, sts, p)
    BY <1>8
  <2> DEFINE y == order[p + 1]
             o == history[y]
  <2>3. y \in D /\ KvStep(vals[p][o.Key], o).ok
        /\ vals[p + 1][k] = IF o.Key = k THEN KvStep(vals[p][k], o).state ELSE vals[p][k]
    BY <1>5, <1>6, <2>1
  <2>4. CASE o.Key # k
    <3>1. \A m \in 1..N : y # idx[m]
      BY <1>4, <2>4
    <3>2. \A m \in 1..N : m \in First(sub, Len(sub)) <=> \E i \in 1..(p + 1) : order[i] = idx[m]
      BY <2>1, <2>2, <3>1
    <3>3. Upp(sub, sts, p + 1)
      BY <2>2, <2>3, <2>4, <3>2
    <3> QED BY <3>3
  <2>5. CASE o.Key = k
    <3>1. PICK m \in 1..N : idx[m] = y
      BY <1>4, <2>3, <2>5
    <3>2. ops[m] = o
      BY <1>4, <3>1
    <3>3. m \notin First(sub, Len(sub))
      <4>1. \A i \in 1..p : order[i] # y
        BY <1>6, <2>1
      <4> QED BY <2>2, <3>1, <4>1
    <3>4. ASSUME NEW x \in 1..N, ops[x].Return < ops[m].Call PROVE x \in First(sub, Len(sub))
      <4>1. idx[x] \in D /\ history[idx[x]].Return < history[y].Call
        BY <1>4, <3>2, <3>4
      <4>2. PICK j \in 1..((p + 1) - 1) : order[j] = idx[x]
        BY <1>5, <1>6, <2>1, <4>1 DEF RealTime, D
      <4>3. j \in 1..p
        BY <2>1
      <4> QED BY <2>2, <4>2, <4>3
    <3>5. KvStep(sts[Len(sub)], ops[m]).ok
      BY <2>2, <2>3, <2>5, <3>2
    <3>6. PICK sub2, sts2 : /\ IsRun(ops, sub2, sts2)
                            /\ First(sub2, Len(sub2)) = First(sub, Len(sub)) \cup {m}
                            /\ sts2[Len(sub2)] = KvStep(sts[Len(sub)], ops[m]).state
      <4>1. IsRun(ops, sub, sts)
        BY <2>2
      <4> HIDE DEF Upp
      <4> QED BY <1>2, <3>3, <3>4, <3>5, <4>1, RunAppend
    <3>7. ASSUME NEW z \in 1..N
          PROVE  z \in First(sub2, Len(sub2)) <=> \E i \in 1..(p + 1) : order[i] = idx[z]
      <4>1. idx[z] = y <=> z = m
        BY <1>4, <3>1
      <4>2. z \in First(sub, Len(sub)) <=> \E i \in 1..p : order[i] = idx[z]
        BY <2>2
      <4>3. (\E i \in 1..(p + 1) : order[i] = idx[z]) <=> (\E i \in 1..p : order[i] = idx[z]) \/ y = idx[z]
        BY <2>1
      <4> QED BY <3>6, <4>1, <4>2, <4>3
    <3>8. sts2[Len(sub2)] = vals[p + 1][k]
      BY <2>2, <2>3, <2>5, <3>2, <3>6
    <3>9. Upp(sub2, sts2, p + 1)
      BY <3>6, <3>7, <3>8
    <3> HIDE DEF Upp
    <3> QED BY <3>9
  <2> QED BY <2>4, <2>5
<1>9. H \in S
  <2> HIDE DEF S
  <2>1. \A p \in 0..H : p \in S
    BY <1>5, <1>7, <1>8, Induct
  <2> QED BY <1>5, <2>1
<1>10. PICK sub, sts : Upp(sub, sts, H)
  BY <1>9
<1>11. \A x \in D : \E i \in 1..H : order[i] = x
  <2> DEFINE F == {order[i] : i \in 1..H}
  <2>1. order \in [1..H -> F] /\ \A x \in F : \E i \in 1..H : order[i] = x
    BY <1>5
  <2>2. F \in SUBSET D
    BY <1>5
  <2> HIDE DEF F
  <2>3. order \in Bijection(1..H, F)
    BY <1>6, <2>1, Fun_IsBij
  <2>4. ExistsBijection(1..H, F)
    BY <2>3 DEF ExistsBijection
  <2>5. IsFiniteSet(1..H) /\ Cardinality(1..H) = H
    <3> HIDE DEF H
    <3> QED BY <1>5, Upto
  <2>6. Cardinality(F) = H
    BY <2>4, <2>5, FS_Bijection
  <2>7. F = D
    BY <1>1, <2>2, <2>6, FS_Subset
  <2> QED BY <2>1, <2>7
<1>12. Len(sub) = N
  <2>1. \A m \in 1..N : m \in First(sub, Len(sub))
    BY <1>4, <1>10, <1>11
  <2>2. IsRun(ops, sub, sts)
    BY <1>10
  <2>3. Len(sub) \in Nat
    <3> DEFINE T == 1..N
    <3>1. sub \in Seq(T)
      BY <2>2 DEF IsRun
    <3> HIDE DEF T
    <3> QED BY <3>1
  <2>4. Len(sub) \in 0..Len(sub)
    BY <2>3
  <2> HIDE DEF Upp
  <2>5. Cardinality(First(sub, Len(sub))) = Len(sub) /\ First(sub, Len(sub)) \in SUBSET (1..N)
    BY <1>2, <2>2, <2>4, RunCount
  <2>6. First(sub, Len(sub)) = 1..N
    BY <2>1, <2>5
  <2> HIDE DEF N
  <2>7. Cardinality(1..N) = N
    BY <1>2, Upto
  <2> QED BY <2>5, <2>6, <2>7
<1> QED BY <1>10, <1>12 DEF HasFull, ops

\* A run for every key: the i-th operation on k is h[k][i], sts[k][i] is the state after it
Schedule(L, h, sts) ==
    /\ \A k \in Partitions : L[k] \in Nat /\ sts[k][0] = InitState
    /\ \A k \in Partitions : \A i \in 1..L[k] :
           /\ h[k][i] \in DOMAIN history /\ history[h[k][i]].Key = k
           /\ KvStep(sts[k][i - 1], history[h[k][i]]).ok
           /\ sts[k][i] = KvStep(sts[k][i - 1], history[h[k][i]]).state
    /\ \A k \in Partitions : \A i, j \in 1..L[k] : h[k][i] = h[k][j] => i = j
    /\ \A k \in Partitions : \A i \in 1..L[k] : \A x \in DOMAIN history :
           history[x].Key = k /\ history[x].Return < history[h[k][i]].Call => \E j \in 1..(i - 1) : h[k][j] = x
    /\ \A x \in DOMAIN history : \E i \in 1..L[history[x].Key] : h[history[x].Key][i] = x

\* A complete run has every operation.
LEMMA FullOnto ==
    ASSUME NEW ops, NEW order, NEW sts, IsRun(ops, order, sts), Len(order) = Len(ops), Len(ops) \in Nat
    PROVE  \A m \in 1..Len(ops) : \E i \in 1..Len(order) : order[i] = m
<1> DEFINE L == Len(order)
           F == First(order, L)
           W == 1..Len(ops)
<1>1. L \in 0..L
  OBVIOUS
<1>2. IsFiniteSet(F) /\ Cardinality(F) = L /\ F \in SUBSET W
  BY <1>1, RunCount
<1>3. IsFiniteSet(W) /\ Cardinality(W) = Len(ops)
  BY Upto
<1> HIDE DEF F, W
<1>4. F = W
  BY <1>2, <1>3, FS_Subset
<1> QED BY <1>4 DEF F, W, First

\* If each key has a complete run, they make a schedule.
LEMMA ScheduleExists ==
    ASSUME history \in Histories, \A k \in Partitions : HasFull(Part(k))
    PROVE  \E L, h, sts : Schedule(L, h, sts)
<1> DEFINE idx(k) == CHOOSE f : IsIndex(k, f)
           IsFull(k, order) == \E st : IsRun(Part(k), order, st) /\ Len(order) = Len(Part(k))
           run(k) == CHOOSE order : IsFull(k, order)
           stf(k) == CHOOSE st : IsRun(Part(k), run(k), st)
           L == [k \in Partitions |-> Len(Part(k))]
           h == [k \in Partitions |-> [i \in 1..Len(Part(k)) |-> idx(k)[run(k)[i]]]]
           sts == [k \in Partitions |-> stf(k)]
<1>1. ASSUME NEW k \in Partitions
      PROVE  /\ Len(Part(k)) \in Nat /\ DOMAIN Part(k) = 1..Len(Part(k)) /\ IsIndex(k, idx(k))
             /\ IsRun(Part(k), run(k), stf(k)) /\ Len(run(k)) = Len(Part(k))
  <2>1. Len(Part(k)) \in Nat /\ DOMAIN Part(k) = 1..Len(Part(k)) /\ \E f : IsIndex(k, f)
    BY PartIndex
  <2>2. IsIndex(k, idx(k))
    BY <2>1
  <2>3. \E order : IsFull(k, order)
    BY DEF HasFull
  <2> HIDE DEF IsFull
  <2>4. IsFull(k, run(k))
    BY <2>3
  <2>5. (\E st : IsRun(Part(k), run(k), st)) /\ Len(run(k)) = Len(Part(k))
    BY <2>4 DEF IsFull
  <2> HIDE DEF run
  <2>6. IsRun(Part(k), run(k), stf(k))
    BY <2>5
  <2> QED BY <2>1, <2>2, <2>5, <2>6
<1> HIDE DEF idx, run, stf
<1>2. \A k \in Partitions : L[k] = Len(Part(k)) /\ sts[k] = stf(k)
                            /\ \A i \in 1..Len(Part(k)) : h[k][i] = idx(k)[run(k)[i]]
  OBVIOUS
<1> HIDE DEF L, h, sts
<1>3. ASSUME NEW k \in Partitions
      PROVE  /\ L[k] \in Nat /\ sts[k][0] = InitState
             /\ \A i \in 1..L[k] :
                  /\ h[k][i] \in DOMAIN history /\ history[h[k][i]].Key = k
                  /\ KvStep(sts[k][i - 1], history[h[k][i]]).ok
                  /\ sts[k][i] = KvStep(sts[k][i - 1], history[h[k][i]]).state
             /\ \A i, j \in 1..L[k] : h[k][i] = h[k][j] => i = j
             /\ \A i \in 1..L[k] : \A x \in DOMAIN history :
                  history[x].Key = k /\ history[x].Return < history[h[k][i]].Call =>
                      \E j \in 1..(i - 1) : h[k][j] = x
             /\ \A x \in DOMAIN history : history[x].Key = k => \E i \in 1..L[k] : h[k][i] = x
  <2> DEFINE ops == Part(k)
             N == Len(ops)
             f == idx(k)
             r == run(k)
             st == stf(k)
             g == h[k]
  <2>1. N \in Nat /\ DOMAIN ops = 1..N /\ IsIndex(k, f) /\ IsRun(ops, r, st) /\ Len(r) = N
    BY <1>1
  <2>2. /\ \A n \in 1..N : f[n] \in DOMAIN history /\ history[f[n]].Key = k /\ ops[n] = history[f[n]]
        /\ \A n, m \in 1..N : f[n] = f[m] => n = m
        /\ \A i \in DOMAIN history : history[i].Key = k => \E n \in 1..N : f[n] = i
    BY <2>1 DEF IsIndex, OnKey
  <2>3. L[k] = N /\ sts[k] = st /\ \A i \in 1..N : g[i] = f[r[i]]
    BY <1>2
  <2> HIDE DEF f, r, st, g, ops
  <2>4. DOMAIN r = 1..N /\ \A i \in 1..N : r[i] \in 1..N
    <3> DEFINE T == 1..N
    <3>1. r \in Seq(T) /\ Len(r) = N
      BY <2>1 DEF IsRun
    <3> HIDE DEF T
    <3>2. DOMAIN r = 1..N /\ \A i \in 1..N : r[i] \in T
      BY <3>1
    <3> QED BY <3>2 DEF T
  <2>5. /\ \A i, j \in 1..N : r[i] = r[j] => i = j
        /\ RealTime(ops, r) /\ st[0] = InitState
        /\ \A i \in 1..N : KvStep(st[i - 1], ops[r[i]]).ok /\ st[i] = KvStep(st[i - 1], ops[r[i]]).state
    BY <2>1 DEF IsRun
  <2>6. \A m \in 1..N : \E i \in 1..N : r[i] = m
    <3>1. \A m \in 1..Len(ops) : \E i \in 1..Len(r) : r[i] = m
      BY <2>1, FullOnto
    <3> QED BY <2>1, <3>1
  <2>7. \A i \in 1..N : g[i] \in DOMAIN history /\ history[g[i]].Key = k /\ history[g[i]] = ops[r[i]]
    BY <2>2, <2>3, <2>4
  <2>8. ASSUME NEW i \in 1..N, NEW j \in 1..N, g[i] = g[j] PROVE i = j
    <3>1. f[r[i]] = f[r[j]]
      BY <2>3, <2>8
    <3>2. r[i] = r[j]
      BY <2>2, <2>4, <3>1
    <3> QED BY <2>5, <3>2
  <2>9. ASSUME NEW x \in DOMAIN history, history[x].Key = k PROVE \E i \in 1..N : g[i] = x
    <3>1. PICK n \in 1..N : f[n] = x
      BY <2>2, <2>9
    <3>2. PICK i \in 1..N : r[i] = n
      BY <2>6
    <3> QED BY <2>3, <3>1, <3>2
  <2>10. ASSUME NEW i \in 1..N, NEW x \in DOMAIN history, history[x].Key = k,
                history[x].Return < history[g[i]].Call
         PROVE  \E j \in 1..(i - 1) : g[j] = x
    <3>1. PICK n \in 1..N : f[n] = x
      BY <2>2, <2>10
    <3>2. ops[n].Return < ops[r[i]].Call
      BY <2>2, <2>7, <2>10, <3>1
    <3>3. PICK j \in 1..(i - 1) : r[j] = n
      BY <2>1, <2>4, <2>5, <3>2 DEF RealTime
    <3>4. j \in 1..N
      BY <2>1
    <3> QED BY <2>3, <3>1, <3>3, <3>4
  <2>11. \A i \in 1..N : KvStep(st[i - 1], history[g[i]]).ok /\ st[i] = KvStep(st[i - 1], history[g[i]]).state
    BY <2>5, <2>7
  <2> HIDE DEF N
  <2> QED BY <2>1, <2>3, <2>5, <2>7, <2>8, <2>9, <2>10, <2>11 DEF g
<1>4. \A x \in DOMAIN history : history[x].Key \in Partitions
  BY HistoryOK
<1>5. \A x \in DOMAIN history : \E i \in 1..L[history[x].Key] : h[history[x].Key][i] = x
  BY <1>3, <1>4
<1>6. Schedule(L, h, sts)
  BY <1>3, <1>5 DEF Schedule
<1> QED BY <1>6

\* Of some operations one returns first.
LEMMA FirstReturn ==
    ASSUME history \in Histories, NEW Q, \A x \in Q : x \in DOMAIN history, NEW y \in Q
    PROVE  \E m \in Q : \A x \in Q : history[m].Return <= history[x].Return
<1> DEFINE N == Len(history)
           f == [x \in 1..N |-> IF x \in Q THEN -history[x].Return ELSE -history[y].Return]
<1>1. N \in Nat /\ DOMAIN history = 1..N /\ \A x \in 1..N : history[x].Return \in Int
  BY HistoryOK
<1>2. y \in 1..N /\ N \in Nat \ {0}
  BY <1>1
<1>3. \A x \in 1..N : f[x] \in Int
  BY <1>1, <1>2
<1>4. \A x \in Q : x \in 1..N /\ f[x] = -history[x].Return
  BY <1>1
<1>5. \A x \in 1..N : x \notin Q => f[x] = f[y]
  BY <1>2
<1> HIDE DEF f, N
<1>6. PICK z \in 1..N : \A x \in 1..N : f[x] <= f[z]
  BY <1>2, <1>3, Largest1
<1>7. PICK m \in Q : f[m] = f[z]
  BY <1>5
<1>8. ASSUME NEW x \in Q PROVE history[m].Return <= history[x].Return
  <2>1. f[x] <= f[m]
    BY <1>4, <1>6, <1>7
  <2>2. history[m].Return \in Int /\ history[x].Return \in Int /\ f[x] = -history[x].Return /\ f[m] = -history[m].Return
    BY <1>1, <1>4
  <2> QED BY <2>1, <2>2
<1> QED BY <1>8

\* n operations of a schedule are merged: the first at[k] of each key k
Merged(L, h, sts, order, vals, at) ==
    /\ RunAll(order, vals)
    /\ \A k \in Partitions : at[k] \in 0..L[k] /\ vals[Len(order)][k] = sts[k][at[k]]
    /\ \A x \in DOMAIN history :
           (\E i \in 1..Len(order) : order[i] = x) <=>
           (\E i \in 1..at[history[x].Key] : h[history[x].Key][i] = x)

\* One more operation at the end of a run of all keys.
LEMMA RunAllAppend ==
    ASSUME history \in Histories, NEW order, NEW vals, RunAll(order, vals), NEW m \in DOMAIN history,
           \A i \in 1..Len(order) : order[i] # m,
           KvStep(vals[Len(order)][history[m].Key], history[m]).ok,
           \A x \in DOMAIN history : history[x].Return < history[m].Call => \E i \in 1..Len(order) : order[i] = x
    PROVE  LET L == Len(order)
               o == history[m]
               new == [k \in Partitions |-> IF o.Key = k THEN KvStep(vals[L][k], o).state ELSE vals[L][k]] IN
           RunAll(Append(order, m), [i \in 0..(L + 1) |-> IF i = L + 1 THEN new ELSE vals[i]])
<1> DEFINE D == DOMAIN history
           L == Len(order)
           o == history[m]
           order2 == Append(order, m)
           new == [k \in Partitions |-> IF o.Key = k THEN KvStep(vals[L][k], o).state ELSE vals[L][k]]
           vals2 == [i \in 0..(L + 1) |-> IF i = L + 1 THEN new ELSE vals[i]]
<1>1. order \in Seq(D) /\ m \in D /\ RealTime(history, order) /\ \A i, j \in 1..L : order[i] = order[j] => i = j
  BY DEF RunAll
<1>2. RealTime(history, order2)
  BY <1>1, RealTimeAppend
<1>3. \A i, j \in 1..(L + 1) : order2[i] = order2[j] => i = j
  BY <1>1, DifferentAppend
<1> HIDE DEF D
<1>4. /\ L \in Nat /\ order2 \in Seq(D) /\ Len(order2) = L + 1 /\ order2[L + 1] = m
      /\ \A i \in 1..L : order2[i] = order[i]
  BY <1>1, AppendSeq
<1>5. \A k \in Partitions : new[k] = IF o.Key = k THEN KvStep(vals[L][k], o).state ELSE vals[L][k]
  OBVIOUS
<1> HIDE DEF order2, new
<1>6. vals2[L + 1] = new /\ \A i \in 0..L : vals2[i] = vals[i]
  BY <1>4
<1> HIDE DEF vals2, L
<1>7. \A k \in Partitions : vals2[0][k] = InitState
  <2>1. 0 \in 0..L
    BY <1>4
  <2> QED BY <1>6, <2>1 DEF RunAll
<1>8. ASSUME NEW n \in 1..(L + 1)
      PROVE  LET p == history[order2[n]] IN
             /\ KvStep(vals2[n - 1][p.Key], p).ok
             /\ \A k \in Partitions :
                  vals2[n][k] = IF p.Key = k THEN KvStep(vals2[n - 1][k], p).state ELSE vals2[n - 1][k]
  <2>1. CASE n = L + 1
    <3>1. n - 1 = L /\ L \in 0..L
      BY <1>4, <2>1
    <3>2. vals2[n - 1] = vals[L] /\ order2[n] = m /\ vals2[n] = new
      BY <1>4, <1>6, <2>1, <3>1
    <3> QED BY <1>5, <3>2 DEF L
  <2>2. CASE n # L + 1
    <3>1. n \in 1..L /\ n \in 0..L /\ n - 1 \in 0..L
      BY <1>4, <2>2
    <3>2. vals2[n - 1] = vals[n - 1] /\ order2[n] = order[n] /\ vals2[n] = vals[n]
      BY <1>4, <1>6, <3>1
    <3>3. LET p == history[order[n]] IN
          /\ KvStep(vals[n - 1][p.Key], p).ok
          /\ \A k \in Partitions :
               vals[n][k] = IF p.Key = k THEN KvStep(vals[n - 1][k], p).state ELSE vals[n - 1][k]
      BY <3>1 DEF RunAll, L
    <3> QED BY <3>2, <3>3
  <2> QED BY <2>1, <2>2
<1>9. RunAll(order2, vals2)
  BY <1>2, <1>3, <1>4, <1>7, <1>8 DEF RunAll, D
<1> QED BY <1>9 DEF order2, vals2, new, L

\* While operations are left, one more can be merged: of those that are left, the next on the
\* key of the one that returns first.  Nothing that is left returns before it is called.
LEMMA MergeStep ==
    ASSUME history \in Histories, NEW L, NEW h, NEW sts, Schedule(L, h, sts),
           NEW order, NEW vals, NEW at, Merged(L, h, sts, order, vals, at), Len(order) < Len(history)
    PROVE  \E order2, vals2, at2 : Merged(L, h, sts, order2, vals2, at2) /\ Len(order2) = Len(order) + 1
<1> DEFINE D == DOMAIN history
           n == Len(order)
           Q == {x \in D : \A i \in 1..n : order[i] # x}
           Before(q, b, z) == \E a \in 1..(b - 1) : h[q][a] = z
<1>0. \A q \in Partitions : \A b \in 1..L[q] : \A z \in DOMAIN history :
          history[z].Key = q /\ history[z].Return < history[h[q][b]].Call => Before(q, b, z)
  BY DEF Schedule
<1>1. /\ Len(history) \in Nat /\ D = 1..Len(history) /\ IsFiniteSet(D) /\ Cardinality(D) = Len(history)
      /\ \A x \in D : /\ history[x].Key \in Partitions
                      /\ history[x].Return \in Int /\ history[x].Call \in Int
  BY HistoryOK
<1>2. RunAll(order, vals)
  BY DEF Merged
<1>3. /\ order \in Seq(D) /\ n \in Nat /\ DOMAIN order = 1..n /\ (\A i \in 1..n : order[i] \in D)
      /\ \A i, j \in 1..n : order[i] = order[j] => i = j
  <2>1. order \in Seq(D) /\ \A i, j \in 1..n : order[i] = order[j] => i = j
    BY <1>2 DEF RunAll
  <2> HIDE DEF D
  <2> QED BY <2>1
<1>4. \E y \in D : y \in Q
  <2> SUFFICES ASSUME \A y \in D : \E i \in 1..n : order[i] = y PROVE FALSE
    OBVIOUS
  <2> DEFINE F == {order[i] : i \in 1..n}
  <2>1. order \in [1..n -> F] /\ \A x \in F : \E i \in 1..n : order[i] = x
    BY <1>3
  <2>2. F = D
    <3>1. \A x \in F : x \in D
      BY <1>3
    <3>2. \A x \in D : x \in F
      OBVIOUS
    <3> HIDE DEF F, D
    <3> QED BY <3>1, <3>2
  <2> HIDE DEF F
  <2>3. order \in Bijection(1..n, F)
    BY <1>3, <2>1, Fun_IsBij
  <2>4. ExistsBijection(1..n, F)
    BY <2>3 DEF ExistsBijection
  <2>5. IsFiniteSet(1..n) /\ Cardinality(1..n) = n
    <3> HIDE DEF n
    <3> QED BY <1>3, Upto
  <2>6. Cardinality(F) = n
    BY <2>4, <2>5, FS_Bijection
  <2> QED BY <1>1, <1>3, <2>2, <2>6
<1>5. PICK m \in Q : \A x \in Q : history[m].Return <= history[x].Return
  <2>1. PICK y \in D : y \in Q
    BY <1>4
  <2>2. \A x \in Q : x \in DOMAIN history
    OBVIOUS
  <2> HIDE DEF Q
  <2> QED BY <2>1, <2>2, FirstReturn
<1> DEFINE k == history[m].Key
           i == at[k] + 1
           o == h[k][i]
<1>6. m \in D /\ k \in Partitions
  BY <1>1
<1>7. at[k] \in 0..L[k] /\ L[k] \in Nat /\ vals[n][k] = sts[k][at[k]]
  BY <1>6 DEF Merged, Schedule
<1>8. \A x \in D : x \in Q <=> ~\E j \in 1..at[history[x].Key] : h[history[x].Key][j] = x
  BY DEF Merged
<1>9. PICK j \in 1..L[k] : h[k][j] = m
  BY <1>6 DEF Schedule
<1>10. j > at[k]
  BY <1>6, <1>7, <1>8, <1>9
<1>11. i \in 1..L[k] /\ i - 1 = at[k] /\ 1..i = (1..at[k]) \cup {i} /\ i \in 0..L[k]
  BY <1>7, <1>10
<1>12. /\ o \in D /\ history[o].Key = k /\ KvStep(sts[k][at[k]], history[o]).ok
       /\ sts[k][i] = KvStep(sts[k][at[k]], history[o]).state
  <2> HIDE DEF k, i
  <2>1. /\ h[k][i] \in DOMAIN history /\ history[h[k][i]].Key = k
        /\ KvStep(sts[k][i - 1], history[h[k][i]]).ok
        /\ sts[k][i] = KvStep(sts[k][i - 1], history[h[k][i]]).state
    BY <1>6, <1>11 DEF Schedule
  <2> QED BY <1>11, <2>1
<1>13. \A a \in 1..at[k] : h[k][a] # o
  <2>1. \A a \in 1..at[k] : a \in 1..L[k] /\ a # i
    BY <1>7, <1>11
  <2> QED BY <1>6, <1>11, <2>1 DEF Schedule
<1> HIDE DEF Q, k, i, o
<1>14. \A a \in 1..n : order[a] # o
  BY <1>8, <1>12, <1>13 DEF Q
<1>15. ASSUME NEW x \in D, history[x].Return < history[o].Call PROVE \E a \in 1..n : order[a] = x
  <2> SUFFICES ASSUME x \in Q PROVE FALSE
    BY DEF Q
  <2>1. history[m].Return <= history[x].Return
    BY <1>5
  <2>2. history[m].Return < history[o].Call
    BY <1>1, <1>6, <1>12, <1>15, <2>1
  <2>3. \E a \in 1..(i - 1) : h[k][a] = m
    <3>1. history[m].Key = k /\ history[m].Return < history[h[k][i]].Call
      BY <2>2 DEF k, o
    <3>2. k \in Partitions /\ i \in 1..L[k] /\ m \in DOMAIN history
      BY <1>6, <1>11
    <3> HIDE DEF Before
    <3>3. Before(k, i, m)
      BY <1>0, <3>1, <3>2
    <3> QED BY <3>3 DEF Before
  <2> QED BY <1>6, <1>8, <1>11, <2>3 DEF k
<1> DEFINE p == history[o]
           order2 == Append(order, o)
           new == [q \in Partitions |-> IF p.Key = q THEN KvStep(vals[n][q], p).state ELSE vals[n][q]]
           vals2 == [a \in 0..(n + 1) |-> IF a = n + 1 THEN new ELSE vals[a]]
           at2 == [q \in Partitions |-> IF q = k THEN i ELSE at[q]]
<1>16. RunAll(order2, vals2)
  <2>1. KvStep(vals[n][p.Key], p).ok
    BY <1>7, <1>12
  <2> QED BY <1>2, <1>12, <1>14, <1>15, <2>1, RunAllAppend
<1>17. Len(order2) = n + 1 /\ order2[n + 1] = o /\ \A a \in 1..n : order2[a] = order[a]
  <2> HIDE DEF D
  <2> QED BY <1>3, <1>12, AppendSeq
<1>18. \A q \in Partitions : at2[q] \in 0..L[q] /\ vals2[n + 1][q] = sts[q][at2[q]]
  <2>1. \A q \in Partitions : vals2[n + 1][q] = IF k = q THEN KvStep(vals[n][q], p).state ELSE vals[n][q]
    BY <1>3, <1>12
  <2>2. \A q \in Partitions : at[q] \in 0..L[q] /\ vals[n][q] = sts[q][at[q]]
    BY DEF Merged
  <2> HIDE DEF vals2, new
  <2> QED BY <1>7, <1>11, <1>12, <2>1, <2>2
<1>19. ASSUME NEW x \in D
       PROVE  (\E a \in 1..(n + 1) : order2[a] = x) <=>
              (\E a \in 1..at2[history[x].Key] : h[history[x].Key][a] = x)
  <2> DEFINE q == history[x].Key
  <2>0. q \in Partitions
    BY <1>1
  <2>1. (\E a \in 1..(n + 1) : order2[a] = x) <=> (\E a \in 1..n : order[a] = x) \/ o = x
    <3>1. 1..(n + 1) = (1..n) \cup {n + 1}
      BY <1>3
    <3> HIDE DEF order2
    <3> QED BY <1>17, <3>1
  <2>2. (\E a \in 1..n : order[a] = x) <=> (\E a \in 1..at[q] : h[q][a] = x)
    BY DEF Merged
  <2>3. CASE q = k
    <3>1. at2[q] = i
      BY <2>0, <2>3
    <3>2. (\E a \in 1..i : h[k][a] = x) <=> (\E a \in 1..at[k] : h[k][a] = x) \/ h[k][i] = x
      BY <1>11
    <3> QED BY <2>1, <2>2, <2>3, <3>1, <3>2 DEF o
  <2>4. CASE q # k
    <3>1. at2[q] = at[q] /\ o # x
      BY <1>12, <2>0, <2>4
    <3> QED BY <2>1, <2>2, <3>1
  <2> QED BY <2>3, <2>4
<1> HIDE DEF order2, vals2, at2
<1>20. Merged(L, h, sts, order2, vals2, at2)
  BY <1>16, <1>17, <1>18, <1>19 DEF Merged
<1> QED BY <1>17, <1>20

\* The runs of the keys can be merged into one of the whole history.
LEMMA Merge ==
    ASSUME history \in Histories, NEW L, NEW h, NEW sts, Schedule(L, h, sts)
    PROVE  \E order, vals : RunAll(order, vals) /\ Len(order) = Len(history)
<1> DEFINE H == Len(history)
           M(n, order, vals, at) == Merged(L, h, sts, order, vals, at) /\ Len(order) = n
           S == {n \in Nat : \E order, vals, at : M(n, order, vals, at)}
<1>1. H \in Nat /\ \A x \in DOMAIN history : history[x].Key \in Partitions
  BY HistoryOK
<1>2. 0 \in S
  <2> DEFINE vals == [n \in 0..0 |-> [k \in Partitions |-> InitState]]
             at == [k \in Partitions |-> 0]
  <2>1. Len(<<>>) = 0 /\ 1..0 = {} /\ DOMAIN <<>> = {} /\ <<>> \in Seq(DOMAIN history)
    <3> DEFINE D == DOMAIN history
    <3> HIDE DEF D
    <3>1. <<>> \in Seq(D)
      OBVIOUS
    <3> QED BY <3>1 DEF D
  <2>2. \A k \in Partitions : vals[0][k] = InitState /\ at[k] = 0
    OBVIOUS
  <2> HIDE DEF vals, at
  <2>3. RunAll(<<>>, vals)
    BY <2>1, <2>2 DEF RunAll, RealTime
  <2>4. \A k \in Partitions : at[k] \in 0..L[k] /\ vals[Len(<<>>)][k] = sts[k][at[k]]
    BY <2>1, <2>2 DEF Schedule
  <2>5. \A x \in DOMAIN history : at[history[x].Key] = 0
    BY <1>1, <2>2
  <2>6. Merged(L, h, sts, <<>>, vals, at)
    BY <2>1, <2>3, <2>4, <2>5 DEF Merged
  <2>7. M(0, <<>>, vals, at)
    BY <2>1, <2>6
  <2> HIDE DEF M
  <2> QED BY <2>7
<1>3. ASSUME NEW n \in 0..(H - 1), n \in S PROVE n + 1 \in S
  <2>1. PICK order, vals, at : M(n, order, vals, at)
    BY <1>3
  <2>2. Merged(L, h, sts, order, vals, at) /\ Len(order) = n /\ Len(order) < Len(history)
    BY <1>1, <2>1
  <2>3. PICK order2, vals2, at2 : Merged(L, h, sts, order2, vals2, at2) /\ Len(order2) = Len(order) + 1
    BY <2>2, MergeStep
  <2>4. M(n + 1, order2, vals2, at2)
    BY <2>2, <2>3
  <2> HIDE DEF M
  <2> QED BY <2>4
<1>4. H \in S
  <2> HIDE DEF S
  <2>1. \A n \in 0..H : n \in S
    BY <1>1, <1>2, <1>3, Induct
  <2> QED BY <1>1, <2>1
<1>5. PICK order, vals, at : M(H, order, vals, at)
  BY <1>4
<1> QED BY <1>5 DEF Merged

\* Linearizability is local: what checkParallel decides key by key holds of the history.
LEMMA Locality ==
    ASSUME history \in Histories
    PROVE  Linearizable <=> \A k \in Partitions : HasFull(Part(k))
<1>1. ASSUME Linearizable, NEW k \in Partitions PROVE HasFull(Part(k))
  <2>1. PICK order, vals : RunAll(order, vals) /\ Len(order) = Len(history)
    BY <1>1, LinearizableRun
  <2> QED BY <2>1, Project
<1>2. ASSUME \A k \in Partitions : HasFull(Part(k)) PROVE Linearizable
  <2>1. PICK L, h, sts : Schedule(L, h, sts)
    BY <1>2, ScheduleExists
  <2>2. \E order, vals : RunAll(order, vals) /\ Len(order) = Len(history)
    BY <2>1, Merge
  <2> QED BY <2>2, LinearizableRun
<1> QED BY <1>1, <1>2

-----------------------------------------------------------------------------
(* checkParallel.  What it knows of the partitions whose search has ended. *)

Returned == {k \in Partitions : search[k].pc = "returned"}

\* Some result in the channel is bad
Bad(r) == \E j \in 1..Len(r) : ~r[j]

\* What Finish collects
Found ==
    (UNION {{<<k, search[k].longest[i]>> : i \in Ids(k)} : k \in Partitions}) \ {<<k, <<>>>> : k \in Partitions}

TypesInv ==
    /\ verbose \in BOOLEAN /\ timed \in BOOLEAN /\ kill \in BOOLEAN /\ ok \in BOOLEAN /\ timedOut \in BOOLEAN
    /\ count \in Nat /\ results \in Seq(BOOLEAN) /\ pc \in {"loop", "finish", "done"}

SearchesInv ==
    /\ history \in Histories /\ ListIInv
    /\ \A k \in Partitions : Sound(Part(k), verbose, search[k])

\* Every search that has returned is counted or has its result in the channel
CountInv == count + Len(results) = Cardinality(Returned)

\* Searches are cut short only after a timeout, or when the verdict is known
KillInv ==
    /\ kill => timedOut \/ (~ok /\ ~verbose)
    /\ timedOut => timed

\* The results taken into account are right; those of searches cut short are not taken
VerdictInv ==
    /\ pc = "loop" => ~kill /\ ~timedOut /\ \A k \in Returned : HasFull(Part(k)) \/ ~ok \/ Bad(results)
    /\ ~ok \/ (~kill /\ Bad(results)) => \E k \in Partitions : ~HasFull(Part(k))
    /\ pc # "loop" /\ ok /\ ~timedOut => \A k \in Partitions : HasFull(Part(k))
    /\ pc = "done" => verdict = IF ~ok THEN "Illegal" ELSE IF timedOut THEN "Unknown" ELSE "Ok"

LongestDone == verbose /\ ~timedOut => \A k \in Returned : Complete(Part(k), search[k].longest)

\* The partial linearizations are collected when all searches have ended
PartialsInv ==
    /\ pc = "done" /\ verbose => Returned = Partitions /\ partials = Found
    /\ ~(pc = "done" /\ verbose) => partials = {}
    /\ \/ page = NoPage
       \/ /\ pc = "done" /\ verbose
          /\ page = [state |-> "data", largest |-> [k \in Partitions |-> [i \in Ids(k) |-> Largest(k, i)]]]

CheckInv == TypesInv /\ SearchesInv /\ CountInv /\ KillInv /\ VerdictInv /\ LongestDone /\ PartialsInv

\* The partitions are those of the history.
LEMMA SamePart ==
    ASSUME history' = history
    PROVE  Partitions' = Partitions /\ \A k : Part(k)' = Part(k) /\ Ids(k)' = Ids(k)
BY DEF Partitions, Part, OnKey, Ids

\* There are finitely many.
LEMMA PartitionsFinite ==
    ASSUME history \in Histories
    PROVE  /\ IsFiniteSet(Partitions) /\ Cardinality(Partitions) \in Nat
           /\ IsFiniteSet(Returned) /\ Returned \in SUBSET Partitions
<1> DEFINE D == DOMAIN history
           f == [i \in D |-> history[i].Key]
<1>1. IsFiniteSet(D)
  BY HistoryOK
<1>2. f \in [D -> Partitions] /\ \A k \in Partitions : \E i \in D : f[i] = k
  BY DEF Partitions
<1> HIDE DEF D, f
<1>3. f \in Surjection(D, Partitions)
  BY <1>2 DEF Surjection
<1>4. IsFiniteSet(Partitions)
  BY <1>1, <1>3, FS_Surjection
<1>5. Returned \in SUBSET Partitions
  BY DEF Returned
<1> QED BY <1>4, <1>5, FS_Subset, FS_CardinalityType

\* What is bad in the channel was so before, or is what was reported last.
LEMMA BadAppend ==
    ASSUME NEW r \in Seq(BOOLEAN), NEW b \in BOOLEAN
    PROVE  /\ Append(r, b) \in Seq(BOOLEAN) /\ Len(Append(r, b)) = Len(r) + 1
           /\ Bad(Append(r, b)) <=> Bad(r) \/ ~b
<1> DEFINE a == Append(r, b)
           n == Len(r)
<1>1. n \in Nat /\ a \in Seq(BOOLEAN) /\ Len(a) = n + 1 /\ a[n + 1] = b /\ \A j \in 1..n : a[j] = r[j]
  BY AppendSeq
<1>2. 1..(n + 1) = (1..n) \cup {n + 1}
  BY <1>1
<1> HIDE DEF a
<1>3. Bad(a) <=> Bad(r) \/ ~b
  BY <1>1, <1>2 DEF Bad
<1> QED BY <1>1, <1>3 DEF a

\* What is bad in the channel is its head or is left in it.
LEMMA BadTail ==
    ASSUME NEW r \in Seq(BOOLEAN), r # <<>>
    PROVE  /\ Tail(r) \in Seq(BOOLEAN) /\ Len(Tail(r)) = Len(r) - 1 /\ Head(r) \in BOOLEAN
           /\ Len(r) \in Nat \ {0} /\ (Bad(r) <=> ~Head(r) \/ Bad(Tail(r)))
<1> DEFINE a == Tail(r)
           n == Len(r)
<1>1. n \in Nat \ {0} /\ a \in Seq(BOOLEAN) /\ Len(a) = n - 1 /\ Head(r) = r[1] /\ r[1] \in BOOLEAN
  OBVIOUS
<1>2. \A j \in 1..(n - 1) : a[j] = r[j + 1] /\ j + 1 \in 1..n
  OBVIOUS
<1>3. \A j \in 1..n : j = 1 \/ j - 1 \in 1..(n - 1)
  BY <1>1
<1> HIDE DEF a
<1>4. ASSUME Bad(r) PROVE ~Head(r) \/ Bad(a)
  <2>1. PICK j \in 1..n : ~r[j]
    BY <1>4 DEF Bad
  <2>2. CASE j = 1
    BY <1>1, <2>1, <2>2
  <2>3. CASE j # 1
    <3>1. j - 1 \in 1..(n - 1) /\ (j - 1) + 1 = j
      BY <1>1, <1>3, <2>3
    <3>2. a[j - 1] = r[j]
      BY <1>2, <3>1
    <3> QED BY <1>1, <2>1, <3>1, <3>2 DEF Bad
  <2> QED BY <2>2, <2>3
<1>5. ASSUME ~Head(r) \/ Bad(a) PROVE Bad(r)
  <2>1. 1 \in 1..n
    BY <1>1
  <2> QED BY <1>1, <1>2, <1>5, <2>1 DEF Bad
<1>6. Bad(r) <=> ~Head(r) \/ Bad(a)
  BY <1>4, <1>5
<1> QED BY <1>1, <1>6 DEF a

\* The search of partition k goes on as t, and nothing is reported
GoesOn(k, t) == t.pc = "loop" /\ results' = results

\* It has returned, and its result is b
Reports(k, t, b) ==
    /\ t.pc = "returned" /\ b \in BOOLEAN /\ results' = Append(results, b)
    /\ b => HasFull(Part(k))
    /\ ~b /\ ~kill => ~HasFull(Part(k))
    /\ verbose /\ ~timedOut => Complete(Part(k), t.longest)

\* A step of a search: what it reports is right unless it was cut short.
LEMMA SingleShape ==
    ASSUME TypesInv, SearchesInv, KillInv, NEW k \in Partitions, CheckSingle(k)
    PROVE  /\ search[k].pc = "loop" /\ UNCHANGED <<argVars, mainVars, page>>
           /\ \E t : /\ search' = [search EXCEPT ![k] = t] /\ SearchInv(t) /\ Sound(Part(k), verbose, t)
                     /\ GoesOn(k, t) \/ \E b : Reports(k, t, b)
<1> DEFINE s == search[k]
           ops == Part(k)
           Shape(t) == /\ search' = [search EXCEPT ![k] = t] /\ SearchInv(t) /\ Sound(ops, verbose, t)
                       /\ GoesOn(k, t) \/ \E b : Reports(k, t, b)
<1>1. s.pc = "loop" /\ UNCHANGED <<argVars, mainVars, page>>
  BY DEF CheckSingle, AllLinearized, Killed, TryCall, NoneLinearized, Backtrack, Running, Return, Continue
<1>2. ListIInv /\ Sound(ops, verbose, s)
  BY DEF SearchesInv
<1>3. CASE AllLinearized(k)
  <2>1. s.next[0] = End(s) /\ results' = Append(results, TRUE)
    BY <1>3 DEF AllLinearized, Return
  <2>2. PICK t : /\ search' = [search EXCEPT ![k] = t] /\ SearchInv(t)
                 /\ Ended(s, t, [i \in DOMAIN s.longest |-> Linearization(s)])
    BY <1>2, <1>3, AllShape
  <2> HIDE DEF s, ops
  <2>3. Sound(ops, verbose, t) /\ HasFull(ops) /\ Complete(ops, t.longest)
    BY <1>2, <2>1, <2>2, SoundAll
  <2>4. t.pc = "returned"
    BY <2>2 DEF Ended
  <2>5. Reports(k, t, TRUE)
    BY <2>1, <2>3, <2>4 DEF Reports, ops
  <2>6. Shape(t)
    BY <2>2, <2>3, <2>5
  <2> QED BY <1>1, <2>6 DEF ops, s
<1>4. CASE Killed(k)
  <2>1. kill /\ results' = Append(results, FALSE)
    BY <1>4 DEF Killed, Return
  <2>2. PICK t : search' = [search EXCEPT ![k] = t] /\ SearchInv(t) /\ Ended(s, t, s.longest)
    BY <1>2, <1>4, EndShape
  <2> HIDE DEF s, ops
  <2>3. Sound(ops, verbose, t)
    BY <1>2, <2>2, SoundEnd
  <2>4. t.pc = "returned"
    BY <2>2 DEF Ended
  <2>5. Reports(k, t, FALSE)
    BY <2>1, <2>4 DEF Reports, KillInv
  <2>6. Shape(t)
    BY <2>2, <2>3, <2>5
  <2> QED BY <1>1, <2>6 DEF ops, s
<1>5. CASE NoneLinearized(k)
  <2>1. /\ s.next[0] # End(s) /\ ~IsCall(s, s.entry) /\ s.calls = <<>> /\ results' = Append(results, FALSE)
    BY <1>5 DEF NoneLinearized, Running, Return
  <2>2. PICK t : search' = [search EXCEPT ![k] = t] /\ SearchInv(t) /\ Ended(s, t, s.longest)
    BY <1>2, <1>5, EndShape
  <2> HIDE DEF s, ops
  <2>3. Sound(ops, verbose, t)
    BY <1>2, <2>2, SoundEnd
  <2>4. t.pc = "returned" /\ t.longest = s.longest
    BY <2>2 DEF Ended
  <2>5. ~HasFull(ops) /\ (verbose => Complete(ops, s.longest))
    BY <1>1, <1>2, <2>1, SoundNone
  <2>6. Reports(k, t, FALSE)
    BY <2>1, <2>4, <2>5 DEF Reports, ops
  <2>7. Shape(t)
    BY <2>2, <2>3, <2>6
  <2> QED BY <1>1, <2>7 DEF ops, s
<1>6. CASE TryCall(k)
  <2> DEFINE id == s.entries[s.entry].id
             step == KvStep(s.state, ops[id])
             st == step.state
             ca == s.cache \cup {[linearized |-> Set(s.linearized, id), state |-> st]}
  <2>1. s.next[0] # End(s) /\ IsCall(s, s.entry) /\ results' = results
    BY <1>6 DEF TryCall, Running, Continue
  <2>2. PICK t : /\ search' = [search EXCEPT ![k] = t] /\ SearchInv(t)
                 /\ IF CanTry(k, s) THEN Pushed(s, t, ca, st) ELSE Skipped(s, t)
    BY <1>2, <1>6, TryShape
  <2>3. t.pc = "loop"
    BY <1>1, <2>2 DEF Pushed, Skipped
  <2>4. CanTry(k, s) <=> step.ok /\ ~CacheContains(s, Set(s.linearized, id), st)
    BY DEF CanTry
  <2> HIDE DEF s, ops
  <2>5. Sound(ops, verbose, t)
    <3>1. CASE CanTry(k, s)
      <4>1. Pushed(s, t, ca, st) /\ KvStep(s.state, ops[id]).ok
        BY <2>2, <2>4, <3>1
      <4> HIDE DEF ca
      <4>2. ca = s.cache \cup {[linearized |-> Set(s.linearized, id), state |-> st]}
        BY DEF ca
      <4>3. st = KvStep(s.state, ops[id]).state /\ id = s.entries[s.entry].id
        OBVIOUS
      <4> HIDE DEF st, id, step
      <4> QED BY <1>1, <1>2, <2>1, <2>2, <4>1, <4>2, <4>3, SoundPush
    <3>2. CASE ~CanTry(k, s)
      <4>1. Skipped(s, t) /\ (KvStep(s.state, ops[id]).ok =>
                                 CacheContains(s, Set(s.linearized, id), KvStep(s.state, ops[id]).state))
        BY <2>2, <2>4, <3>2
      <4>2. id = s.entries[s.entry].id
        OBVIOUS
      <4> HIDE DEF id
      <4> QED BY <1>1, <1>2, <2>1, <2>2, <4>1, <4>2, SoundSkip
    <3> QED BY <3>1, <3>2
  <2>6. GoesOn(k, t)
    BY <2>1, <2>3 DEF GoesOn
  <2>7. Shape(t)
    BY <2>2, <2>5, <2>6
  <2> QED BY <1>1, <2>7 DEF ops, s
<1>7. CASE Backtrack(k)
  <2> DEFINE lo == IF verbose THEN Longest(s) ELSE s.longest
  <2>1. s.next[0] # End(s) /\ ~IsCall(s, s.entry) /\ s.calls # <<>> /\ results' = results
    BY <1>7 DEF Backtrack, Running, Continue
  <2>2. PICK t : /\ search' = [search EXCEPT ![k] = t] /\ SearchInv(t)
                 /\ Undone(s, t, lo, s.calls[Len(s.calls)].state)
    BY <1>2, <1>7, BackShape
  <2>3. t.pc = "loop"
    BY <1>1, <2>2 DEF Undone
  <2> HIDE DEF s, ops
  <2>4. lo = IF verbose THEN Longest(s) ELSE s.longest
    OBVIOUS
  <2> HIDE DEF lo
  <2>5. Sound(ops, verbose, t)
    BY <1>1, <1>2, <2>1, <2>2, <2>4, SoundUndo
  <2>6. GoesOn(k, t)
    BY <2>1, <2>3 DEF GoesOn
  <2>7. Shape(t)
    BY <2>2, <2>5, <2>6
  <2> QED BY <1>1, <2>7 DEF ops, s
<1> QED BY <1>3, <1>4, <1>5, <1>6, <1>7 DEF CheckSingle

\* The invariant holds initially.
LEMMA CheckInit == Init => CheckInv
<1> SUFFICES ASSUME Init PROVE CheckInv
  OBVIOUS
<1>1. /\ history \in Histories /\ verbose \in BOOLEAN /\ timed \in BOOLEAN
      /\ search = [k \in Partitions |-> NewSearch(k)] /\ results = <<>>
      /\ kill = FALSE /\ ok = TRUE /\ timedOut = FALSE /\ count = 0
      /\ pc = "loop" /\ verdict = "none" /\ partials = {} /\ page = NoPage
  BY DEF Init
<1>2. <<>> \in Seq(BOOLEAN) /\ Len(<<>>) = 0 /\ 1..0 = {}
  OBVIOUS
<1>3. TypesInv
  BY <1>1, <1>2 DEF TypesInv
<1>4. SearchesInv
  <2>1. \A k \in Partitions : Sound(Part(k), verbose, NewSearch(k))
    BY <1>1, SoundNew
  <2> QED BY <1>1, <2>1, ListInit DEF SearchesInv
<1>5. Returned = {}
  <2>1. \A k \in Partitions : search[k].pc = "loop"
    BY <1>1 DEF NewSearch
  <2> QED BY <2>1 DEF Returned
<1>6. CountInv
  BY <1>1, <1>2, <1>5, FS_EmptySet DEF CountInv
<1>7. KillInv /\ LongestDone /\ PartialsInv
  BY <1>1, <1>5 DEF KillInv, LongestDone, PartialsInv
<1>8. ~Bad(results)
  BY <1>1, <1>2 DEF Bad
<1>9. VerdictInv
  BY <1>1, <1>5, <1>8 DEF VerdictInv
<1> QED BY <1>3, <1>4, <1>6, <1>7, <1>9 DEF CheckInv

\* What depends on the searches only.
LEMMA SearchesSame ==
    ASSUME UNCHANGED <<history, verbose, search>>
    PROVE  /\ SearchesInv => SearchesInv'
           /\ Partitions' = Partitions /\ Returned' = Returned /\ Found' = Found
           /\ \A k : Part(k)' = Part(k) /\ Ids(k)' = Ids(k)
<1>1. Partitions' = Partitions /\ \A k : Part(k)' = Part(k) /\ Ids(k)' = Ids(k)
  BY SamePart
<1>2. Returned' = Returned /\ Found' = Found
  BY <1>1 DEF Returned, Found
<1>3. ASSUME SearchesInv PROVE SearchesInv'
  <2>1. ListIInv'
    BY <1>1, <1>3 DEF SearchesInv, ListIInv
  <2>2. \A k \in Partitions : Sound(Part(k), verbose, search[k])
    BY <1>3 DEF SearchesInv
  <2>3. (\A k \in Partitions : Sound(Part(k), verbose, search[k]))'
    BY <1>1, <2>2
  <2> QED BY <1>3, <2>1, <2>3 DEF SearchesInv
<1> QED BY <1>1, <1>2, <1>3

\* All partitions have been counted: there is nothing left in the channel.
LEMMA AllCounted ==
    ASSUME history \in Histories, NEW c \in Nat, NEW r \in Seq(BOOLEAN),
           c + Len(r) = Cardinality(Returned), c >= Cardinality(Partitions)
    PROVE  Returned = Partitions /\ ~Bad(r)
<1>1. /\ IsFiniteSet(Partitions) /\ Cardinality(Partitions) \in Nat
      /\ IsFiniteSet(Returned) /\ Returned \in SUBSET Partitions
  BY PartitionsFinite
<1>2. Cardinality(Returned) \in Nat /\ Cardinality(Returned) <= Cardinality(Partitions)
  BY <1>1, FS_Subset, FS_CardinalityType
<1>3. Len(r) \in Nat
  OBVIOUS
<1>4. Len(r) = 0 /\ Cardinality(Returned) = Cardinality(Partitions)
  BY <1>1, <1>2, <1>3
<1>5. Returned = Partitions
  BY <1>1, <1>4, FS_Subset
<1>6. ~Bad(r)
  BY <1>4 DEF Bad
<1> QED BY <1>5, <1>6

\* A step of a search keeps the invariant.
LEMMA SingleStep ==
    ASSUME CheckInv, NEW k \in Partitions, CheckSingle(k)
    PROVE  CheckInv'
<1>1. TypesInv /\ SearchesInv /\ CountInv /\ KillInv /\ VerdictInv /\ LongestDone /\ PartialsInv
  BY DEF CheckInv
<1>2. search[k].pc = "loop" /\ UNCHANGED <<argVars, mainVars, page>>
  BY <1>1, SingleShape
<1>3. PICK t : /\ search' = [search EXCEPT ![k] = t] /\ SearchInv(t) /\ Sound(Part(k), verbose, t)
               /\ GoesOn(k, t) \/ \E b : Reports(k, t, b)
  BY <1>1, SingleShape
<1>4. /\ history' = history /\ verbose' = verbose /\ timed' = timed /\ kill' = kill /\ ok' = ok
      /\ timedOut' = timedOut /\ count' = count /\ pc' = pc /\ verdict' = verdict
      /\ partials' = partials /\ page' = page
  BY <1>2 DEF argVars, mainVars
<1>5. Partitions' = Partitions /\ \A j : Part(j)' = Part(j) /\ Ids(j)' = Ids(j)
  BY <1>4, SamePart
<1>6. \A j \in Partitions : search'[j] = IF j = k THEN t ELSE search[j]
  BY <1>1, <1>3 DEF SearchesInv, ListIInv
<1>7. SearchesInv'
  <2>1. ListIInv'
    BY <1>1, <1>3, <1>4, OneSearch DEF SearchesInv
  <2>2. \A j \in Partitions : Sound(Part(j), verbose, search'[j])
    BY <1>1, <1>3, <1>6 DEF SearchesInv
  <2>3. (\A j \in Partitions : Sound(Part(j), verbose, search[j]))'
    BY <1>4, <1>5, <2>2
  <2>4. history \in Histories
    BY <1>1 DEF SearchesInv
  <2> QED BY <1>4, <2>1, <2>3, <2>4 DEF SearchesInv
<1>8. PartialsInv'
  <2>1. ~(pc = "done" /\ verbose)
    BY <1>1, <1>2 DEF PartialsInv, Returned
  <2> QED BY <1>1, <1>4, <2>1 DEF PartialsInv
<1>9. KillInv'
  BY <1>1, <1>4 DEF KillInv
<1>10. k \notin Returned
  BY <1>2 DEF Returned
<1>11. CASE GoesOn(k, t)
  <2>1. results' = results /\ t.pc = "loop"
    BY <1>11 DEF GoesOn
  <2>2. Returned' = Returned
    BY <1>2, <1>5, <1>6, <2>1 DEF Returned
  <2>3. TypesInv' /\ CountInv'
    BY <1>1, <1>4, <2>1, <2>2 DEF TypesInv, CountInv
  <2>4. \A j \in Returned : j \in Partitions /\ search'[j] = search[j]
    BY <1>6, <1>10 DEF Returned
  <2>5. LongestDone'
    <3>1. verbose /\ ~timedOut => \A j \in Returned : Complete(Part(j), search'[j].longest)
      BY <1>1, <2>4 DEF LongestDone
    <3> QED BY <1>4, <1>5, <2>2, <3>1 DEF LongestDone
  <2>6. VerdictInv'
    BY <1>1, <1>4, <1>5, <2>1, <2>2 DEF VerdictInv
  <2> QED BY <1>7, <1>8, <1>9, <2>3, <2>5, <2>6 DEF CheckInv
<1>12. ASSUME NEW b, Reports(k, t, b) PROVE CheckInv'
  <2>1. /\ t.pc = "returned" /\ b \in BOOLEAN /\ results' = Append(results, b)
        /\ b => HasFull(Part(k))
        /\ ~b /\ ~kill => ~HasFull(Part(k))
        /\ verbose /\ ~timedOut => Complete(Part(k), t.longest)
    BY <1>12 DEF Reports
  <2>2. Returned' = Returned \cup {k}
    BY <1>5, <1>6, <2>1 DEF Returned
  <2>3. results' \in Seq(BOOLEAN) /\ Len(results') = Len(results) + 1 /\ (Bad(results') <=> Bad(results) \/ ~b)
    BY <1>1, <2>1, BadAppend DEF TypesInv
  <2>4. TypesInv'
    BY <1>1, <1>4, <2>3 DEF TypesInv
  <2>5. CountInv'
    <3>1. IsFiniteSet(Returned)
      BY <1>1, PartitionsFinite DEF SearchesInv
    <3>2. Cardinality(Returned \cup {k}) = Cardinality(Returned) + 1
      BY <1>10, <3>1, FS_AddElement
    <3>3. Cardinality(Returned) \in Nat
      BY <3>1, FS_CardinalityType
    <3>4. count \in Nat /\ Len(results) \in Nat
      BY <1>1 DEF TypesInv
    <3> QED BY <1>1, <1>4, <2>2, <2>3, <3>2, <3>3, <3>4 DEF CountInv
  <2>6. LongestDone'
    <3>1. \A j \in Returned : j \in Partitions /\ search'[j] = search[j]
      BY <1>6, <1>10 DEF Returned
    <3>2. search'[k] = t
      BY <1>6
    <3>3. verbose /\ ~timedOut => \A j \in Returned \cup {k} : Complete(Part(j), search'[j].longest)
      BY <1>1, <2>1, <3>1, <3>2 DEF LongestDone
    <3> QED BY <1>4, <1>5, <2>2, <3>3 DEF LongestDone
  <2>7. VerdictInv'
    <3>1. pc = "loop" => ~kill /\ ~timedOut
                         /\ \A j \in Returned \cup {k} : HasFull(Part(j)) \/ ~ok \/ Bad(results')
      BY <1>1, <2>1, <2>3 DEF VerdictInv
    <3>2. ~ok \/ (~kill /\ Bad(results')) => \E j \in Partitions : ~HasFull(Part(j))
      BY <1>1, <2>1, <2>3 DEF VerdictInv
    <3>3. /\ pc # "loop" /\ ok /\ ~timedOut => \A j \in Partitions : HasFull(Part(j))
          /\ pc = "done" => verdict = IF ~ok THEN "Illegal" ELSE IF timedOut THEN "Unknown" ELSE "Ok"
      BY <1>1 DEF VerdictInv
    <3> QED BY <1>4, <1>5, <2>2, <3>1, <3>2, <3>3 DEF VerdictInv
  <2> QED BY <1>7, <1>8, <1>9, <2>4, <2>5, <2>6, <2>7 DEF CheckInv
<1> QED BY <1>3, <1>11, <1>12

\* A timeout keeps the invariant: from then on no result is taken into account.
LEMMA TimeoutStep == CheckInv /\ Timeout => CheckInv'
<1> SUFFICES ASSUME CheckInv, Timeout PROVE CheckInv'
  OBVIOUS
<1>1. TypesInv /\ SearchesInv /\ CountInv /\ KillInv /\ VerdictInv /\ LongestDone /\ PartialsInv
  BY DEF CheckInv
<1>2. /\ pc = "loop" /\ timed /\ timedOut' = TRUE /\ kill' = TRUE /\ pc' = "finish"
      /\ history' = history /\ verbose' = verbose /\ timed' = timed /\ search' = search
      /\ results' = results /\ ok' = ok /\ count' = count /\ verdict' = verdict
      /\ partials' = partials /\ page' = page
  BY DEF Timeout, argVars
<1>3. /\ SearchesInv' /\ Partitions' = Partitions /\ Returned' = Returned
      /\ \A k : Part(k)' = Part(k) /\ Ids(k)' = Ids(k)
  BY <1>1, <1>2, SearchesSame
<1>4. TypesInv' /\ CountInv' /\ KillInv'
  BY <1>1, <1>2, <1>3 DEF TypesInv, CountInv, KillInv
<1>5. LongestDone'
  BY <1>2 DEF LongestDone
<1>6. VerdictInv'
  <2>1. ~ok => \E k \in Partitions : ~HasFull(Part(k))
    BY <1>1 DEF VerdictInv
  <2> QED BY <1>2, <1>3, <2>1 DEF VerdictInv
<1>7. PartialsInv'
  BY <1>1, <1>2 DEF PartialsInv
<1> QED BY <1>3, <1>4, <1>5, <1>6, <1>7 DEF CheckInv

\* Taking a result into account keeps the invariant.
LEMMA ReceiveStep == CheckInv /\ ReceiveResult => CheckInv'
<1> SUFFICES ASSUME CheckInv, ReceiveResult PROVE CheckInv'
  OBVIOUS
<1>1. TypesInv /\ SearchesInv /\ CountInv /\ KillInv /\ VerdictInv /\ LongestDone /\ PartialsInv
  BY DEF CheckInv
<1> DEFINE enough == (~ok' /\ ~verbose) \/ count' >= Cardinality(Partitions)
<1>2. /\ pc = "loop" /\ results # <<>> /\ results' = Tail(results) /\ count' = count + 1
      /\ ok' = (ok /\ Head(results)) /\ kill' = (kill \/ (~ok' /\ ~verbose))
      /\ pc' = IF enough THEN "finish" ELSE "loop"
      /\ history' = history /\ verbose' = verbose /\ timed' = timed /\ search' = search
      /\ timedOut' = timedOut /\ verdict' = verdict /\ partials' = partials /\ page' = page
  BY DEF ReceiveResult, argVars
<1>2a. count' = count + 1
  BY DEF ReceiveResult
<1>3. /\ SearchesInv' /\ Partitions' = Partitions /\ Returned' = Returned
      /\ \A k : Part(k)' = Part(k) /\ Ids(k)' = Ids(k)
  BY <1>1, <1>2, SearchesSame
<1>4. /\ results' \in Seq(BOOLEAN) /\ Len(results') = Len(results) - 1 /\ Head(results) \in BOOLEAN
      /\ Len(results) \in Nat \ {0} /\ (Bad(results) <=> ~Head(results) \/ Bad(results'))
  BY <1>1, <1>2, BadTail DEF TypesInv
<1>5. pc' \in {"loop", "finish"} /\ (pc' = "loop" <=> ~enough) /\ ok' \in BOOLEAN /\ kill' \in BOOLEAN
  BY <1>1, <1>2, <1>4 DEF TypesInv
<1> HIDE DEF enough
<1>6. TypesInv'
  <2>1. count' \in Nat
    BY <1>1, <1>2a DEF TypesInv
  <2> QED BY <1>1, <1>2, <1>4, <1>5, <2>1 DEF TypesInv
<1>7. CountInv'
  <2>1. count \in Nat
    BY <1>1 DEF TypesInv
  <2>2. Len(results') = Len(results) - 1 /\ Len(results) \in Nat
    BY <1>4
  <2>3. count' + Len(results') = count + Len(results)
    BY <1>2a, <2>1, <2>2
  <2> QED BY <1>1, <1>3, <2>3 DEF CountInv
<1>8. ~kill /\ ~timedOut /\ \A k \in Returned : HasFull(Part(k)) \/ ~ok \/ Bad(results)
  BY <1>1, <1>2 DEF VerdictInv
<1>9. KillInv'
  BY <1>1, <1>2, <1>8 DEF KillInv
<1>10. LongestDone'
  BY <1>1, <1>2, <1>3 DEF LongestDone
<1>11. \A k \in Returned : HasFull(Part(k)) \/ ~ok' \/ Bad(results')
  BY <1>2, <1>4, <1>8
<1>12. ~ok' \/ Bad(results') => \E k \in Partitions : ~HasFull(Part(k))
  BY <1>1, <1>2, <1>4, <1>8 DEF VerdictInv
<1>13. pc' # "loop" /\ ok' => \A k \in Partitions : HasFull(Part(k))
  <2> SUFFICES ASSUME pc' # "loop", ok' PROVE \A k \in Partitions : HasFull(Part(k))
    OBVIOUS
  <2>1. count' >= Cardinality(Partitions)
    BY <1>5 DEF enough
  <2>2. count' \in Nat /\ results' \in Seq(BOOLEAN) /\ count' + Len(results') = Cardinality(Returned)
    BY <1>3, <1>6, <1>7 DEF TypesInv, CountInv
  <2>3. Returned = Partitions /\ ~Bad(results')
    BY <1>1, <2>1, <2>2, AllCounted DEF SearchesInv
  <2> QED BY <1>11, <2>3
<1>14. VerdictInv'
  <2>1. pc' = "loop" => ~kill' /\ ~timedOut'
    BY <1>2, <1>5, <1>8 DEF enough
  <2>2. pc' # "done"
    BY <1>5
  <2> QED BY <1>3, <1>11, <1>12, <1>13, <2>1, <2>2 DEF VerdictInv
<1>15. PartialsInv'
  <2>1. pc' # "done"
    BY <1>5
  <2> QED BY <1>1, <1>2, <2>1 DEF PartialsInv
<1> QED BY <1>3, <1>6, <1>7, <1>9, <1>10, <1>14, <1>15 DEF CheckInv

\* Waiting for the searches that still run keeps the invariant.
LEMMA DrainStep == CheckInv /\ Drain => CheckInv'
<1> SUFFICES ASSUME CheckInv, Drain PROVE CheckInv'
  OBVIOUS
<1>1. TypesInv /\ SearchesInv /\ CountInv /\ KillInv /\ VerdictInv /\ LongestDone /\ PartialsInv
  BY DEF CheckInv
<1>2. /\ pc = "finish" /\ results # <<>> /\ results' = Tail(results) /\ count' = count + 1
      /\ history' = history /\ verbose' = verbose /\ timed' = timed /\ search' = search
      /\ kill' = kill /\ ok' = ok /\ pc' = pc
      /\ timedOut' = timedOut /\ verdict' = verdict /\ partials' = partials /\ page' = page
  BY DEF Drain, argVars
<1>3. /\ SearchesInv' /\ Partitions' = Partitions /\ Returned' = Returned
      /\ \A k : Part(k)' = Part(k) /\ Ids(k)' = Ids(k)
  BY <1>1, <1>2, SearchesSame
<1>4. /\ results' \in Seq(BOOLEAN) /\ Len(results') = Len(results) - 1
      /\ Len(results) \in Nat \ {0} /\ (Bad(results') => Bad(results))
  BY <1>1, <1>2, BadTail DEF TypesInv
<1>5. TypesInv'
  BY <1>1, <1>2, <1>4 DEF TypesInv
<1>6. CountInv'
  <2>1. count \in Nat
    BY <1>1 DEF TypesInv
  <2>2. count' + Len(results') = count + Len(results)
    BY <1>2, <1>4, <2>1
  <2> QED BY <1>1, <1>3, <2>2 DEF CountInv
<1>7. KillInv' /\ LongestDone'
  BY <1>1, <1>2, <1>3 DEF KillInv, LongestDone
<1>8. VerdictInv'
  BY <1>1, <1>2, <1>3, <1>4 DEF VerdictInv
<1>9. PartialsInv'
  BY <1>1, <1>2 DEF PartialsInv
<1> QED BY <1>3, <1>5, <1>6, <1>7, <1>8, <1>9 DEF CheckInv

\* The end of checkParallel keeps the invariant.
LEMMA FinishStep == CheckInv /\ Finish => CheckInv'
<1> SUFFICES ASSUME CheckInv, Finish PROVE CheckInv'
  OBVIOUS
<1>1. TypesInv /\ SearchesInv /\ CountInv /\ KillInv /\ VerdictInv /\ LongestDone /\ PartialsInv
  BY DEF CheckInv
<1>2. /\ pc = "finish" /\ (verbose => count = Cardinality(Partitions)) /\ pc' = "done"
      /\ partials' = (IF verbose THEN Found ELSE {})
      /\ verdict' = IF ~ok THEN "Illegal" ELSE IF timedOut THEN "Unknown" ELSE "Ok"
      /\ history' = history /\ verbose' = verbose /\ timed' = timed /\ search' = search
      /\ results' = results /\ kill' = kill /\ ok' = ok /\ timedOut' = timedOut
      /\ count' = count /\ page' = page
  BY DEF Finish, Found, argVars
<1>3. /\ SearchesInv' /\ Partitions' = Partitions /\ Returned' = Returned /\ Found' = Found
      /\ \A k : Part(k)' = Part(k) /\ Ids(k)' = Ids(k)
  BY <1>1, <1>2, SearchesSame
<1>4. TypesInv' /\ CountInv' /\ KillInv' /\ LongestDone'
  BY <1>1, <1>2, <1>3 DEF TypesInv, CountInv, KillInv, LongestDone
<1>5. VerdictInv'
  BY <1>1, <1>2, <1>3 DEF VerdictInv
<1>6. verbose => Returned = Partitions
  <2> SUFFICES ASSUME verbose PROVE Returned = Partitions
    OBVIOUS
  <2>1. Cardinality(Partitions) \in Nat /\ history \in Histories
    BY <1>1, PartitionsFinite DEF SearchesInv
  <2>2. /\ count \in Nat /\ results \in Seq(BOOLEAN) /\ count + Len(results) = Cardinality(Returned)
        /\ count >= Cardinality(Partitions)
    BY <1>1, <1>2, <2>1 DEF TypesInv, CountInv
  <2> QED BY <2>1, <2>2, AllCounted
<1>7. page = NoPage
  BY <1>1, <1>2 DEF PartialsInv
<1>8. PartialsInv'
  BY <1>1, <1>2, <1>3, <1>6, <1>7 DEF PartialsInv, TypesInv
<1> QED BY <1>3, <1>4, <1>5, <1>8 DEF CheckInv

\* Every partial linearization is a run of its partition.
LEMMA PartialRun ==
    ASSUME CheckInv, NEW p \in partials
    PROVE  \E k \in Partitions : \E i \in Ids(k) : \E sts :
               p = <<k, search[k].longest[i]>> /\ IsRun(Part(k), search[k].longest[i], sts)
<1>1. SearchesInv /\ PartialsInv
  BY DEF CheckInv
<1>2. p \in Found
  BY <1>1 DEF PartialsInv
<1>3. PICK k \in Partitions : \E i \in Ids(k) : p = <<k, search[k].longest[i]>>
  BY <1>2 DEF Found
<1>4. PICK i \in Ids(k) : p = <<k, search[k].longest[i]>>
  BY <1>3
<1>5. i \in 1..Len(Part(k))
  BY <1>1, PartIndex DEF SearchesInv, Ids
<1>6. LongestInv(Part(k), search[k].longest)
  BY <1>1 DEF SearchesInv, Sound, WalkInv
<1>7. \E sts : IsRun(Part(k), search[k].longest[i], sts)
  BY <1>5, <1>6 DEF LongestInv
<1> QED BY <1>4, <1>7

\* The page: model.Step accepts every step of a partial linearization.
LEMMA VisualizeStep == CheckInv /\ Visualize => CheckInv'
<1> SUFFICES ASSUME CheckInv, Visualize PROVE CheckInv'
  OBVIOUS
<1>1. TypesInv /\ SearchesInv /\ CountInv /\ KillInv /\ VerdictInv /\ LongestDone /\ PartialsInv
  BY DEF CheckInv
<1>2. /\ pc = "done" /\ verbose
      /\ page' = IF \E p \in partials : ~Replay(p[1], p[2]) THEN [NoPage EXCEPT !.state = "panic"]
                 ELSE [state |-> "data", largest |-> [k \in Partitions |-> [i \in Ids(k) |-> Largest(k, i)]]]
      /\ history' = history /\ verbose' = verbose /\ timed' = timed /\ search' = search
      /\ results' = results /\ kill' = kill /\ ok' = ok /\ timedOut' = timedOut
      /\ count' = count /\ pc' = pc /\ verdict' = verdict /\ partials' = partials
  BY DEF Visualize, argVars, mainVars
<1>3. /\ SearchesInv' /\ Partitions' = Partitions /\ Returned' = Returned /\ Found' = Found
      /\ \A k : Part(k)' = Part(k) /\ Ids(k)' = Ids(k)
  BY <1>1, <1>2, SearchesSame
<1>4. TypesInv' /\ CountInv' /\ KillInv' /\ LongestDone' /\ VerdictInv'
  BY <1>1, <1>2, <1>3 DEF TypesInv, CountInv, KillInv, LongestDone, VerdictInv
<1>5. ASSUME NEW p \in partials PROVE Replay(p[1], p[2])
  <2>1. PICK k \in Partitions : \E i \in Ids(k) : \E sts :
            p = <<k, search[k].longest[i]>> /\ IsRun(Part(k), search[k].longest[i], sts)
    BY PartialRun
  <2>2. PICK i \in Ids(k) : \E sts : p = <<k, search[k].longest[i]>> /\ IsRun(Part(k), search[k].longest[i], sts)
    BY <2>1
  <2>3. Replay(k, search[k].longest[i])
    BY <1>1, <2>2, RunLegal DEF SearchesInv
  <2> QED BY <2>2, <2>3
<1>6. page' = [state |-> "data", largest |-> [k \in Partitions |-> [i \in Ids(k) |-> Largest(k, i)]]]
  BY <1>2, <1>5
<1>7. \A k, i : Largest(k, i)' = Largest(k, i)
  BY <1>2 DEF Largest, With
<1>8. [k \in Partitions |-> [i \in Ids(k) |-> Largest(k, i)]]' =
      [k \in Partitions |-> [i \in Ids(k) |-> Largest(k, i)]]
  BY <1>3, <1>7
<1>9. PartialsInv'
  BY <1>1, <1>2, <1>3, <1>6, <1>8 DEF PartialsInv
<1> QED BY <1>3, <1>4, <1>9 DEF CheckInv

\* Every step keeps the invariant.
LEMMA CheckStep == CheckInv /\ [Next]_vars => CheckInv'
<1> SUFFICES ASSUME CheckInv, [Next]_vars PROVE CheckInv'
  OBVIOUS
<1>1. ASSUME NEW k \in Partitions, CheckSingle(k) PROVE CheckInv'
  BY <1>1, SingleStep
<1>2. CASE CheckParallel
  BY <1>2, TimeoutStep, ReceiveStep, DrainStep, FinishStep DEF CheckParallel
<1>3. CASE Visualize
  BY <1>3, VisualizeStep
<1>4. CASE UNCHANGED vars
  <2>1. /\ history' = history /\ verbose' = verbose /\ timed' = timed /\ search' = search
        /\ results' = results /\ kill' = kill /\ ok' = ok /\ timedOut' = timedOut /\ count' = count
        /\ pc' = pc /\ verdict' = verdict /\ partials' = partials /\ page' = page
    BY <1>4 DEF vars, argVars, mainVars
  <2>2. TypesInv /\ SearchesInv /\ CountInv /\ KillInv /\ VerdictInv /\ LongestDone /\ PartialsInv
    BY DEF CheckInv
  <2>3. /\ SearchesInv' /\ Partitions' = Partitions /\ Returned' = Returned /\ Found' = Found
        /\ \A k : Part(k)' = Part(k) /\ Ids(k)' = Ids(k)
    BY <2>1, <2>2, SearchesSame
  <2>4. TypesInv' /\ CountInv' /\ KillInv' /\ LongestDone' /\ VerdictInv'
    BY <2>1, <2>2, <2>3 DEF TypesInv, CountInv, KillInv, LongestDone, VerdictInv
  <2>5. \A k, i : Largest(k, i)' = Largest(k, i)
    BY <2>1 DEF Largest, With
  <2>6. [k \in Partitions |-> [i \in Ids(k) |-> Largest(k, i)]]' =
        [k \in Partitions |-> [i \in Ids(k) |-> Largest(k, i)]]
    BY <2>3, <2>5
  <2>7. PartialsInv'
    BY <2>1, <2>2, <2>3, <2>6 DEF PartialsInv
  <2> QED BY <2>3, <2>4, <2>7 DEF CheckInv
<1> QED BY <1>1, <1>2, <1>3, <1>4 DEF Next

\* The invariant implies that the verdict is right.
LEMMA CheckVerdict == CheckInv => VerdictRight
<1> SUFFICES ASSUME CheckInv, pc = "done"
             PROVE  CASE verdict = "Ok" -> Linearizable
                      [] verdict = "Illegal" -> ~Linearizable
                      [] OTHER -> timed /\ timedOut
  BY DEF VerdictRight
<1>1. TypesInv /\ SearchesInv /\ KillInv /\ VerdictInv
  BY DEF CheckInv
<1>2. Linearizable <=> \A k \in Partitions : HasFull(Part(k))
  BY <1>1, Locality DEF SearchesInv
<1>3. verdict = IF ~ok THEN "Illegal" ELSE IF timedOut THEN "Unknown" ELSE "Ok"
  BY <1>1 DEF VerdictInv
<1>4. CASE ~ok
  <2>1. verdict = "Illegal" /\ verdict # "Ok"
    BY <1>3, <1>4
  <2>2. ~Linearizable
    BY <1>1, <1>2, <1>4 DEF VerdictInv
  <2> QED BY <2>1, <2>2
<1>5. CASE ok /\ timedOut
  <2>1. verdict # "Illegal" /\ verdict # "Ok"
    BY <1>3, <1>5
  <2>2. timed
    BY <1>1, <1>5 DEF KillInv
  <2> QED BY <1>5, <2>1, <2>2
<1>6. CASE ok /\ ~timedOut
  <2>1. verdict = "Ok" /\ verdict # "Illegal"
    BY <1>3, <1>6
  <2>2. Linearizable
    BY <1>1, <1>2, <1>6 DEF VerdictInv
  <2> QED BY <2>1, <2>2
<1> QED BY <1>4, <1>5, <1>6

\* The invariant implies that the partial linearizations are legal.
LEMMA CheckPartials == CheckInv => PartialsLegal
<1> SUFFICES ASSUME CheckInv PROVE PartialsLegal
  OBVIOUS
<1>1. page.state # "panic"
  BY DEF CheckInv, PartialsInv, NoPage
<1>2. ASSUME NEW p \in partials PROVE Legal(Part(p[1]), p[2])
  <2>1. PICK k \in Partitions : \E i \in Ids(k) : \E sts :
            p = <<k, search[k].longest[i]>> /\ IsRun(Part(k), search[k].longest[i], sts)
    BY PartialRun
  <2>2. PICK i \in Ids(k) : \E sts : p = <<k, search[k].longest[i]>> /\ IsRun(Part(k), search[k].longest[i], sts)
    BY <2>1
  <2>3. history \in Histories
    BY DEF CheckInv, SearchesInv
  <2>4. Legal(Part(k), search[k].longest[i])
    BY <2>2, <2>3, RunLegal
  <2> QED BY <2>2, <2>4
<1> QED BY <1>1, <1>2 DEF PartialsLegal

\* Of sequences of bounded length one is longest.
LEMMA LongestExists ==
    ASSUME NEW W, NEW N \in Nat, \A p \in W : Len(p) \in 0..N, NEW w \in W
    PROVE  \E p \in W : \A q \in W : Len(p) >= Len(q)
<1> DEFINE T == {N - Len(p) : p \in W}
<1>1. \A x \in T : x \in Nat
  OBVIOUS
<1>2. N - Len(w) \in T
  OBVIOUS
<1>3. PICK x \in T : \A y \in T : x <= y
  <2> HIDE DEF T
  <2> QED BY <1>1, <1>2, Least
<1>4. PICK p \in W : x = N - Len(p)
  OBVIOUS
<1>5. ASSUME NEW q \in W PROVE Len(p) >= Len(q)
  <2>1. N - Len(p) <= N - Len(q)
    BY <1>3, <1>4
  <2>2. Len(p) \in 0..N /\ Len(q) \in 0..N
    OBVIOUS
  <2> QED BY <2>1, <2>2
<1> QED BY <1>5

\* What the page shows for an operation is at least as long as what was recorded for it.
LEMMA ShownLongest ==
    ASSUME CheckInv, pc = "done", verbose, NEW k \in Partitions, NEW i \in Ids(k),
           search[k].longest[i] # <<>>
    PROVE  Len(Largest(k, i)) \in Nat /\ Len(Largest(k, i)) >= Len(search[k].longest[i])
<1> DEFINE W == With(k, i)
           w == search[k].longest[i]
           N == Len(Part(k))
<1>1. history \in Histories /\ PartialsInv /\ SearchesInv
  BY DEF CheckInv, SearchesInv
<1>2. N \in Nat /\ i \in 1..N
  BY <1>1, PartIndex DEF Ids
<1>3. partials = Found
  BY <1>1 DEF PartialsInv
<1>4. <<k, w>> \in partials
  <2> DEFINE A == {<<k, search[k].longest[x]>> : x \in Ids(k)}
             U == {{<<j, search[j].longest[x]>> : x \in Ids(j)} : j \in Partitions}
             E == {<<j, <<>>>> : j \in Partitions}
             z == <<k, w>>
  <2>1. z \in A
    OBVIOUS
  <2>2. z \notin E
    OBVIOUS
  <2>3. A \in U
    OBVIOUS
  <2>4. partials = (UNION U) \ E
    BY <1>3 DEF Found
  <2> HIDE DEF A, E, U, z
  <2>5. z \in partials
    BY <2>1, <2>2, <2>3, <2>4
  <2> QED BY <2>5 DEF z
<1>5. w \in W
  <2>1. LongestInv(Part(k), search[k].longest)
    BY <1>1 DEF SearchesInv, Sound, WalkInv
  <2>2. PICK sts : IsRun(Part(k), w, sts)
    BY <1>2, <2>1 DEF LongestInv
  <2>3. i \in First(w, Len(w))
    BY <1>2, <2>1 DEF LongestInv
  <2>4. DOMAIN w = 1..Len(w)
    <3> DEFINE T == 1..N
    <3>1. w \in Seq(T)
      BY <2>2 DEF IsRun
    <3> HIDE DEF T, w
    <3> QED BY <3>1
  <2> DEFINE p == <<k, w>>
  <2>5. p[1] = k /\ p[2] = w /\ p \in partials
    BY <1>4
  <2> HIDE DEF p, w
  <2>6. \E n \in DOMAIN p[2] : p[2][n] = i
    BY <2>3, <2>4, <2>5 DEF First
  <2> QED BY <2>5, <2>6 DEF With
<1>6. ASSUME NEW q \in W PROVE Len(q) \in 0..N
  <2>1. PICK p \in partials : p[1] = k /\ p[2] = q
    BY DEF With
  <2>2. PICK j \in Partitions : \E x \in Ids(j) : \E sts :
            p = <<j, search[j].longest[x]>> /\ IsRun(Part(j), search[j].longest[x], sts)
    BY PartialRun
  <2>3. j = k /\ \E sts : IsRun(Part(k), q, sts)
    BY <2>1, <2>2
  <2>4. PICK sts : IsRun(Part(k), q, sts)
    BY <2>3
  <2>5. Len(q) \in Nat
    <3> DEFINE T == 1..N
    <3>1. q \in Seq(T)
      BY <2>4 DEF IsRun
    <3> HIDE DEF T
    <3> QED BY <3>1
  <2>6. Len(q) \in 0..Len(q)
    BY <2>5
  <2>7. Cardinality(First(q, Len(q))) = Len(q) /\ First(q, Len(q)) \in SUBSET (1..N)
    BY <1>2, <2>4, <2>6, RunCount
  <2> HIDE DEF N
  <2>8. IsFiniteSet(1..N) /\ Cardinality(1..N) = N
    BY <1>2, Upto
  <2>9. Len(q) <= N
    <3> DEFINE F == First(q, Len(q))
               S == 1..N
    <3>1. IsFiniteSet(S) /\ Cardinality(S) = N /\ F \in SUBSET S /\ Cardinality(F) = Len(q)
      BY <2>7, <2>8
    <3> HIDE DEF F, S
    <3>2. Cardinality(F) <= Cardinality(S)
      BY <3>1, FS_Subset
    <3> QED BY <3>1, <3>2
  <2> QED BY <1>2, <2>5, <2>9
<1>7. Largest(k, i) = CHOOSE p \in W : \A q \in W : Len(p) >= Len(q)
  BY <1>5 DEF Largest
<1> HIDE DEF W, w, N
<1>8. \E p \in W : \A q \in W : Len(p) >= Len(q)
  BY <1>2, <1>5, <1>6, LongestExists
<1>9. Largest(k, i) \in W /\ Len(Largest(k, i)) >= Len(w)
  BY <1>5, <1>7, <1>8
<1>10. Len(Largest(k, i)) \in Nat
  BY <1>2, <1>6, <1>9
<1> QED BY <1>9, <1>10 DEF w

\* The invariant implies that the longest partial linearizations are found and shown.
LEMMA CheckLongest == CheckInv => PartialsLongest
<1> SUFFICES ASSUME CheckInv, pc = "done", verbose, ~timedOut, NEW k \in Partitions, NEW i \in Ids(k),
                    NEW order \in Arrangements(Ids(k)), i \in {order[n] : n \in DOMAIN order},
                    Legal(Part(k), order)
             PROVE  /\ Len(search[k].longest[i]) >= Len(order)
                    /\ page.state = "data" => Len(page.largest[k][i]) >= Len(order)
  BY DEF PartialsLongest
<1> DEFINE w == search[k].longest[i]
           N == Len(Part(k))
<1>1. history \in Histories /\ PartialsInv /\ SearchesInv /\ LongestDone
  BY DEF CheckInv, SearchesInv
<1>2. N \in Nat /\ Ids(k) = 1..N /\ i \in 1..N
  BY <1>1, PartIndex DEF Ids
<1>3. PICK sts : IsRun(Part(k), order, sts)
  BY <1>1, LegalRun
<1>4. Len(order) \in Nat /\ DOMAIN order = 1..Len(order)
  <2> DEFINE T == 1..N
  <2>1. order \in Seq(T)
    BY <1>3 DEF IsRun
  <2> HIDE DEF T
  <2> QED BY <2>1
<1>5. PICK n \in 1..Len(order) : order[n] = i
  BY <1>4
<1>6. Complete(Part(k), search[k].longest)
  BY <1>1 DEF LongestDone, PartialsInv
<1>7. Len(w) >= Len(order)
  BY <1>3, <1>5, <1>6 DEF Complete
<1>8. ASSUME page.state = "data" PROVE Len(page.largest[k][i]) >= Len(order)
  <2>1. page.largest[k][i] = Largest(k, i)
    <3>1. page = [state |-> "data", largest |-> [j \in Partitions |-> [x \in Ids(j) |-> Largest(j, x)]]]
      BY <1>1, <1>8 DEF PartialsInv, NoPage
    <3>2. page.largest = [j \in Partitions |-> [x \in Ids(j) |-> Largest(j, x)]]
      BY <3>1
    <3> QED BY <3>2
  <2>2. Len(w) \in Nat
    <3>1. LongestInv(Part(k), search[k].longest)
      BY <1>1 DEF SearchesInv, Sound, WalkInv
    <3>2. PICK st : IsRun(Part(k), w, st)
      BY <1>2, <3>1 DEF LongestInv
    <3> DEFINE T == 1..N
    <3>3. w \in Seq(T)
      BY <3>2 DEF IsRun
    <3> HIDE DEF T, w
    <3> QED BY <3>3
  <2>3. w # <<>>
    <3>1. Len(<<>>) = 0
      OBVIOUS
    <3> HIDE DEF w
    <3> QED BY <1>4, <1>5, <1>7, <2>2, <3>1
  <2>4. Len(Largest(k, i)) \in Nat /\ Len(Largest(k, i)) >= Len(w)
    BY <2>3, ShownLongest
  <2> QED BY <1>4, <1>7, <2>1, <2>2, <2>4
<1> QED BY <1>7, <1>8

\* The checker is right for every history, any number of keys and operations, whichever
\* partition ends first and whenever the timer fires: Ok only if the whole history is
\* linearizable, Illegal only if it is not, Unknown only after a timeout.
THEOREM PorcupineVerdict == Spec => []VerdictRight
<1>1. Init => CheckInv
  BY CheckInit
<1>2. CheckInv /\ [Next]_vars => CheckInv'
  BY CheckStep
<1>3. CheckInv => VerdictRight
  BY CheckVerdict
<1> QED BY <1>1, <1>2, <1>3, PTL DEF Spec

\* Every partial linearization that checkParallel returns respects real time and the model
\* accepts its steps, also after a timeout, so that computeVisualizationData never panics.
THEOREM PorcupinePartials == Spec => []PartialsLegal
<1>1. Init => CheckInv
  BY CheckInit
<1>2. CheckInv /\ [Next]_vars => CheckInv'
  BY CheckStep
<1>3. CheckInv => PartialsLegal
  BY CheckPartials
<1> QED BY <1>1, <1>2, <1>3, PTL DEF Spec

\* Without a timeout no legal sequence with an operation is longer than the one recorded for
\* it, although the cache cuts branches of the search, nor than the one the page shows.
THEOREM PorcupineLongest == Spec => []PartialsLongest
<1>1. Init => CheckInv
  BY CheckInit
<1>2. CheckInv /\ [Next]_vars => CheckInv'
  BY CheckStep
<1>3. CheckInv => PartialsLongest
  BY CheckLongest
<1> QED BY <1>1, <1>2, <1>3, PTL DEF Spec

=============================================================================
