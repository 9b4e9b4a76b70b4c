---------------------------- MODULE MCPorcupine ----------------------------
(***************************************************************************)
(* Porcupine for TLC.  Histories of three operations, with all times in    *)
(* 1..3, in which every order of three intervals occurs, with and without  *)
(* equal times: a Put, a second operation on its key, and a third one,     *)
(* on that key or another, whose result may or may not fit.                *)
(***************************************************************************)
EXTENDS Porcupine

CONSTANTS k1, k2, a, b

MCKey == {k1, k2}
MCValue == Seq({a, b})

Put(v) == [Op |-> "put", Value |-> <<v>>, Output |-> <<>>]
Get(out) == [Op |-> "get", Value |-> <<>>, Output |-> out]
MCAppend(v) == [Op |-> "append", Value |-> <<v>>, Output |-> <<>>]
AppendReturning(v, out) == [Op |-> "appendReturning", Value |-> <<v>>, Output |-> out]

Second == {Put(b), MCAppend(b), Get(<<>>)}
Third == {Get(<<>>), Get(<<a>>), Get(<<a, b>>), AppendReturning(a, <<b>>)}
Times == {t \in (1..3) \X (1..3) : t[1] <= t[2]}

On(x, k, t) ==
    [Op |-> x.Op, Key |-> k, Value |-> x.Value, Output |-> x.Output, Call |-> t[1], Return |-> t[2]]
MCHistories ==
    {<<On(Put(a), k1, t), On(y, k1, u), On(z, k, v)>> :
        y \in Second, z \in Third, k \in MCKey, t \in Times, u \in Times, v \in Times}

=============================================================================
