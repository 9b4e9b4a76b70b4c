------------------------------ MODULE MCKvSrv ------------------------------
(* KvSrv for TLC: texts of one token, none of them the text of an error. *)
EXTENDS KvSrv

MCText == {<<t>> : t \in Token}
MCNoneReserved == {}

=============================================================================
