------------------------------- MODULE MCKeyValue -------------------------------
(* Two builds in the first group and one in the second.                      *)
EXTENDS KeyValue
MCGroup == [b \in Build |-> IF b = "b3" THEN 2 ELSE 1]
=============================================================================
