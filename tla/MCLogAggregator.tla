---------------------------- MODULE MCLogAggregator ----------------------------
(* Every routine ends with its first message. The container's stream of one   *)
(* that succeeds has one more line after it, so that the workers also meet a  *)
(* routine they have already filed.                                           *)
EXTENDS LogAggregator
MCMaxMsg == [r \in Routine |-> IF r \in Failing THEN 1 ELSE 2]
MCEnding == [r \in Routine |-> 1]
=============================================================================
