--------------------------- MODULE MCFlowScheduler ---------------------------
(***************************************************************************)
(* FlowScheduler for TLC: a flow of two branches and the node that joins   *)
(* them, as in RAGGraphVectorFlow with the chain from keyword to graph     *)
(* taken as one node and vector, merge and answer as the others.           *)
(***************************************************************************)
EXTENDS FlowScheduler

Branches == [n \in Node |-> IF n = Final THEN Node \ {Final} ELSE {}]
==============================================================================
