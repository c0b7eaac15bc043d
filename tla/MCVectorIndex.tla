---------------------------- MODULE MCVectorIndex ----------------------------
(***************************************************************************)
(* VectorIndex for TLC: vertex ids are interchangeable, and so are the     *)
(* callers that rebuild.                                                   *)
(***************************************************************************)
EXTENDS VectorIndex

IdSymmetry == Permutations(Vid) \cup Permutations(Rebuilder)

\* The last rebuild starts, and goes on, when no query is under way: a query
\* writes nothing that it could meet.
QueriesEarly == rebuilds = MaxRebuilds => \A q \in Query : pc[q] = "idle"
==============================================================================
