------------------------- MODULE MCLegacyConfirmation -------------------------
(***************************************************************************)
(* LegacyConfirmation for TLC, with callers as model values.               *)
(***************************************************************************)
EXTENDS LegacyConfirmation, TLC

\* Callers are interchangeable.
CallerSymmetry == Permutations(Caller)

\* The migration does not look at the graph, so it and the writes of other
\* clients are explored apart: once a migration has begun no edge was put back,
\* and only deletions of this store have taken edges away.
MigratesUndisturbed ==
  copies > 0 => /\ ~recreated
                /\ \A o \in Op \ present : \E n \in Nonce : <<n, o>> \in removed
=============================================================================
