--------------------------- MODULE MCWriteProtocol ---------------------------
(***************************************************************************)
(* WriteProtocol for TLC.  The constants are given their values in the     *)
(* .cfg files: workers and reconcilers are model values.                   *)
(***************************************************************************)
EXTENDS WriteRefinement, TLC

\* Confirm calls are interchangeable, and so are resume and reconcile calls.
CallSymmetry ==
  Permutations(Worker \ Resumers) \cup Permutations(Resumers)
    \cup Permutations(Reconcilers)
=============================================================================
