--------------------------- MODULE MCRecoveryCodes ---------------------------
(***************************************************************************)
(* RecoveryCodes on small instances.                                       *)
(***************************************************************************)
EXTENDS RecoveryCodes, TLC

\* Batches are interchangeable.
Symmetry == Permutations(Batch)

=============================================================================
