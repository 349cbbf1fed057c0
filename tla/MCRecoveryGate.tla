---------------------------- MODULE MCRecoveryGate ----------------------------
(***************************************************************************)
(* RecoveryGate on small instances.                                        *)
(***************************************************************************)
EXTENDS RecoveryGate, TLC

\* Requests and batches are interchangeable.
Symmetry == Permutations(Req) \cup Permutations(Batch)

=============================================================================
