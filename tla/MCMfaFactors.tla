---------------------------- MODULE MCMfaFactors ----------------------------
(***************************************************************************)
(* MfaFactors on small instances.                                          *)
(***************************************************************************)
EXTENDS MfaFactors, TLC

\* Requests, secrets and enrolled items are interchangeable.
Symmetry == Permutations(Req) \cup Permutations(Secret) \cup Permutations(Item)

=============================================================================
