------------------------------ MODULE MCQrLogin ------------------------------
(***************************************************************************)
(* QrLogin on small instances.                                             *)
(***************************************************************************)
EXTENDS QrLogin, TLC

Symmetry == Permutations(Req) \cup Permutations(Session) \cup Permutations(User)

=============================================================================
