--------------------------- MODULE MCPushChallenge ---------------------------
(***************************************************************************)
(* PushChallenge on small instances.                                       *)
(***************************************************************************)
EXTENDS PushChallenge, TLC

Symmetry == Permutations(Req) \cup Permutations(Challenge)

=============================================================================
