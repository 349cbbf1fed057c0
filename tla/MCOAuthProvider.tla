--------------------------- MODULE MCOAuthProvider ---------------------------
(***************************************************************************)
(* OAuthProvider on small instances.                                       *)
(***************************************************************************)
EXTENDS OAuthProvider, TLC

Symmetry == Permutations(Req) \cup Permutations(Client) \cup Permutations(Uri)
                \cup Permutations(Code)

=============================================================================
