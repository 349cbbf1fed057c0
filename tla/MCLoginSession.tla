--------------------------- MODULE MCLoginSession ---------------------------
(***************************************************************************)
(* LoginSession on small instances.                                        *)
(***************************************************************************)
EXTENDS LoginSession, TLC

\* Requests are interchangeable; so are tokens, and exchange codes.
Symmetry == Permutations(Req) \cup Permutations(Token) \cup Permutations(Code)

=============================================================================
