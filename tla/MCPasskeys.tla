------------------------------ MODULE MCPasskeys ------------------------------
(***************************************************************************)
(* Passkeys, with the factors of MfaFactors, on small instances.           *)
(***************************************************************************)
EXTENDS Passkeys, TLC

\* Enrolling and removing every kind of factor; or the ceremonies of two tabs
\* while passkeys come and go.
MCLoads == {{"factors"}, {"register", "authenticate"}, {"register", "login"}}

\* Requests, enrolled items, tabs and challenges are interchangeable.
Symmetry ==
    Permutations(Req) \cup Permutations(Item)
      \cup Permutations(Tab) \cup Permutations(Challenge)

\* Once a removal has met another request little more is said of the factors;
\* and during ceremonies one request at a time changes them.
Explored ==
    /\ ~raced
    /\ load # {"factors"} => \A q, r \in Req : q # r => "idle" \in {req[q].pc, req[r].pc}

=============================================================================
