----------------------------- MODULE MCEidCards -----------------------------
(***************************************************************************)
(* Accounts and EidCards on small instances.                               *)
(***************************************************************************)
EXTENDS EidCards, TLC

CONSTANTS g1, a1, f1, t1, e1

MCProvider == g1 :> "google" @@ a1 :> "apple" @@ f1 :> "facebook" @@ t1 :> "twitter"

\* Google and Facebook tell the same e-mail, Apple hides it.
MCAddress == g1 :> e1 @@ a1 :> NoEmail @@ f1 :> e1 @@ t1 :> NoEmail

\* Which operations meet in one behaviour.
MCLoads == {
    {"google", "facebook", "confirm"},
    {"google", "email", "confirm"},
    {"apple", "twitter"},
    {"google", "verify", "confirm"},
    {"email", "verify", "dan", "phone"},
    {"email", "verify", "eid"},
    {"email", "dan", "eid"},
    {"email", "verify", "card"}}

Symmetry ==
    Permutations(Req) \cup Permutations(User) \cup Permutations(Citizen)
    \cup Permutations(State)

=============================================================================
