-------------------------- MODULE MCOneTimePassword --------------------------
(***************************************************************************)
(* OneTimePassword on small instances.                                     *)
(***************************************************************************)
EXTENDS OneTimePassword, TLC

\* Codes, senders and verifiers are interchangeable.
Symmetry ==
    Permutations(Otp) \cup Permutations(Sender) \cup Permutations(Verifier)

\* Once two verifications are at work on a code, nothing more is said of it.
Explored == contested = {}

=============================================================================
