---------------------------- MODULE MCSignSession ----------------------------
(***************************************************************************)
(* SignSession on small instances.                                         *)
(***************************************************************************)
EXTENDS SignSession, TLC

Symmetry == Permutations(Req) \cup Permutations(Socket) \cup Permutations(User)

\* Nothing is claimed of the connections of a disturbed session, and they change
\* nothing else: such a session is explored without them.
Explored == disturbed = {} \/ \A w \in Socket : sock[w] = Closed

=============================================================================
