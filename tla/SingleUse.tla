------------------------------ MODULE SingleUse ------------------------------
(***************************************************************************)
(* What the program promises of everything it calls "single-use": a login  *)
(* exchange code, an OAuth authorization code, a one-time password, an     *)
(* OAuth state, a pending account link.  A ticket is issued once, and from *)
(* then on it is either used by exactly one request or lapses unused.      *)
(*                                                                         *)
(* The detailed modules keep such a ticket in Redis, in a row, or in both, *)
(* and read and delete it in one or in several steps.  Each of them maps   *)
(* its own state to the two variables below and is checked against Spec.   *)
(***************************************************************************)
EXTENDS Naturals

CONSTANT Ticket

VARIABLES
    status,   \* what each ticket is worth now
    uses      \* how many requests have been answered on its strength

vars == <<status, uses>>

Status == {"unissued", "live", "spent"}

TypeOK ==
    /\ status \in [Ticket -> Status]
    /\ uses \in [Ticket -> Nat]

Init ==
    /\ status = [k \in Ticket |-> "unissued"]
    /\ uses = [k \in Ticket |-> 0]

\* Tickets are issued; tickets run out of time, are withdrawn, or are consumed
\* by a request that then fails.  One step of a program may do both to many.
Turnover(Issued, Lapsed) ==
    /\ \A k \in Issued : status[k] = "unissued"
    /\ \A k \in Lapsed : status[k] = "live"
    /\ status' = [k \in Ticket |-> CASE k \in Issued -> "live"
                                     [] k \in Lapsed -> "spent"
                                     [] OTHER -> status[k]]
    /\ UNCHANGED uses

Use(k) ==
    /\ status[k] = "live"
    /\ status' = [status EXCEPT ![k] = "spent"]
    /\ uses' = [uses EXCEPT ![k] = @ + 1]

Next ==
    \/ \E k \in Ticket : Use(k)
    \/ \E Issued, Lapsed \in SUBSET Ticket : Turnover(Issued, Lapsed)

Spec == Init /\ [][Next]_vars

-----------------------------------------------------------------------------
\* No ticket is ever worth two answers.
UsedAtMostOnce == \A k \in Ticket : uses[k] <= 1

=============================================================================
