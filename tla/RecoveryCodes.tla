---------------------------- MODULE RecoveryCodes ----------------------------
(***************************************************************************)
(* The recovery codes of one user (no statement touches those of two).     *)
(*                                                                         *)
(* Regeneration is one READ COMMITTED transaction: its DELETE sees the     *)
(* rows committed when the statement starts and locks them, its INSERTs    *)
(* become visible with the COMMIT.  Validation is a SELECT of the unused   *)
(* rows followed by an UPDATE of the one that matched, each committing on  *)
(* its own.  Requests interleave between these steps.                      *)
(***************************************************************************)
EXTENDS Naturals, FiniteSets

CONSTANTS
    Req,          \* requests that can be in progress at the same time
    Batch,        \* regenerations, each drawing codes nobody has seen
    PerBatch,     \* codes in a batch (the program draws 10)
    NoBatch

ASSUME RecoveryAssumption ==
    /\ PerBatch \in Nat \ {0}
    /\ NoBatch \notin Batch

Code == Batch \X (1..PerBatch)

VARIABLES
    row,       \* mfa_recovery_codes, as committed
    req,       \* requests in progress
    met,       \* history: pairs of batches whose regenerations overlapped
    accepted   \* history: validations answered yes, by code

vars == <<row, req, met, accepted>>

RowStatus == {"never", "unused", "used", "deleted"}

Idle == [pc |-> "idle", batch |-> NoBatch, codes |-> {}]

\* codes is the set a DELETE has locked, or the one code a SELECT has matched.
TypeOK ==
    /\ row \in [Code -> RowStatus]
    /\ req \in [Req -> [pc : {"idle", "insert", "mark"},
                        batch : Batch \cup {NoBatch}, codes : SUBSET Code]]
    /\ \A r \in Req : req[r].pc = "mark" => Cardinality(req[r].codes) = 1
    /\ met \subseteq SUBSET Batch
    /\ accepted \in [Code -> Nat]

Init ==
    /\ row = [c \in Code |-> "never"]
    /\ req = [r \in Req |-> Idle]
    /\ met = {}
    /\ accepted = [c \in Code |-> 0]

Present == {c \in Code : row[c] \in {"unused", "used"}}
Unused == {c \in Code : row[c] = "unused"}
Regenerating == {r \in Req : req[r].pc = "insert"}
Locked == UNION {req[r].codes : r \in Regenerating}

Finish(r) == req' = [req EXCEPT ![r] = Idle]

-----------------------------------------------------------------------------
\* GenerateCodes, DELETE.  (Two DELETEs wait for each other's locks; both
\* then remove what they saw, in either order, so the wait changes nothing.)
BeginGenerate(r, b) ==
    /\ req[r].pc = "idle"
    /\ \A i \in 1..PerBatch : row[<<b, i>>] = "never"
    /\ \A q \in Req : req[q].batch # b
    /\ req' = [req EXCEPT ![r] = [pc |-> "insert", batch |-> b, codes |-> Present]]
    /\ met' = met \cup {{b, req[q].batch} : q \in Regenerating}
    /\ UNCHANGED <<row, accepted>>

\* Mutant: only the codes that have been used are deleted.
Replaced_UsedOnly(r) == {c \in req[r].codes : row[c] = "used"}

\* What the transaction deletes.
Replaced(r) == req[r].codes

\* INSERT of the new codes, and COMMIT.
CommitGenerate(r) ==
    /\ req[r].pc = "insert"
    /\ row' = [c \in Code |-> CASE c[1] = req[r].batch -> "unused"
                                [] c \in Replaced(r) -> "deleted"
                                [] OTHER -> row[c]]
    /\ Finish(r)
    /\ UNCHANGED <<met, accepted>>

\* ValidateCode, SELECT: the unused rows are read and one of them matches.
SelectCode(r, c) ==
    /\ req[r].pc = "idle"
    /\ c \in Unused
    /\ req' = [req EXCEPT ![r] = [pc |-> "mark", batch |-> NoBatch, codes |-> {c}]]
    /\ UNCHANGED <<row, met, accepted>>

\* Mutant: a failing UPDATE is ignored.
MarkUsed_ErrorIgnored(r, c) ==
    /\ req[r].pc = "mark" /\ req[r].codes = {c}
    /\ \/ row' = [row EXCEPT ![c] = IF @ = "deleted" THEN @ ELSE "used"]
       \/ UNCHANGED row
    /\ accepted' = [accepted EXCEPT ![c] = @ + 1]
    /\ Finish(r)
    /\ UNCHANGED met

\* UPDATE by id, whatever the row says by now: it waits for the lock of a
\* regeneration, and of a row that is gone it updates nothing.  The answer is
\* yes in every case.
MarkUsed(r, c) ==
    /\ req[r].pc = "mark" /\ req[r].codes = {c}
    /\ c \notin Locked
    /\ row' = [row EXCEPT ![c] = IF @ = "deleted" THEN @ ELSE "used"]
    /\ accepted' = [accepted EXCEPT ![c] = @ + 1]
    /\ Finish(r)
    /\ UNCHANGED met

\* An error in the transaction rolls it back; an UPDATE that fails makes the
\* validation answer with an error; a crash does the same to both.
Fail(r) ==
    /\ req[r].pc # "idle"
    /\ Finish(r)
    /\ UNCHANGED <<row, met, accepted>>

Next ==
    \E r \in Req :
        \/ \E b \in Batch : BeginGenerate(r, b)
        \/ CommitGenerate(r)
        \/ \E c \in Code : SelectCode(r, c) \/ MarkUsed(r, c)
        \/ Fail(r)

Spec == Init /\ [][Next]_vars

-----------------------------------------------------------------------------
\* A regeneration replaces whatever codes existed: codes of two batches can be
\* used side by side only when their two regenerations overlapped each other,
\* whatever others and validations came in between, and whatever failed.
OneBatch == \A c, d \in Unused : c[1] # d[1] => {c[1], d[1]} \in met

\* A code that has let somebody in is not there to be used again, whether the
\* row was marked, deleted, or the two raced, and whatever failed.
AcceptedIsSpent == \A c \in Code : accepted[c] > 0 => row[c] \in {"used", "deleted"}

\* Each recovery code is single-use.
RowStatusOf(c) ==
    CASE row[c] = "never" -> "unissued"
      [] row[c] = "unused" -> "live"
      [] OTHER -> "spent"

Tickets == INSTANCE SingleUse WITH
    Ticket <- Code, status <- [c \in Code |-> RowStatusOf(c)], uses <- accepted

CodesSingleUse == Tickets!Spec

=============================================================================
