------------------------------- MODULE QrLogin -------------------------------
(***************************************************************************)
(* QR login: a page generates a session, shows it as a QR code and polls;  *)
(* a phone opens the code (scan) and a signed-in user approves it.  The    *)
(* session is a Redis key, "pending", "scanned" or "approved:<user>", and  *)
(* a row of qr_login_sessions that follows it.  Every write to Redis comes *)
(* after a read of its own, and the row is written after the key.          *)
(***************************************************************************)
EXTENDS Naturals

CONSTANTS
    User,
    Session,      \* session UUIDs (16 random bytes, never repeated)
    Req,          \* requests in progress at the same time
    NoUser, NoSession,
    SessionTTL,   \* lifetime of a session (5 min)
    ApprovedTTL,  \* lifetime of an approval (2 min)
    Fails         \* may a write to Redis or PostgreSQL fail?

ASSUME QrAssumption ==
    /\ NoUser \notin User
    /\ NoSession \notin Session
    /\ SessionTTL \in Nat \ {0}
    /\ ApprovedTTL \in 1..SessionTTL
    /\ Fails \in BOOLEAN

VARIABLES
    key,        \* qr_session:<uuid>
    row,        \* qr_login_sessions
    req,        \* requests in progress
    consented,  \* history: approvals that passed the check, by (session, user)
    approved,   \* history: approvals answered with success
    minted,     \* history: full tokens handed to the page
    disturbed   \* history: sessions that two requests have worked on at once,
                \* or a write of which has failed

vars == <<key, row, req, consented, approved, minted, disturbed>>

-----------------------------------------------------------------------------
Status == {"none", "pending", "scanned", "approved"}

Key == [status : Status, user : User \cup {NoUser}, ttl : 0..SessionTTL]

Absent == [status |-> "none", user |-> NoUser, ttl |-> 0]

Request ==
    [pc : {"idle", "store", "approve", "ttl", "scan", "row", "token"},
     session : Session \cup {NoSession}, user : User \cup {NoUser},
     ttl : 0..SessionTTL]

Idle == [pc |-> "idle", session |-> NoSession, user |-> NoUser, ttl |-> 0]

Approvals == Session \X User

TypeOK ==
    /\ key \in [Session -> Key]
    /\ row \in [Session -> [status : Status, user : User \cup {NoUser}]]
    /\ req \in [Req -> Request]
    /\ consented \subseteq Approvals
    /\ approved \subseteq Approvals
    /\ minted \subseteq Approvals
    /\ disturbed \subseteq Session

Init ==
    /\ key = [s \in Session |-> Absent]
    /\ row = [s \in Session |-> [status |-> "none", user |-> NoUser]]
    /\ req = [r \in Req |-> Idle]
    /\ consented = {} /\ approved = {} /\ minted = {} /\ disturbed = {}

\* Polls write nothing.
AtWork(s) == \E r \in Req : req[r].session = s /\ req[r].pc # "token"

Finish(r) == req' = [req EXCEPT ![r] = Idle]

Begin(r, pc, s, u) ==
    /\ req[r].pc = "idle"
    /\ req' = [req EXCEPT ![r] = [Idle EXCEPT !.pc = pc, !.session = s,
                                              !.user = u]]
    /\ disturbed' = IF AtWork(s) THEN disturbed \cup {s} ELSE disturbed

-----------------------------------------------------------------------------
\* GenerateSession: the row, then the key.
GenerateSession(r) ==
    \E s \in Session :
        /\ row[s].status = "none"
        /\ Begin(r, "store", s, NoUser)
        /\ row' = [row EXCEPT ![s].status = "pending"]
        /\ UNCHANGED <<key, consented, approved, minted>>

StoreSession(r) ==
    /\ req[r].pc = "store"
    /\ key' = [key EXCEPT ![req[r].session] =
                  [status |-> "pending", user |-> NoUser, ttl |-> SessionTTL]]
    /\ Finish(r)
    /\ UNCHANGED <<row, consented, approved, minted, disturbed>>

\* Mutant: the second of two users is let through.
MayApprove_Always(s) == key[s].status # "none"

MayApprove(s) == key[s].status \in {"pending", "scanned"}

\* ApproveSession: the check, the key, the row.
CheckApproval(r, s, u) ==
    /\ MayApprove(s)
    /\ Begin(r, "approve", s, u)
    /\ consented' = consented \cup {<<s, u>>}
    /\ UNCHANGED <<key, row, approved, minted>>

Approved(r) ==
    [status |-> "approved", user |-> req[r].user, ttl |-> ApprovedTTL]

ApproveKey(r) ==
    /\ req[r].pc = "approve"
    /\ key' = [key EXCEPT ![req[r].session] = Approved(r)]
    /\ req' = [req EXCEPT ![r].pc = "row"]
    /\ UNCHANGED <<row, consented, approved, minted, disturbed>>

\* Mutant: a scan does not reach the row.
RowAfter_Approval(r, old) ==
    IF req[r].user = NoUser THEN old
    ELSE [status |-> "approved", user |-> req[r].user]

\* A scan, which has no user, leaves the user in the row alone.
RowAfter(r, old) ==
    IF req[r].user = NoUser THEN [old EXCEPT !.status = "scanned"]
    ELSE [status |-> "approved", user |-> req[r].user]

Answer(r) ==
    /\ approved' = IF req[r].user = NoUser THEN approved
                   ELSE approved \cup {<<req[r].session, req[r].user>>}
    /\ Finish(r)

\* The row follows, whatever it says by now, and the request is answered.
UpdateRow(r) ==
    /\ req[r].pc = "row"
    /\ row' = [row EXCEPT ![req[r].session] = RowAfter(r, @)]
    /\ Answer(r)
    /\ UNCHANGED <<key, consented, minted, disturbed>>

-----------------------------------------------------------------------------
\* Mutant: any session can be scanned.
MayScan_Always(s) == key[s].status # "none"

MayScan(s) == key[s].status = "pending"

\* MarkScanned: GET, TTL, SET, and the row.
CheckScan(r, s) ==
    /\ MayScan(s)
    /\ Begin(r, "ttl", s, NoUser)
    /\ UNCHANGED <<key, row, consented, approved, minted>>

\* The key has gone: the Set is skipped, the row is not.
ReadTTL(r) ==
    /\ req[r].pc = "ttl"
    /\ req' = [req EXCEPT ![r].ttl = key[req[r].session].ttl,
                          ![r].pc = IF key[req[r].session].ttl > 0
                                    THEN "scan" ELSE "row"]
    /\ UNCHANGED <<key, row, consented, approved, minted, disturbed>>

ScanKey(r) ==
    /\ req[r].pc = "scan"
    /\ key' = [key EXCEPT ![req[r].session] =
                  [status |-> "scanned", user |-> NoUser, ttl |-> req[r].ttl]]
    /\ req' = [req EXCEPT ![r].pc = "row", ![r].ttl = 0]
    /\ UNCHANGED <<row, consented, approved, minted, disturbed>>

\* A Set whose error is ignored, or an UPDATE whose error is only logged.
WriteFails(r) ==
    /\ Fails
    /\ \/ req[r].pc = "store" /\ Finish(r) /\ UNCHANGED approved
       \/ /\ req[r].pc \in {"approve", "scan"}
          /\ req' = [req EXCEPT ![r].pc = "row", ![r].ttl = 0]
          /\ UNCHANGED approved
       \/ req[r].pc = "row" /\ Answer(r)
    /\ disturbed' = disturbed \cup {req[r].session}
    /\ UNCHANGED <<key, row, consented, minted>>

-----------------------------------------------------------------------------
\* Mutant: the user in the row, which follows later.
Poll_RowUser(r, s) ==
    /\ req[r].pc = "idle"
    /\ key[s].status = "approved"
    /\ req' = [req EXCEPT ![r] = [Idle EXCEPT !.pc = "token", !.session = s,
                                              !.user = row[s].user]]
    /\ UNCHANGED <<key, row, consented, approved, minted, disturbed>>

\* GetQRStatus: the key, then FindByID and GenerateToken; a poll that finds no
\* approval only reports what it found.
Poll(r, s) ==
    /\ req[r].pc = "idle"
    /\ key[s].status = "approved"
    /\ req' = [req EXCEPT ![r] = [Idle EXCEPT !.pc = "token", !.session = s,
                                              !.user = key[s].user]]
    /\ UNCHANGED <<key, row, consented, approved, minted, disturbed>>

IssueToken(r) ==
    /\ req[r].pc = "token"
    /\ minted' = minted \cup {<<req[r].session, req[r].user>>}
    /\ Finish(r)
    /\ UNCHANGED <<key, row, consented, approved, disturbed>>

IssueTokenFails(r) ==
    /\ Fails
    /\ req[r].pc = "token"
    /\ Finish(r)
    /\ UNCHANGED <<key, row, consented, approved, minted, disturbed>>

Tick ==
    /\ \E s \in Session : key[s].ttl > 0
    /\ key' = [s \in Session |-> IF key[s].ttl <= 1 THEN Absent
                                 ELSE [key[s] EXCEPT !.ttl = @ - 1]]
    /\ UNCHANGED <<row, req, consented, approved, minted, disturbed>>

Next ==
    \/ \E r \in Req :
          \/ GenerateSession(r) \/ StoreSession(r)
          \/ \E s \in Session : CheckScan(r, s) \/ Poll(r, s)
          \/ \E s \in Session, u \in User : CheckApproval(r, s, u)
          \/ ReadTTL(r) \/ ScanKey(r) \/ ApproveKey(r) \/ UpdateRow(r)
          \/ WriteFails(r)
          \/ IssueToken(r) \/ IssueTokenFails(r)
    \/ Tick

Spec == Init /\ [][Next]_vars

-----------------------------------------------------------------------------
\* The page gets a token only for a user who approved this very session.
TokensWereApproved == minted \subseteq consented

\* The three that follow are about the sessions no two requests work on at
\* once and whose writes succeed.
Undisturbed == Session \ disturbed

\* The page that polls a session is signed in as one user: nobody can approve
\* a session that another user has approved.
OneApprover ==
    \A a, b \in approved : a[1] = b[1] /\ a[1] \in Undisturbed => a[2] = b[2]

\* An approval that was answered with success stays in the key until its time
\* is up: the page that polls in time gets its token.
ApprovalSticks ==
    \A a \in approved :
        a[1] \in Undisturbed => key[a[1]].status \in {"none", "approved"}

\* With no request in progress, the row says of a session what the key does.
RowFollowsKey ==
    \A s \in Undisturbed :
        ~AtWork(s) /\ key[s].status # "none"
        => row[s] = [status |-> key[s].status, user |-> key[s].user]

=============================================================================
