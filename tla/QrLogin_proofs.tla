---------------------------- MODULE QrLogin_proofs ----------------------------
(***************************************************************************)
(* QR login signs the page in only as a user who approved the session, for *)
(* any numbers of users, sessions and requests, and whatever writes fail.  *)
(***************************************************************************)
EXTENDS QrLogin, TLAPS

\* What a request has read or is about to write, traced back to the check of
\* an approval.
Traced ==
    /\ \A r \in Req : req[r].pc # "idle" => req[r].session \in Session
    /\ \A r \in Req : req[r].pc \in {"approve", "token"} =>
          <<req[r].session, req[r].user>> \in consented
    /\ \A r \in Req : req[r].pc = "row" /\ req[r].user # NoUser =>
          <<req[r].session, req[r].user>> \in consented
    /\ \A r \in Req : req[r].pc \in {"store", "ttl", "scan"} =>
          req[r].user = NoUser
    /\ \A s \in Session : key[s].status = "approved" =>
          <<s, key[s].user>> \in consented

QrInv == TypeOK /\ Traced /\ TokensWereApproved

LEMMA QrInvInit == Init => QrInv
  BY QrAssumption
  DEF Init, QrInv, TypeOK, Traced, TokensWereApproved, Key, Absent, Request,
      Idle, Status, Approvals

LEMMA IdleType == Idle \in Request
  BY QrAssumption DEF Idle, Request

\* A request keeps its type when it begins, and when it moves on.
LEMMA RequestBegins ==
    ASSUME NEW p \in {"store", "approve", "ttl", "token"}, NEW s \in Session,
           NEW u \in User \cup {NoUser}
    PROVE  [Idle EXCEPT !.pc = p, !.session = s, !.user = u] \in Request
  <1>1. ASSUME NEW q \in Request
        PROVE  [q EXCEPT !.pc = p, !.session = s, !.user = u] \in Request
    BY DEF Request
  <1>2. QED
    BY <1>1, IdleType

LEMMA RequestMoves ==
    ASSUME NEW q \in Request, NEW p \in {"row", "scan"}
    PROVE  /\ [q EXCEPT !.pc = p] \in Request
           /\ [q EXCEPT !.pc = p, !.ttl = 0] \in Request
           /\ \A n \in 0..SessionTTL : [q EXCEPT !.ttl = n, !.pc = p] \in Request
  <1>1. 0 \in 0..SessionTTL
    BY QrAssumption
  <1>2. [q EXCEPT !.pc = p] \in Request
    BY DEF Request
  <1>3. ASSUME NEW n \in 0..SessionTTL
        PROVE  /\ [q EXCEPT !.pc = p, !.ttl = n] \in Request
               /\ [q EXCEPT !.ttl = n, !.pc = p] \in Request
    BY DEF Request
  <1>4. QED
    BY <1>1, <1>2, <1>3

LEMMA QrTypeNext == QrInv /\ [Next]_vars => TypeOK'
  <1> SUFFICES ASSUME QrInv, [Next]_vars
               PROVE  TypeOK'
    OBVIOUS
  <1>t. TypeOK /\ Traced
    BY DEF QrInv
  <1> USE QrAssumption, <1>t, IdleType DEF TypeOK
  <1>1. ASSUME NEW r \in Req, GenerateSession(r)
        PROVE  TypeOK'
    <2>1. PICK s \in Session :
              /\ Begin(r, "store", s, NoUser)
              /\ row' = [row EXCEPT ![s].status = "pending"]
      BY <1>1 DEF GenerateSession
    <2>2. req' \in [Req -> Request] /\ disturbed' \subseteq Session
      BY <2>1, RequestBegins DEF Begin
    <2>3. row' \in [Session -> [status : Status, user : User \cup {NoUser}]]
      BY <2>1 DEF Status
    <2>4. QED
      BY <1>1, <2>2, <2>3 DEF GenerateSession
  <1>2. ASSUME NEW r \in Req, StoreSession(r)
        PROVE  TypeOK'
    <2>1. [status |-> "pending", user |-> NoUser, ttl |-> SessionTTL] \in Key
      BY DEF Key, Status
    <2>2. QED
      BY <1>2, <2>1 DEF StoreSession, Finish
  <1>3. ASSUME NEW r \in Req, NEW s \in Session, NEW u \in User, CheckApproval(r, s, u)
        PROVE  TypeOK'
    <2>1. req' \in [Req -> Request] /\ disturbed' \subseteq Session
      BY <1>3, RequestBegins DEF CheckApproval, Begin
    <2>2. consented' \subseteq Approvals
      BY <1>3 DEF CheckApproval, Approvals
    <2>3. QED
      BY <1>3, <2>1, <2>2 DEF CheckApproval
  <1>4. ASSUME NEW r \in Req, ApproveKey(r)
        PROVE  TypeOK'
    <2>1. req[r] \in Request /\ [req[r] EXCEPT !.pc = "row"] \in Request
      BY RequestMoves
    <2>2. req' = [req EXCEPT ![r] = [req[r] EXCEPT !.pc = "row"]]
      BY <1>4 DEF ApproveKey
    <2>3. Approved(r) \in Key
      BY <2>1 DEF Approved, Key, Status, Request
    <2>4. key' \in [Session -> Key]
      BY <1>4, <2>3 DEF ApproveKey
    <2>5. QED
      BY <1>4, <2>1, <2>2, <2>4 DEF ApproveKey
  <1>5. ASSUME NEW r \in Req, req[r].pc = "row", Answer(r)
        PROVE  req' \in [Req -> Request] /\ approved' \subseteq Approvals
    <2>1. req[r].session \in Session /\ req[r].user \in User \cup {NoUser}
      BY <1>5 DEF Traced, Request
    <2>2. QED
      BY <1>5, <2>1 DEF Answer, Finish, Approvals
  <1>6. ASSUME NEW r \in Req, UpdateRow(r)
        PROVE  TypeOK'
    <2>1. req[r].user \in User \cup {NoUser}
      BY DEF Request
    <2>2. \A s \in Session :
             RowAfter(r, row[s]) \in [status : Status, user : User \cup {NoUser}]
      BY <2>1 DEF RowAfter, Status
    <2>3. row' \in [Session -> [status : Status, user : User \cup {NoUser}]]
      BY <1>6, <2>2 DEF UpdateRow
    <2>4. QED
      BY <1>5, <1>6, <2>3 DEF UpdateRow
  <1>7. ASSUME NEW r \in Req, NEW s \in Session, CheckScan(r, s)
        PROVE  TypeOK'
    <2>1. req' \in [Req -> Request] /\ disturbed' \subseteq Session
      BY <1>7, RequestBegins DEF CheckScan, Begin
    <2>2. QED
      BY <1>7, <2>1 DEF CheckScan
  <1>8. ASSUME NEW r \in Req, ReadTTL(r)
        PROVE  TypeOK'
    <2>1. req[r].session \in Session
      BY <1>8 DEF ReadTTL, Traced
    <2>2. PICK n \in 0..SessionTTL, p \in {"scan", "row"} :
             req' = [req EXCEPT ![r].ttl = n, ![r].pc = p]
      BY <1>8, <2>1 DEF ReadTTL, Key
    <2>3. req' = [req EXCEPT ![r] = [req[r] EXCEPT !.ttl = n, !.pc = p]]
      BY <2>2
    <2>4. QED
      <3>1. [req[r] EXCEPT !.ttl = n, !.pc = p] \in Request
        BY RequestMoves
      <3>2. QED
        BY <1>8, <2>3, <3>1 DEF ReadTTL
  <1>9. ASSUME NEW r \in Req, ScanKey(r)
        PROVE  TypeOK'
    <2>1. req[r] \in Request /\ [req[r] EXCEPT !.pc = "row", !.ttl = 0] \in Request
      BY RequestMoves
    <2>2. req' = [req EXCEPT ![r] = [req[r] EXCEPT !.pc = "row", !.ttl = 0]]
      BY <1>9 DEF ScanKey
    <2>3. [status |-> "scanned", user |-> NoUser, ttl |-> req[r].ttl] \in Key
      BY <2>1 DEF Key, Status, Request
    <2>4. key' \in [Session -> Key]
      BY <1>9, <2>3 DEF ScanKey
    <2>5. QED
      BY <1>9, <2>1, <2>2, <2>4 DEF ScanKey
  <1>10. ASSUME NEW r \in Req, WriteFails(r)
         PROVE  TypeOK'
    <2>1. req[r].session \in Session
      BY <1>10 DEF WriteFails, Traced
    <2>2. req' \in [Req -> Request] /\ approved' \subseteq Approvals
      <3>1. CASE req[r].pc = "store" /\ Finish(r) /\ UNCHANGED approved
        BY <3>1 DEF Finish
      <3>2. CASE /\ req' = [req EXCEPT ![r].pc = "row", ![r].ttl = 0]
                 /\ UNCHANGED approved
        <4>1. req' = [req EXCEPT ![r] = [req[r] EXCEPT !.pc = "row", !.ttl = 0]]
          BY <3>2
        <4>2. QED
          <5>1. [req[r] EXCEPT !.pc = "row", !.ttl = 0] \in Request
            BY RequestMoves
          <5>2. QED
            BY <3>2, <4>1, <5>1
      <3>3. CASE req[r].pc = "row" /\ Answer(r)
        BY <1>5, <3>3
      <3>4. QED
        BY <1>10, <3>1, <3>2, <3>3 DEF WriteFails
    <2>3. QED
      BY <1>10, <2>1, <2>2 DEF WriteFails
  <1>11. ASSUME NEW r \in Req, NEW s \in Session, Poll(r, s)
         PROVE  TypeOK'
    <2>1. key[s].user \in User \cup {NoUser}
      BY DEF Key
    <2>2. req' \in [Req -> Request]
      BY <1>11, <2>1, RequestBegins DEF Poll
    <2>3. QED
      BY <1>11, <2>2 DEF Poll
  <1>12. ASSUME NEW r \in Req, IssueToken(r) \/ IssueTokenFails(r)
         PROVE  TypeOK'
    <2>1. IssueToken(r) => minted' \subseteq Approvals
      <3>1. SUFFICES ASSUME IssueToken(r) PROVE minted' \subseteq Approvals
        OBVIOUS
      <3>2. <<req[r].session, req[r].user>> \in Approvals
        BY <3>1 DEF IssueToken, Traced
      <3>3. QED
        BY <3>1, <3>2 DEF IssueToken
    <2>2. QED
      BY <1>12, <2>1 DEF IssueToken, IssueTokenFails, Finish
  <1>13. CASE Tick
    BY <1>13 DEF Tick, Key, Absent, Status
  <1>14. CASE UNCHANGED vars
    BY <1>14 DEF vars
  <1>15. QED
    BY <1>1, <1>2, <1>3, <1>4, <1>6, <1>7, <1>8, <1>9, <1>10, <1>11,
       <1>12, <1>13, <1>14 DEF Next

LEMMA QrInvNext == QrInv /\ [Next]_vars => QrInv'
  <1> SUFFICES ASSUME QrInv, [Next]_vars
               PROVE  QrInv'
    OBVIOUS
  <1>0. TypeOK'
    BY QrTypeNext
  <1> DEFINE Kept == Traced /\ TokensWereApproved
  <1> USE QrAssumption
  <1> USE DEF QrInv, TypeOK, Traced, TokensWereApproved, Key, Absent, Request,
              Idle, Status, Approvals
  <1>1. ASSUME NEW r \in Req, GenerateSession(r)
        PROVE  Kept'
    BY <1>1 DEF GenerateSession, Begin
  <1>2. ASSUME NEW r \in Req, StoreSession(r)
        PROVE  Kept'
    BY <1>2 DEF StoreSession, Finish
  <1>3. ASSUME NEW r \in Req, NEW s \in Session, NEW u \in User, CheckApproval(r, s, u)
        PROVE  Kept'
    BY <1>3 DEF CheckApproval, Begin
  <1>4. ASSUME NEW r \in Req, ApproveKey(r)
        PROVE  Kept'
    BY <1>4 DEF ApproveKey, Approved
  <1>5. ASSUME NEW r \in Req, UpdateRow(r)
        PROVE  Kept'
    BY <1>5 DEF UpdateRow, Answer, Finish
  <1>6. ASSUME NEW r \in Req, NEW s \in Session, CheckScan(r, s)
        PROVE  Kept'
    BY <1>6 DEF CheckScan, Begin
  <1>7. ASSUME NEW r \in Req, ReadTTL(r)
        PROVE  Kept'
    BY <1>7 DEF ReadTTL
  <1>8. ASSUME NEW r \in Req, ScanKey(r)
        PROVE  Kept'
    BY <1>8 DEF ScanKey
  <1>9. ASSUME NEW r \in Req, WriteFails(r)
        PROVE  Kept'
    <2>1. CASE req[r].pc = "store" /\ Finish(r) /\ UNCHANGED approved
      BY <1>9, <2>1 DEF WriteFails, Finish
    <2>2. CASE /\ req[r].pc \in {"approve", "scan"}
               /\ req' = [req EXCEPT ![r].pc = "row", ![r].ttl = 0]
      BY <1>9, <2>2 DEF WriteFails
    <2>3. CASE req[r].pc = "row" /\ Answer(r)
      BY <1>9, <2>3 DEF WriteFails, Answer, Finish
    <2>4. QED
      BY <1>9, <2>1, <2>2, <2>3 DEF WriteFails
  <1>10. ASSUME NEW r \in Req, NEW s \in Session, Poll(r, s)
         PROVE  Kept'
    BY <1>10 DEF Poll
  <1>11. ASSUME NEW r \in Req, IssueToken(r) \/ IssueTokenFails(r)
         PROVE  Kept'
    <2>1. \A q \in Req : req'[q] = IF q = r THEN Idle ELSE req[q]
      BY <1>11 DEF IssueToken, IssueTokenFails, Finish
    <2>2. UNCHANGED <<key, consented>>
      BY <1>11 DEF IssueToken, IssueTokenFails
    <2>3. Traced'
      <3>1. ASSUME NEW q \in Req, req'[q].pc # "idle"
            PROVE  req'[q] = req[q]
        BY <2>1, <3>1
      <3>2. QED
        BY <2>2, <3>1
    <2>4. TokensWereApproved'
      <3>1. CASE IssueToken(r)
        <4>1. minted' = minted \cup {<<req[r].session, req[r].user>>}
              /\ <<req[r].session, req[r].user>> \in consented
          BY <3>1 DEF IssueToken
        <4>2. QED
          BY <2>2, <4>1
      <3>2. CASE IssueTokenFails(r)
        BY <3>2 DEF IssueTokenFails
      <3>3. QED
        BY <1>11, <3>1, <3>2
    <2>5. QED
      BY <2>3, <2>4
  <1>12. CASE Tick
    BY <1>12 DEF Tick
  <1>13. CASE UNCHANGED vars
    BY <1>13 DEF vars
  <1>14. QED
    BY <1>0, <1>1, <1>2, <1>3, <1>4, <1>5, <1>6, <1>7, <1>8, <1>9, <1>10,
       <1>11, <1>12, <1>13 DEF Next

\* The keys, the rows and the requests keep their types.
THEOREM QrTypeCorrect == Spec => []TypeOK
  <1>1. QrInv => TypeOK
    BY DEF QrInv
  <1>2. QED
    BY <1>1, QrInvInit, QrInvNext, PTL DEF Spec

\* However scans, approvals and polls of a session overlap, the page gets a
\* token only for a user who approved that session.
THEOREM QrTokensWereApproved == Spec => []TokensWereApproved
  <1>1. QrInv => TokensWereApproved
    BY DEF QrInv
  <1>2. QED
    BY <1>1, QrInvInit, QrInvNext, PTL DEF Spec

-----------------------------------------------------------------------------
(* Sessions that no two requests work on at once and whose writes succeed. *)

Works(r, s) == req[r].session = s /\ req[r].pc # "token"

Unapproved(s) == \A a \in approved : a[1] # s

\* Of any session: what the key can say, and that nothing has happened to a
\* session that has no row.
Grounded(s) ==
    /\ key[s].status # "none" => key[s].ttl > 0
    /\ key[s].status # "approved" => key[s].user = NoUser
    /\ row[s].status = "none" => /\ key[s].status = "none"
                                 /\ row[s].user = NoUser
                                 /\ \A r \in Req : req[r].session # s
                                 /\ Unapproved(s)

\* What the one request that works on session s relies on, at each statement.
Stage(r, s) ==
    /\ Unapproved(s)
    /\ req[r].pc = "store" => /\ key[s].status = "none"
                              /\ row[s] = [status |-> "pending", user |-> NoUser]
    /\ req[r].pc \in {"ttl", "scan"} => key[s].status \in {"none", "pending"}
    /\ req[r].pc \in {"store", "ttl", "scan"} => row[s].user = NoUser
    /\ req[r].pc = "approve" => req[r].user \in User
    /\ req[r].pc = "row" /\ req[r].user = NoUser =>
          row[s].user = NoUser /\ key[s].status \in {"none", "scanned"}
    /\ req[r].pc = "row" /\ req[r].user # NoUser =>
          \/ key[s].status = "none"
          \/ key[s].status = "approved" /\ key[s].user = req[r].user

\* Between requests, the three promises.
Settled(s) ==
    /\ ~AtWork(s) /\ key[s].status # "none"
       => row[s] = [status |-> key[s].status, user |-> key[s].user]
    /\ ~Unapproved(s) => key[s].status \in {"none", "approved"}
    /\ \A a, b \in approved : a[1] = s /\ b[1] = s => a[2] = b[2]

Calm(s) ==
    /\ Grounded(s)
    /\ s \notin disturbed =>
          /\ \A r, q \in Req : Works(r, s) /\ Works(q, s) => r = q
          /\ \A r \in Req : Works(r, s) => Stage(r, s)
          /\ Settled(s)

AllCalm == \A s \in Session : Calm(s)

\* An idle request remembers nothing, and a scan writes a key that it found.
Remembered(r) ==
    /\ req[r].pc = "idle" => req[r] = Idle
    /\ req[r].pc = "scan" => req[r].ttl > 0

AllRemembered == \A r \in Req : Remembered(r)

\* A session that the step is not about stays calm.
LEMMA Apart ==
    ASSUME NEW z \in Session, Calm(z), NEW r \in Req,
           key'[z] = key[z], row'[z] = row[z],
           \A a : a[1] = z => (a \in approved' <=> a \in approved),
           disturbed \subseteq disturbed',
           \A q \in Req : q # r => req'[q] = req[q],
           ~Works(r, z), ~Works(r, z)',
           row[z].status = "none" => req'[r].session # z
    PROVE  Calm(z)'
  <1>1. Unapproved(z)' <=> Unapproved(z)
    BY DEF Unapproved
  <1>2. Grounded(z)'
    BY <1>1 DEF Calm, Grounded
  <1>3. \A q \in Req : Works(q, z)' => q # r /\ Works(q, z)
    BY DEF Works
  <1>4. AtWork(z)' <=> AtWork(z)
    BY DEF Works, AtWork
  <1>5. ASSUME z \notin disturbed'
        PROVE  Settled(z)'
    BY <1>1, <1>4, <1>5 DEF Calm, Settled
  <1>6. ASSUME z \notin disturbed', NEW q \in Req, Works(q, z)'
        PROVE  Stage(q, z)'
    <2>1. Stage(q, z) /\ req'[q] = req[q]
      BY <1>3, <1>6 DEF Calm
    <2>2. QED
      BY <1>1, <2>1 DEF Stage
  <1>7. QED
    BY <1>2, <1>3, <1>5, <1>6 DEF Calm

\* The one request that works on a session moves on.
LEMMA Doing ==
    ASSUME NEW s \in Session, Calm(s), NEW r \in Req, Works(r, s),
           disturbed \subseteq disturbed',
           \A q \in Req : q # r => req'[q] = req[q],
           Grounded(s)',
           s \notin disturbed /\ Works(r, s)' => Stage(r, s)',
           s \notin disturbed /\ ~Works(r, s)' => Settled(s)'
    PROVE  Calm(s)'
  <1> SUFFICES ASSUME s \notin disturbed'
               PROVE  /\ \A o, q \in Req : Works(o, s)' /\ Works(q, s)' => o = q
                      /\ \A q \in Req : Works(q, s)' => Stage(q, s)'
                      /\ Settled(s)'
    BY DEF Calm
  <1>1. \A q \in Req : Works(q, s)' => q = r
    BY DEF Calm, Works
  <1>2. Works(r, s)' => Settled(s)'
    BY DEF Settled, Works, AtWork, Stage, Unapproved
  <1>3. QED
    BY <1>1, <1>2

\* A request begins to work on a session that nobody works on.
LEMMA Beginning ==
    ASSUME NEW s \in Session, Calm(s), NEW r \in Req, NEW p, NEW u,
           AllRemembered, Begin(r, p, s, u),
           Grounded(s)',
           s \notin disturbed /\ ~AtWork(s) /\ Works(r, s)' => Stage(r, s)',
           p \in {"store", "approve", "ttl"}, req'[r].pc = p, req'[r].session = s,
           \A q \in Req : q # r => req'[q] = req[q]
    PROVE  Calm(s)'
  <1> SUFFICES ASSUME s \notin disturbed'
               PROVE  /\ \A o, q \in Req : Works(o, s)' /\ Works(q, s)' => o = q
                      /\ \A q \in Req : Works(q, s)' => Stage(q, s)'
                      /\ Settled(s)'
    BY DEF Calm
  <1>1. s \notin disturbed /\ ~AtWork(s)
    BY DEF Begin
  <1>2. \A q \in Req : Works(q, s)' => q = r
    BY <1>1 DEF Works, AtWork
  <1>3. Works(r, s)' /\ Stage(r, s)'
    BY <1>1 DEF Works
  <1>4. Settled(s)'
    BY <1>3 DEF Settled, Works, AtWork, Stage, Unapproved
  <1>5. QED
    BY <1>2, <1>3, <1>4

\* Idle requests are as they were in the beginning, and scans have a lifetime.
LEMMA RememberedStep == QrInv /\ AllRemembered /\ [Next]_vars => AllRemembered'
  <1> SUFFICES ASSUME QrInv, AllRemembered, [Next]_vars, NEW q \in Req
               PROVE  Remembered(q)'
    BY DEF AllRemembered
  <1>t. req \in [Req -> Request] /\ Idle \in Request /\ Remembered(q) /\ key \in [Session -> Key]
    BY IdleType DEF QrInv, TypeOK, AllRemembered
  <1>0. req'[q] = req[q] \/ req'[q] = Idle \/ req'[q].pc \notin {"idle", "scan"}
        => Remembered(q)'
    BY <1>t DEF Remembered, Idle
  <1>b. ASSUME NEW p \in {"store", "approve", "ttl", "token"}, NEW s, NEW u, NEW r \in Req,
               req' = [req EXCEPT ![r] = [Idle EXCEPT !.pc = p, !.session = s, !.user = u]]
        PROVE  Remembered(q)'
    BY <1>t, <1>b, <1>0 DEF Idle
  <1>m. ASSUME NEW n, NEW r \in Req,
               req' = [req EXCEPT ![r].pc = "row"]
                 \/ req' = [req EXCEPT ![r].pc = "row", ![r].ttl = n]
                 \/ req' = [req EXCEPT ![r].ttl = n, ![r].pc = "row"]
        PROVE  Remembered(q)'
    BY <1>t, <1>m, <1>0 DEF Request
  <1>1. ASSUME NEW r \in Req, GenerateSession(r)
        PROVE  Remembered(q)'
    BY <1>1, <1>b DEF GenerateSession, Begin
  <1>2. ASSUME NEW r \in Req, NEW s \in Session, CheckScan(r, s)
        PROVE  Remembered(q)'
    BY <1>2, <1>b DEF CheckScan, Begin
  <1>3. ASSUME NEW r \in Req, NEW s \in Session, Poll(r, s)
        PROVE  Remembered(q)'
    BY <1>3, <1>b DEF Poll
  <1>4. ASSUME NEW r \in Req, NEW s \in Session, NEW u \in User, CheckApproval(r, s, u)
        PROVE  Remembered(q)'
    BY <1>4, <1>b DEF CheckApproval, Begin
  <1>5. ASSUME NEW r \in Req, ScanKey(r) \/ ApproveKey(r)
        PROVE  Remembered(q)'
    <2>1. \/ req' = [req EXCEPT ![r].pc = "row"]
          \/ req' = [req EXCEPT ![r].pc = "row", ![r].ttl = 0]
      BY <1>5 DEF ScanKey, ApproveKey
    <2>2. QED
      BY <2>1, <1>m
  <1>6. ASSUME NEW r \in Req, ReadTTL(r)
        PROVE  Remembered(q)'
    <2>1. PICK n : n = key[req[r].session].ttl
      OBVIOUS
    <2>2. CASE n > 0
      <3>1. req' = [req EXCEPT ![r].ttl = n, ![r].pc = "scan"]
        BY <1>6, <2>1, <2>2 DEF ReadTTL
      <3>2. q = r => req'[q].ttl = n /\ req'[q].pc = "scan"
        BY <1>t, <3>1 DEF Request
      <3>3. q # r => req'[q] = req[q]
        BY <1>t, <3>1
      <3>4. QED
        BY <2>2, <3>2, <3>3, <1>0 DEF Remembered
    <2>3. CASE ~(n > 0)
      <3>1. req' = [req EXCEPT ![r].ttl = n, ![r].pc = "row"]
        BY <1>6, <2>1, <2>3 DEF ReadTTL
      <3>2. QED
        BY <3>1, <1>m
    <2>4. QED
      BY <2>2, <2>3
  <1>7. ASSUME NEW r \in Req, \/ StoreSession(r) \/ UpdateRow(r) \/ WriteFails(r)
                              \/ IssueToken(r) \/ IssueTokenFails(r)
        PROVE  Remembered(q)'
    <2>1. CASE Finish(r)
      BY <1>t, <1>0, <2>1 DEF Finish
    <2>2. Finish(r) \/ req' = [req EXCEPT ![r].pc = "row", ![r].ttl = 0]
      BY <1>7 DEF StoreSession, UpdateRow, WriteFails, IssueToken, IssueTokenFails, Answer
    <2>3. QED
      BY <2>1, <2>2, <1>m
  <1>8. CASE Tick \/ UNCHANGED vars
    BY <1>0, <1>8 DEF Tick, vars
  <1>9. QED
    BY <1>1, <1>2, <1>3, <1>4, <1>5, <1>6, <1>7, <1>8 DEF Next

\* Every step leaves every session calm.
LEMMA CalmStep == QrInv /\ AllCalm /\ AllRemembered /\ [Next]_vars => AllCalm'
  <1> SUFFICES ASSUME QrInv, AllCalm, AllRemembered, [Next]_vars, NEW z \in Session
               PROVE  Calm(z)'
    BY DEF AllCalm
  <1>t. /\ TypeOK /\ Traced /\ Calm(z) /\ Idle \in Request /\ NoSession \notin Session
        /\ NoUser \notin User /\ SessionTTL \in Nat /\ SessionTTL > 0
        /\ ApprovedTTL \in Nat /\ ApprovedTTL > 0
    BY IdleType, QrAssumption DEF QrInv, AllCalm
  <1>i. \A r \in Req : req[r].pc = "idle" => ~Works(r, z)
    BY <1>t DEF Works, AllRemembered, Remembered, Idle
  <1>f. ASSUME NEW r \in Req, Finish(r)
        PROVE  /\ req'[r] = Idle /\ ~Works(r, z)' /\ req'[r].session # z
               /\ \A q \in Req : q # r => req'[q] = req[q]
    BY <1>t, <1>f DEF Finish, TypeOK, Works, Idle
  <1>b. ASSUME NEW r \in Req, NEW s \in Session, NEW u,
               NEW p \in {"store", "approve", "ttl", "token"},
               req' = [req EXCEPT ![r] = [Idle EXCEPT !.pc = p, !.session = s, !.user = u]]
        PROVE  /\ req'[r].pc = p /\ req'[r].session = s /\ req'[r].user = u
               /\ \A q \in Req : q # r => req'[q] = req[q]
    BY <1>t, <1>b DEF TypeOK, Idle
  <1>m. ASSUME NEW r \in Req, NEW p \in {"row", "scan"}, NEW n,
               \/ n = req[r].ttl /\ req' = [req EXCEPT ![r].pc = p]
               \/ req' = [req EXCEPT ![r].pc = p, ![r].ttl = n]
               \/ req' = [req EXCEPT ![r].ttl = n, ![r].pc = p]
        PROVE  /\ req'[r].pc = p /\ req'[r].session = req[r].session
               /\ req'[r].user = req[r].user /\ req'[r].ttl = n
               /\ \A q \in Req : q # r => req'[q] = req[q]
    BY <1>t, <1>m DEF TypeOK, Request
  <1>1. ASSUME NEW r \in Req, GenerateSession(r)
        PROVE  Calm(z)'
    <2>1. PICK s \in Session :
            /\ row[s].status = "none"
            /\ Begin(r, "store", s, NoUser)
            /\ row' = [row EXCEPT ![s].status = "pending"]
      BY <1>1 DEF GenerateSession
    <2>2. /\ req[r].pc = "idle" /\ disturbed \subseteq disturbed'
          /\ UNCHANGED <<key, approved>>
          /\ req'[r].pc = "store" /\ req'[r].session = s
          /\ \A q \in Req : q # r => req'[q] = req[q]
      BY <1>1, <2>1, <1>b DEF Begin, GenerateSession
    <2>3. CASE z # s
      BY <1>t, <1>i, <2>1, <2>2, <2>3, Apart DEF Works, TypeOK
    <2>4. CASE z = s
      <3>1. row'[z] = [row[z] EXCEPT !.status = "pending"]
        BY <1>t, <2>1, <2>4 DEF TypeOK
      <3>2. /\ key[z].status = "none" /\ row[z].user = NoUser /\ Unapproved(z)
        BY <1>t, <2>1, <2>4 DEF Calm, Grounded
      <3>3. row'[z] = [status |-> "pending", user |-> NoUser]
        BY <1>t, <3>1, <3>2 DEF TypeOK
      <3>4. Unapproved(z)'
        BY <2>2, <3>2 DEF Unapproved
      <3>5. Grounded(z)'
        BY <1>t, <2>2, <3>2, <3>3 DEF Calm, Grounded
      <3>6. Stage(r, z)'
        BY <2>2, <3>2, <3>3, <3>4 DEF Stage
      <3>7. QED
        BY <1>t, <2>1, <2>2, <2>4, <3>5, <3>6, Beginning
    <2>5. QED
      BY <2>3, <2>4
  <1>2. ASSUME NEW r \in Req, NEW s \in Session, NEW u \in User, CheckApproval(r, s, u)
        PROVE  Calm(z)'
    <2>1. /\ req[r].pc = "idle" /\ disturbed \subseteq disturbed'
          /\ UNCHANGED <<key, row, approved>> /\ Begin(r, "approve", s, u)
          /\ req'[r].pc = "approve" /\ req'[r].session = s /\ req'[r].user = u
          /\ \A q \in Req : q # r => req'[q] = req[q]
          /\ key[s].status \in {"pending", "scanned"}
      BY <1>2, <1>b DEF Begin, CheckApproval, MayApprove
    <2>2. CASE z # s
      BY <1>t, <1>i, <2>1, <2>2, Apart DEF Works, TypeOK
    <2>3. CASE z = s
      <3>1. Unapproved(z)' <=> Unapproved(z)
        BY <2>1 DEF Unapproved
      <3>2. row[z].status # "none"
        BY <1>t, <2>1, <2>3 DEF Calm, Grounded
      <3>3. Grounded(z)'
        BY <1>t, <2>1, <3>2 DEF Calm, Grounded
      <3>4. z \notin disturbed => Unapproved(z)
        BY <1>t, <2>1, <2>3 DEF Calm, Settled
      <3>5. z \notin disturbed => Stage(r, z)'
        BY <2>1, <3>1, <3>4 DEF Stage
      <3>6. QED
        BY <1>t, <2>1, <2>3, <3>3, <3>5, Beginning
    <2>4. QED
      BY <2>2, <2>3
  <1>3. ASSUME NEW r \in Req, NEW s \in Session, CheckScan(r, s)
        PROVE  Calm(z)'
    <2>1. /\ req[r].pc = "idle" /\ disturbed \subseteq disturbed'
          /\ UNCHANGED <<key, row, approved>> /\ Begin(r, "ttl", s, NoUser)
          /\ req'[r].pc = "ttl" /\ req'[r].session = s
          /\ \A q \in Req : q # r => req'[q] = req[q]
          /\ key[s].status = "pending"
      BY <1>3, <1>b DEF Begin, CheckScan, MayScan
    <2>2. CASE z # s
      BY <1>t, <1>i, <2>1, <2>2, Apart DEF Works, TypeOK
    <2>3. CASE z = s
      <3>1. Unapproved(z)' <=> Unapproved(z)
        BY <2>1 DEF Unapproved
      <3>2. row[z].status # "none" /\ key[z].user = NoUser
        BY <1>t, <2>1, <2>3 DEF Calm, Grounded
      <3>3. Grounded(z)'
        BY <1>t, <2>1, <3>2 DEF Calm, Grounded
      <3>4. z \notin disturbed => Unapproved(z)
        BY <1>t, <2>1, <2>3 DEF Calm, Settled
      <3>5. z \notin disturbed /\ ~AtWork(z) =>
               row[z] = [status |-> "pending", user |-> NoUser]
        BY <1>t, <2>1, <2>3, <3>2 DEF Calm, Settled
      <3>6. z \notin disturbed /\ ~AtWork(z) => Stage(r, z)'
        BY <2>1, <2>3, <3>1, <3>4, <3>5 DEF Stage
      <3>7. QED
        BY <1>t, <2>1, <2>3, <3>3, <3>6, Beginning
    <2>4. QED
      BY <2>2, <2>3
  <1>4. ASSUME NEW r \in Req, StoreSession(r)
        PROVE  Calm(z)'
    <2>1. /\ req[r].pc = "store" /\ UNCHANGED <<row, approved, disturbed>>
          /\ key' = [key EXCEPT ![req[r].session] =
                       [status |-> "pending", user |-> NoUser, ttl |-> SessionTTL]]
          /\ Finish(r)
      BY <1>4 DEF StoreSession
    <2>2. CASE req[r].session # z
      BY <1>t, <1>f, <2>1, <2>2, Apart DEF Works, TypeOK
    <2>3. CASE req[r].session = z
      <3>1. key'[z] = [status |-> "pending", user |-> NoUser, ttl |-> SessionTTL]
        BY <1>t, <2>1, <2>3 DEF TypeOK
      <3>2. Works(r, z) /\ row[z].status # "none"
        BY <1>t, <2>1, <2>3 DEF Works, Calm, Grounded
      <3>3. Grounded(z)'
        BY <1>t, <2>1, <3>1, <3>2 DEF Grounded
      <3>4. z \notin disturbed => Settled(z)'
        <4>1. SUFFICES ASSUME z \notin disturbed PROVE Settled(z)'
          OBVIOUS
        <4>2. Stage(r, z)
          BY <1>t, <3>2, <4>1 DEF Calm
        <4>3. Unapproved(z) /\ row[z] = [status |-> "pending", user |-> NoUser]
          BY <2>1, <4>2 DEF Stage
        <4>4. QED
          BY <2>1, <3>1, <4>3 DEF Settled, Unapproved
      <3>5. QED
        BY <1>t, <1>f, <2>1, <3>2, <3>3, <3>4, Doing
    <2>4. QED
      BY <2>2, <2>3
  <1>5. ASSUME NEW r \in Req, ApproveKey(r)
        PROVE  Calm(z)'
    <2>1. /\ req[r].pc = "approve" /\ UNCHANGED <<row, approved, disturbed>>
          /\ key' = [key EXCEPT ![req[r].session] =
                       [status |-> "approved", user |-> req[r].user, ttl |-> ApprovedTTL]]
          /\ req' = [req EXCEPT ![r].pc = "row"]
      BY <1>5 DEF ApproveKey, Approved
    <2>2. /\ req'[r].pc = "row" /\ req'[r].session = req[r].session
          /\ req'[r].user = req[r].user
          /\ \A q \in Req : q # r => req'[q] = req[q]
      BY <1>m, <2>1
    <2>3. CASE req[r].session # z
      BY <1>t, <2>1, <2>2, <2>3, Apart DEF Works, TypeOK
    <2>4. CASE req[r].session = z
      <3>1. key'[z] = [status |-> "approved", user |-> req[r].user, ttl |-> ApprovedTTL]
        BY <1>t, <2>1, <2>4 DEF TypeOK
      <3>2. Works(r, z) /\ row[z].status # "none"
        BY <1>t, <2>1, <2>4 DEF Works, Calm, Grounded
      <3>3. Grounded(z)'
        BY <1>t, <2>1, <3>1, <3>2 DEF Grounded
      <3>4. z \notin disturbed => Stage(r, z)'
        <4>1. SUFFICES ASSUME z \notin disturbed PROVE Stage(r, z)'
          OBVIOUS
        <4>2. Stage(r, z)
          BY <1>t, <3>2, <4>1 DEF Calm
        <4>3. Unapproved(z)' /\ req[r].user \in User
          BY <2>1, <4>2 DEF Stage, Unapproved
        <4>4. QED
          BY <1>t, <2>2, <3>1, <4>3 DEF Stage
      <3>5. Works(r, z)'
        BY <2>2, <2>4 DEF Works
      <3>6. QED
        BY <1>t, <2>1, <2>2, <3>2, <3>3, <3>4, <3>5, Doing
    <2>5. QED
      BY <2>3, <2>4
  <1>6. ASSUME NEW r \in Req, ReadTTL(r)
        PROVE  Calm(z)'
    <2>1. /\ req[r].pc = "ttl" /\ UNCHANGED <<key, row, approved, disturbed>>
          /\ req' = [req EXCEPT ![r].ttl = key[req[r].session].ttl,
                                ![r].pc = IF key[req[r].session].ttl > 0
                                          THEN "scan" ELSE "row"]
      BY <1>6 DEF ReadTTL
    <2>2. /\ req'[r].pc = (IF key[req[r].session].ttl > 0 THEN "scan" ELSE "row")
          /\ req'[r].session = req[r].session
          /\ req'[r].user = req[r].user
          /\ req'[r].ttl = key[req[r].session].ttl
          /\ \A q \in Req : q # r => req'[q] = req[q]
      <3> DEFINE n == key[req[r].session].ttl
                 p == IF key[req[r].session].ttl > 0 THEN "scan" ELSE "row"
      <3>1. n = key[req[r].session].ttl /\ p \in {"scan", "row"}
            /\ p = IF key[req[r].session].ttl > 0 THEN "scan" ELSE "row"
        OBVIOUS
      <3> HIDE DEF n, p
      <3>2. req' = [req EXCEPT ![r].ttl = n, ![r].pc = p]
        BY <2>1, <3>1
      <3>3. /\ req'[r].pc = p /\ req'[r].session = req[r].session
            /\ req'[r].user = req[r].user /\ req'[r].ttl = n
            /\ \A q \in Req : q # r => req'[q] = req[q]
        BY <3>1, <3>2, <1>m
      <3>4. QED
        BY <3>1, <3>3
    <2>3. CASE req[r].session # z
      BY <1>t, <2>1, <2>2, <2>3, Apart DEF Works
    <2>4. CASE req[r].session = z
      <3>1. Works(r, z) /\ row[z].status # "none"
        BY <1>t, <2>1, <2>4 DEF Works, Calm, Grounded
      <3>2. Grounded(z)'
        BY <1>t, <2>1, <3>1 DEF Calm, Grounded
      <3>3. z \notin disturbed => Stage(r, z)'
        <4>1. SUFFICES ASSUME z \notin disturbed PROVE Stage(r, z)'
          OBVIOUS
        <4>2. Stage(r, z)
          BY <1>t, <3>1, <4>1 DEF Calm
        <4>3. /\ Unapproved(z)' /\ row[z].user = NoUser /\ req[r].user = NoUser
              /\ key[z].status \in {"none", "pending"}
          BY <1>t, <2>1, <4>2 DEF Stage, Unapproved, Traced
        <4>4. key[z].ttl = 0 => key[z].status = "none"
          BY <1>t DEF Calm, Grounded
        <4>5. key[z].ttl \in Nat
          BY <1>t DEF TypeOK, Key
        <4>6. QED
          BY <1>t, <2>1, <2>2, <2>4, <4>3, <4>4, <4>5 DEF Stage
      <3>4. Works(r, z)'
        BY <2>2, <2>4 DEF Works
      <3>5. QED
        BY <1>t, <2>1, <2>2, <3>1, <3>2, <3>3, <3>4, Doing
    <2>5. QED
      BY <2>3, <2>4
  <1>7. ASSUME NEW r \in Req, ScanKey(r)
        PROVE  Calm(z)'
    <2>1. /\ req[r].pc = "scan" /\ UNCHANGED <<row, approved, disturbed>>
          /\ key' = [key EXCEPT ![req[r].session] =
                       [status |-> "scanned", user |-> NoUser, ttl |-> req[r].ttl]]
          /\ req' = [req EXCEPT ![r].pc = "row", ![r].ttl = 0]
      BY <1>7 DEF ScanKey
    <2>2. /\ req'[r].pc = "row" /\ req'[r].session = req[r].session
          /\ req'[r].user = req[r].user
          /\ \A q \in Req : q # r => req'[q] = req[q]
      BY <1>m, <2>1
    <2>3. CASE req[r].session # z
      BY <1>t, <2>1, <2>2, <2>3, Apart DEF Works, TypeOK
    <2>4. CASE req[r].session = z
      <3>1. key'[z] = [status |-> "scanned", user |-> NoUser, ttl |-> req[r].ttl]
        BY <1>t, <2>1, <2>4 DEF TypeOK
      <3>2. Works(r, z) /\ row[z].status # "none"
        BY <1>t, <2>1, <2>4 DEF Works, Calm, Grounded
      <3>g. req[r].ttl > 0
        BY <2>1 DEF AllRemembered, Remembered
      <3>3. Grounded(z)'
        BY <1>t, <2>1, <3>1, <3>2, <3>g DEF Grounded
      <3>4. z \notin disturbed => Stage(r, z)'
        <4>1. SUFFICES ASSUME z \notin disturbed PROVE Stage(r, z)'
          OBVIOUS
        <4>2. Stage(r, z)
          BY <1>t, <3>2, <4>1 DEF Calm
        <4>3. Unapproved(z)' /\ row[z].user = NoUser /\ req[r].user = NoUser
          BY <1>t, <2>1, <4>2 DEF Stage, Unapproved, Traced
        <4>4. QED
          BY <2>1, <2>2, <3>1, <4>3 DEF Stage
      <3>5. Works(r, z)'
        BY <2>2, <2>4 DEF Works
      <3>6. QED
        BY <1>t, <2>1, <2>2, <3>2, <3>3, <3>4, <3>5, Doing
    <2>5. QED
      BY <2>3, <2>4
  <1>8. ASSUME NEW r \in Req, UpdateRow(r)
        PROVE  Calm(z)'
    <2>1. /\ req[r].pc = "row" /\ UNCHANGED <<key, disturbed>>
          /\ row' = [row EXCEPT ![req[r].session] = RowAfter(r, row[req[r].session])]
          /\ approved' = IF req[r].user = NoUser THEN approved
                         ELSE approved \cup {<<req[r].session, req[r].user>>}
          /\ Finish(r)
      BY <1>8 DEF UpdateRow, Answer
    <2>2. CASE req[r].session # z
      BY <1>t, <1>f, <2>1, <2>2, Apart DEF Works, TypeOK
    <2>3. CASE req[r].session = z
      <3>1. row'[z] = RowAfter(r, row[z])
        BY <1>t, <2>1, <2>3 DEF TypeOK
      <3>2. Works(r, z) /\ row[z].status # "none"
        BY <1>t, <2>1, <2>3 DEF Works, Calm, Grounded
      <3>3. /\ req[r].user = NoUser => row'[z] = [status |-> "scanned", user |-> row[z].user]
            /\ req[r].user # NoUser => row'[z] = [status |-> "approved", user |-> req[r].user]
        BY <1>t, <3>1 DEF RowAfter, TypeOK
      <3>4. Grounded(z)'
        BY <1>t, <2>1, <3>3 DEF Calm, Grounded
      <3>5. z \notin disturbed => Settled(z)'
        <4>1. SUFFICES ASSUME z \notin disturbed PROVE Settled(z)'
          OBVIOUS
        <4>2. Stage(r, z)
          BY <1>t, <3>2, <4>1 DEF Calm
        <4>3. CASE req[r].user = NoUser
          <5>1. /\ Unapproved(z)' /\ row'[z] = [status |-> "scanned", user |-> NoUser]
                /\ key[z].status \in {"none", "scanned"}
            BY <2>1, <3>3, <4>2, <4>3 DEF Stage, Unapproved
          <5>2. key[z].user = NoUser
            BY <1>t, <5>1 DEF Calm, Grounded
          <5>3. QED
            BY <2>1, <5>1, <5>2 DEF Settled, Unapproved
        <4>4. CASE req[r].user # NoUser
          <5>1. /\ row'[z] = [status |-> "approved", user |-> req[r].user]
                /\ \/ key[z].status = "none"
                   \/ key[z].status = "approved" /\ key[z].user = req[r].user
            BY <2>1, <3>3, <4>2, <4>4 DEF Stage
          <5>2. \A a \in approved' : a[1] = z => a[2] = req[r].user
            BY <2>1, <4>2 DEF Stage, Unapproved
          <5>3. QED
            BY <2>1, <5>1, <5>2 DEF Settled
        <4>5. QED
          BY <4>3, <4>4
      <3>6. QED
        BY <1>t, <1>f, <2>1, <3>2, <3>4, <3>5, Doing
    <2>4. QED
      BY <2>2, <2>3
  <1>9. ASSUME NEW r \in Req, WriteFails(r)
        PROVE  Calm(z)'
    <2>1. /\ disturbed' = disturbed \cup {req[r].session}
          /\ UNCHANGED <<key, row>>
          /\ req[r].pc \in {"store", "approve", "scan", "row"}
          /\ \/ approved' = approved
             \/ approved' = approved \cup {<<req[r].session, req[r].user>>}
          /\ Finish(r) \/ req' = [req EXCEPT ![r].pc = "row", ![r].ttl = 0]
      BY <1>9 DEF WriteFails, Answer
    <2>2. /\ \A q \in Req : q # r => req'[q] = req[q]
          /\ req'[r].session = req[r].session \/ req'[r].session = NoSession
      <3>1. CASE Finish(r)
        BY <1>f, <3>1 DEF Idle
      <3>2. CASE req' = [req EXCEPT ![r].pc = "row", ![r].ttl = 0]
        BY <1>m, <3>2
      <3>3. QED
        BY <2>1, <3>1, <3>2
    <2>3. CASE req[r].session # z
      BY <1>t, <2>1, <2>2, <2>3, Apart DEF Works
    <2>4. CASE req[r].session = z
      <3>1. row[z].status # "none" /\ z \in disturbed'
        BY <1>t, <2>1, <2>4 DEF Calm, Grounded
      <3>2. Grounded(z)'
        BY <1>t, <2>1, <3>1 DEF Calm, Grounded
      <3>3. QED
        BY <3>1, <3>2 DEF Calm
    <2>5. QED
      BY <2>3, <2>4
  <1>10. ASSUME NEW r \in Req, NEW s \in Session, Poll(r, s)
         PROVE  Calm(z)'
    <2>1. /\ req[r].pc = "idle" /\ key[s].status = "approved"
          /\ UNCHANGED <<key, row, approved, disturbed>>
          /\ req'[r].pc = "token" /\ req'[r].session = s
          /\ \A q \in Req : q # r => req'[q] = req[q]
      BY <1>10, <1>b DEF Poll
    <2>2. row[z].status = "none" => s # z
      BY <1>t, <2>1 DEF Calm, Grounded
    <2>3. QED
      BY <1>t, <1>i, <2>1, <2>2, Apart DEF Works
  <1>11. ASSUME NEW r \in Req, IssueToken(r) \/ IssueTokenFails(r)
         PROVE  Calm(z)'
    <2>1. /\ req[r].pc = "token" /\ Finish(r)
          /\ UNCHANGED <<key, row, approved, disturbed>>
      BY <1>11 DEF IssueToken, IssueTokenFails
    <2>2. QED
      BY <1>t, <1>f, <2>1, Apart DEF Works
  <1>12. CASE Tick
    <2>1. /\ UNCHANGED <<row, req, approved, disturbed>>
          /\ \/ key'[z] = Absent
             \/ key[z].ttl > 1 /\ key'[z] = [key[z] EXCEPT !.ttl = @ - 1]
      <3>1. key[z].ttl \in Nat
        BY <1>t DEF TypeOK, Key
      <3>2. QED
        BY <1>12, <3>1 DEF Tick
    <2>2. \/ key'[z].status = "none" /\ key'[z].user = NoUser
          \/ /\ key'[z].status = key[z].status /\ key'[z].user = key[z].user
             /\ key'[z].ttl > 0
      <3>1. key[z] \in Key
        BY <1>t DEF TypeOK
      <3>2. QED
        BY <2>1, <3>1 DEF Key, Absent
    <2>3. /\ Unapproved(z)' <=> Unapproved(z)
          /\ AtWork(z)' <=> AtWork(z)
          /\ \A r \in Req : Works(r, z)' <=> Works(r, z)
      BY <2>1 DEF Unapproved, AtWork, Works
    <2>4. Grounded(z)'
      BY <1>t, <2>1, <2>2, <2>3 DEF Calm, Grounded
    <2>5. ASSUME z \notin disturbed
          PROVE  Settled(z)'
      BY <1>t, <2>1, <2>2, <2>3, <2>5 DEF Calm, Settled
    <2>6. ASSUME z \notin disturbed, NEW r \in Req, Works(r, z)
          PROVE  Stage(r, z)'
      <3>1. Stage(r, z)
        BY <1>t, <2>6 DEF Calm
      <3>2. QED
        BY <2>1, <2>2, <2>3, <3>1 DEF Stage
    <2>7. QED
      BY <1>t, <2>1, <2>3, <2>4, <2>5, <2>6 DEF Calm
  <1>13. CASE UNCHANGED vars
    BY <1>t, <1>13 DEF vars, Calm, Grounded, Works, Stage, Settled, Unapproved, AtWork
  <1>14. QED
    BY <1>1, <1>2, <1>3, <1>4, <1>5, <1>6, <1>7, <1>8, <1>9, <1>10,
       <1>11, <1>12, <1>13 DEF Next

LEMMA CalmInit == Init => AllCalm /\ AllRemembered
  BY QrAssumption
  DEF Init, AllCalm, AllRemembered, Remembered, Calm, Grounded, Works, Stage, Settled, Unapproved,
      AtWork, Idle, Absent

LEMMA QrCalm == Spec => [](AllCalm /\ TypeOK)
  <1>1. QrInv => TypeOK
    BY DEF QrInv
  <1>2. QED
    BY <1>1, QrInvInit, QrInvNext, CalmInit, CalmStep, RememberedStep, PTL DEF Spec

\* The page that polls a session is signed in as one user.
THEOREM QrOneApprover == Spec => []OneApprover
  <1>1. AllCalm /\ TypeOK => OneApprover
    BY DEF AllCalm, TypeOK, Calm, Settled, OneApprover, Undisturbed
  <1>2. QED
    BY <1>1, QrCalm, PTL

\* An approval answered with success stays in the key until its time is up.
THEOREM QrApprovalSticks == Spec => []ApprovalSticks
  <1>1. AllCalm /\ TypeOK => ApprovalSticks
    BY DEF AllCalm, TypeOK, Calm, Settled, Unapproved, ApprovalSticks, Undisturbed
  <1>2. QED
    BY <1>1, QrCalm, PTL

\* With no request in progress, the row says of a session what the key does.
THEOREM QrRowFollowsKey == Spec => []RowFollowsKey
  <1>1. AllCalm /\ TypeOK => RowFollowsKey
    BY DEF AllCalm, TypeOK, Calm, Settled, RowFollowsKey, Undisturbed
  <1>2. QED
    BY <1>1, QrCalm, PTL

=============================================================================
