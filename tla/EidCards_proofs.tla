--------------------------- MODULE EidCards_proofs ---------------------------
(***************************************************************************)
(* Theorems about Accounts and EidCards, for any numbers of users,         *)
(* accounts, citizens, cards and requests.  The inductive invariant has    *)
(* one predicate for each concern: what a request may rely on at each of   *)
(* its statements, what the tables say of each other, the levels that are  *)
(* still owed to a check, and the entries that are still owed to a card.   *)
(***************************************************************************)
EXTENDS EidCards, TLAPS

-----------------------------------------------------------------------------
(* The inductive invariant.                                                *)

\* What request r to the account handlers may rely on at its next call.
Sound(r) ==
    LET q == req[r] IN
    /\ q.pc = "drop" => q.state \in State
    /\ q.pc \in {"drop", "find", "match", "pend"} => q.who \in Account
    /\ q.pc = "create" => q.who \in Identity
    /\ q.pc \in {"pend", "enter", "check", "tie", "unpend", "select", "insert",
                 "commit", "refresh", "level"} =>
          q.user \in User /\ Exists(q.user)
    /\ q.pc = "enter" =>
          /\ q.who \in Identity
          /\ <<q.user, q.who>> \in tied \cup relinked \/ users[q.user].email = q.who
    /\ q.pc \in {"check", "tie", "unpend"} => q.op = "confirm"
    /\ q.pc \in {"tie", "unpend"} => <<q.user, q.who>> \in tied \cup relinked
    /\ q.pc \in {"check", "tie", "unpend", "select", "insert", "commit"}
          /\ q.op = "confirm" => q.who \in Account
    /\ q.pc \in {"check", "select", "insert", "commit", "refresh"} =>
          q.citizen \in Citizen
    /\ q.pc \in {"select", "insert", "commit"} =>
          q.op \in {"confirm", "verify", "dan"}
    /\ q.pc = "refresh" => q.op = "dan"
    /\ q.pc \in {"refresh", "level"} =>
          /\ q.op \in {"verify", "dan", "phone"}
          /\ <<q.user, Level(q.op)>> \in proofs

\* What request r to the e-ID service may rely on.
EidSound(r) ==
    LET q == ereq[r] IN
    /\ q.pc \in {"mark", "raise", "metadata"} =>
          /\ q.user \in User /\ Exists(q.user)
          /\ q.citizen \in Citizen
          /\ users[q.user].citizen # NoCitizen
          /\ <<q.user, 4>> \in proofs
    /\ q.pc \in {"raise", "metadata"} => eid[q.citizen]
    /\ q.pc = "metadata" => users[q.user].level = 4
    /\ q.pc \in Entry => q.card \in Card

\* A row that is not in use has nothing to it, and nothing names it.
RowsAreUsed ==
    \A u \in User :
        /\ users[u].citizen # NoCitizen => Exists(u)
        /\ pending[u] # Nobody => Exists(u)
        /\ \A a \in users[u].accounts : Exists(u) /\ <<u, a>> \in tied \cup relinked
        /\ users[u].level = 1 \/ <<u, users[u].level>> \in proofs

HistoryIsOfUsers ==
    /\ \A l \in logins : Exists(l[1])
    /\ \A p \in proofs : Exists(p[1])
    /\ \A a \in answered :
          /\ Exists(a[1])
          /\ users[a[1]].level = 4 /\ users[a[1]].verified
          /\ eid[a[2]]

StatesAreSpent == \A s \in spent : oauth[s] = "gone"

\* A check that has passed is on record at its level or better, or a request
\* is about to write it, or one failed to.
OwedByAccount(r, p) ==
    /\ req[r].pc \in {"refresh", "level"}
    /\ req[r].user = p[1] /\ Level(req[r].op) = p[2]

OwedByCard(r, p) ==
    /\ ereq[r].pc \in {"mark", "raise"}
    /\ ereq[r].user = p[1] /\ p[2] = 4

LevelsAreOwed ==
    \A p \in proofs :
        \/ p[2] <= users[p[1]].level
        \/ p[1] \in faulty
        \/ \E r \in Req : OwedByAccount(r, p) \/ OwedByCard(r, p)

\* An entry in the log and a request that will write one exclude each other,
\* and no two requests have the same one to write.
EntriesAreOwed ==
    /\ \A k \in Card :
          /\ \A e \in Entry : audit[k][e] <= 1
          /\ card[k] = "none" => audit[k]["issued"] = 0
          /\ card[k] # "revoked" => audit[k]["revoked"] = 0
    /\ \A r \in Req : ereq[r].pc \in Entry =>
          /\ audit[ereq[r].card][ereq[r].pc] = 0
          /\ card[ereq[r].card] # "none"
          /\ ereq[r].pc = "revoked" => card[ereq[r].card] = "revoked"
          /\ \A q \in Req \ {r} :
                ~(ereq[q].pc = ereq[r].pc /\ ereq[q].card = ereq[r].card)

Inv ==
    /\ TypeOK
    /\ \A r \in Req : Sound(r) /\ EidSound(r)
    /\ RowsAreUsed
    /\ HistoryIsOfUsers
    /\ StatesAreSpent
    /\ LoginsAreTied
    /\ VerifiedHasCitizen
    /\ LevelsAreOwed
    /\ EntriesAreOwed


-----------------------------------------------------------------------------
(* Types.                                                                  *)

\* The empty requests have the type of a request.
LEMMA IdleTypes == Idle \in Request /\ EidIdle \in EidRequest
  BY DEF Idle, Request, EidIdle, EidRequest

PC == {"idle", "drop", "find", "match", "pend", "create", "enter", "check",
       "tie", "unpend", "select", "insert", "commit", "refresh", "level"}

\* A request keeps its type when it moves on.
LEMMA RequestMoves ==
    ASSUME NEW q \in Request, NEW p \in PC
    PROVE  /\ [q EXCEPT !.pc = p] \in Request
           /\ [q EXCEPT !.pc = p, !.state = NoState] \in Request
           /\ \A u \in User : [q EXCEPT !.pc = p, !.user = u] \in Request
  <1>1. [q EXCEPT !.pc = p] \in Request
    BY DEF Request, PC
  <1>2. [q EXCEPT !.pc = p, !.state = NoState] \in Request
    BY DEF Request, PC
  <1>3. ASSUME NEW u \in User
        PROVE  [q EXCEPT !.pc = p, !.user = u] \in Request
    BY DEF Request, PC
  <1>4. QED
    BY <1>1, <1>2, <1>3

LEMMA EidRequestMoves ==
    ASSUME NEW q \in EidRequest, NEW p \in {"raise", "metadata"}
    PROVE  [q EXCEPT !.pc = p] \in EidRequest
  BY DEF EidRequest

\* A new request has the type of one.
LEMMA AboutType ==
    ASSUME NEW op \in Operation, NEW pc \in PC, NEW i \in Identity \cup {Nobody},
           NEW u \in User \cup {NoUser}, NEW c \in Citizen \cup {NoCitizen}
    PROVE  /\ About(op, pc, i, u, c) \in Request
           /\ \A s \in State :
                 [pc |-> pc, op |-> op, who |-> i, user |-> u, citizen |-> c,
                  state |-> s] \in Request
  BY DEF About, Request, PC

LEMMA EntryType ==
    ASSUME NEW e \in Entry, NEW k \in Card
    PROVE  EntryOf(e, k) \in EidRequest
  BY DEF EntryOf, EidRequest

\* What the statements make of a row.
LEMMA RowType ==
    ASSUME NEW w \in Row
    PROVE  /\ \A A \in SUBSET Account : [w EXCEPT !.accounts = A] \in Row
           /\ \A c \in Citizen : [w EXCEPT !.citizen = c, !.verified = TRUE] \in Row
           /\ \A n \in 1..4 : [w EXCEPT !.level = Raised(@, n)] \in Row
           /\ \A n \in 1..4 : Raised(w.level, n) >= w.level /\ Raised(w.level, n) >= n
           /\ \A b \in BOOLEAN : [w EXCEPT !.verified = b] \in Row
  <1>1. ASSUME NEW A \in SUBSET Account
        PROVE  [w EXCEPT !.accounts = A] \in Row
    BY DEF Row
  <1>2. ASSUME NEW c \in Citizen
        PROVE  [w EXCEPT !.citizen = c, !.verified = TRUE] \in Row
    BY DEF Row
  <1>3. ASSUME NEW n \in 1..4
        PROVE  /\ [w EXCEPT !.level = Raised(@, n)] \in Row
               /\ Raised(w.level, n) >= w.level /\ Raised(w.level, n) >= n
    <2>1. w.level \in 1..4
      BY DEF Row
    <2>2. /\ Raised(w.level, n) \in 1..4
          /\ Raised(w.level, n) >= w.level /\ Raised(w.level, n) >= n
      BY <2>1 DEF Raised
    <2>3. [w EXCEPT !.level = Raised(w.level, n)] \in Row
      BY <2>2 DEF Row
    <2>4. QED
      BY <2>2, <2>3
  <1>4. ASSUME NEW b \in BOOLEAN
        PROVE  [w EXCEPT !.verified = b] \in Row
    BY DEF Row
  <1>5. QED
    BY <1>1, <1>2, <1>3, <1>4

LEMMA NewRowType ==
    ASSUME NEW i \in Identity
    PROVE  /\ [NoRow EXCEPT !.email = StoredEmail(i), !.accounts = {i} \cap Account]
                 \in Row
           /\ StoredEmail(i) \in Identity /\ StoredEmail(i) # NoEmail
           /\ NoRow \in Row
  <1>1. StoredEmail(i) \in Identity /\ StoredEmail(i) # NoEmail
    BY AccountsAssumption DEF StoredEmail, Identity
  <1>2. NoRow \in Row
    BY DEF NoRow, Row
  <1>3. QED
    BY <1>1, <1>2 DEF Row

\* The level of an operation that has one.
LEMMA LevelType ==
    /\ Level("verify") = 2 /\ Level("phone") = 3 /\ Level("dan") = 4
  BY DEF Level

\* The login pages and the callbacks of the four providers are one step each.
USE DEF GoogleLogin, AppleLogin, FacebookLogin, TwitterLogin,
        GoogleCallback, AppleCallback, FacebookCallback, TwitterCallback

\* What is shown of the steps of Accounts and of those of the cards is shown
\* of every step.
LEMMA StepCases ==
    ASSUME [Next]_vars
    PROVE  \/ UNCHANGED vars
           \/ AccountsNext /\ UNCHANGED eidVars
           \/ \E r \in Req : CardStep(r) \/ EidStep(r)
  BY DEF Next

\* Every step keeps the types.
LEMMA TypeStep == Inv /\ [Next]_vars => TypeOK'
  <1> SUFFICES ASSUME Inv, [Next]_vars
               PROVE  TypeOK'
    OBVIOUS
  <1>t. TypeOK /\ (\A r \in Req : Sound(r) /\ EidSound(r)) /\ RowsAreUsed
    BY DEF Inv
  <1> USE <1>t, IdleTypes DEF TypeOK, AccountsTypeOK
  <1>1. ASSUME NEW p \in Providers, IssueState(p), UNCHANGED eidVars
        PROVE  TypeOK'
    BY <1>1 DEF IssueState, eidVars
  <1>2. ASSUME NEW r \in Req, NEW p \in Providers, NEW s \in State,
               NEW a \in Account, Callback(r, p, s, a), UNCHANGED eidVars
        PROVE  TypeOK'
    <2>1. [pc |-> "drop", op |-> p, who |-> a, user |-> NoUser,
           citizen |-> NoCitizen, state |-> s] \in Request
      BY AboutType DEF PC, Operation, Providers, Identity
    <2>2. QED
      BY <1>2, <2>1 DEF Callback, Begin, eidVars
  <1>3. ASSUME NEW r \in Req, DropState(r), UNCHANGED eidVars
        PROVE  TypeOK'
    <2>1. req[r].state \in State
      BY <1>3 DEF DropState, At, Sound
    <2>2. [req[r] EXCEPT !.pc = "find", !.state = NoState] \in Request
      BY RequestMoves DEF PC
    <2>3. req' \in [Req -> Request]
      BY <1>3, <2>2 DEF DropState
    <2>4. QED
      BY <1>3, <2>1, <2>3 DEF DropState, Deleted, eidVars
  <1>4. ASSUME NEW r \in Req, FindUser(r) \/ MatchEmail(r), UNCHANGED eidVars
        PROVE  TypeOK'
    <2>1. \/ \E p \in PC : req' = [req EXCEPT ![r].pc = p]
          \/ \E p \in PC, u \in User : req' = [req EXCEPT ![r].pc = p, ![r].user = u]
      BY <1>4 DEF FindUser, MatchEmail, GoTo, PC, Holder, Owner
    <2>3. req' \in [Req -> Request]
      <3>1. CASE \E p \in PC : req' = [req EXCEPT ![r].pc = p]
        <4>1. PICK p \in PC : req' = [req EXCEPT ![r].pc = p]
          BY <3>1
        <4>2. [req[r] EXCEPT !.pc = p] \in Request
          BY RequestMoves
        <4>3. QED
          BY <4>1, <4>2
      <3>2. CASE \E p \in PC, u \in User :
                    req' = [req EXCEPT ![r].pc = p, ![r].user = u]
        <4>1. PICK p \in PC, u \in User :
                 req' = [req EXCEPT ![r].pc = p, ![r].user = u]
          BY <3>2
        <4>2. [req[r] EXCEPT !.pc = p, !.user = u] \in Request
          BY RequestMoves
        <4>3. QED
          BY <4>1, <4>2
      <3>3. QED
        BY <2>1, <3>1, <3>2
    <2>4. QED
      BY <1>4, <2>3 DEF FindUser, MatchEmail, eidVars
  <1>5. ASSUME NEW r \in Req, StorePending(r) \/ Enter(r) \/ Fail(r),
               UNCHANGED eidVars
        PROVE  TypeOK'
    <2>1. CASE StorePending(r)
      <3>1. req[r].user \in User /\ req[r].who \in Account
        BY <2>1 DEF StorePending, At, Sound
      <3>2. QED
        BY <1>5, <2>1, <3>1 DEF StorePending, Finish, eidVars
    <2>2. CASE Enter(r)
      <3>1. req[r].user \in User /\ req[r].who \in Identity
        BY <2>2 DEF Enter, At, Sound
      <3>2. QED
        BY <1>5, <2>2, <3>1 DEF Enter, Finish, eidVars
    <2>3. CASE Fail(r)
      <3>1. At(r, "refresh") \/ At(r, "level") => req[r].user \in User
        BY DEF At, Sound
      <3>2. QED
        BY <1>5, <2>3, <3>1 DEF Fail, Finish, eidVars
    <2>4. QED
      BY <1>5, <2>1, <2>2, <2>3
  <1>6. ASSUME NEW r \in Req, CreateUser(r), UNCHANGED eidVars
        PROVE  TypeOK'
    <2> DEFINE i == req[r].who
               row == [NoRow EXCEPT !.email = StoredEmail(i),
                                    !.accounts = {i} \cap Account]
    <2>1. i \in Identity
      BY <1>6 DEF CreateUser, At, Sound
    <2>2. PICK u \in User :
            /\ users' = [users EXCEPT ![u] = row]
            /\ req' = [req EXCEPT ![r].pc = "enter", ![r].user = u]
            /\ tied' = tied \cup ({u} \X ({i} \cap Account))
            /\ relinked' = relinked
      BY <1>6 DEF CreateUser
    <2>3. row \in Row
      BY <2>1, NewRowType
    <2>4. [req[r] EXCEPT !.pc = "enter", !.user = u] \in Request
      BY RequestMoves DEF PC
    <2>5. tied' \subseteq User \X Account /\ relinked' \subseteq User \X Account
      BY <2>2
    <2> HIDE DEF row
    <2>6. users' \in [User -> Row] /\ req' \in [Req -> Request]
      BY <2>2, <2>3, <2>4
    <2>7. QED
      BY <1>6, <2>5, <2>6 DEF CreateUser, eidVars
  <1>7. ASSUME NEW r \in Req, NEW e \in Email, VerifyEmailOTP(r, e),
               UNCHANGED eidVars
        PROVE  TypeOK'
    <2>1. /\ About("email", "create", e, NoUser, NoCitizen) \in Request
          /\ \A u \in User : About("email", "enter", e, u, NoCitizen) \in Request
      BY AboutType DEF Operation, PC, Identity
    <2>2. req' \in [Req -> Request]
      BY <1>7, <2>1 DEF VerifyEmailOTP, Begin, Owner
    <2>3. QED
      BY <1>7, <2>2 DEF VerifyEmailOTP, eidVars
  <1>8. ASSUME NEW r \in Req, NEW u \in User, NEW c \in Citizen \cup {NoCitizen},
               \/ ConfirmIdentityLink(r, u, c) \/ VerifyIdentity(r, u, c)
               \/ DanCallback(r, u, c) \/ VerifyPhoneOTP(r, u),
               UNCHANGED eidVars
        PROVE  TypeOK'
    <2>1. /\ About("verify", "select", Nobody, u, c) \in Request
          /\ About("dan", "select", Nobody, u, c) \in Request
          /\ About("phone", "level", Nobody, u, NoCitizen) \in Request
      BY AboutType DEF Operation, PC, Identity
    <2>2. About("confirm", "check", pending[u], u, c) \in Request
      BY AboutType DEF Operation, PC, Identity
    <2>3. req' \in [Req -> Request]
      BY <1>8, <2>1, <2>2
         DEF ConfirmIdentityLink, VerifyIdentity, DanCallback, VerifyPhoneOTP, Begin
    <2>4. QED
      BY <1>8, <2>3
         DEF ConfirmIdentityLink, VerifyIdentity, DanCallback, VerifyPhoneOTP, eidVars
  <1>9. ASSUME NEW r \in Req,
               \/ CheckCitizen(r) \/ DropPending(r) \/ SelectCitizen(r)
               \/ InsertCitizen(r) \/ RefreshCitizen(r),
               UNCHANGED eidVars
        PROVE  TypeOK'
    <2>1. req' = [req EXCEPT ![r] = Idle] \/ \E p \in PC : req' = [req EXCEPT ![r].pc = p]
      BY <1>9 DEF CheckCitizen, DropPending, SelectCitizen, InsertCitizen,
                  RefreshCitizen, GoTo, Finish, PC
    <2>2. req' \in [Req -> Request]
      <3>1. CASE \E p \in PC : req' = [req EXCEPT ![r].pc = p]
        <4>1. PICK p \in PC : req' = [req EXCEPT ![r].pc = p]
          BY <3>1
        <4>2. [req[r] EXCEPT !.pc = p] \in Request
          BY RequestMoves
        <4>3. QED
          BY <4>1, <4>2
      <3>2. QED
        BY <2>1, <3>1
    <2>3. CASE CheckCitizen(r)
      <3>1. req[r].user \in User /\ req[r].who \in Account
        BY <2>3 DEF CheckCitizen, At, Sound
      <3>2. tied' \subseteq User \X Account
        BY <2>3, <3>1 DEF CheckCitizen
      <3>3. QED
        BY <1>9, <2>2, <2>3, <3>2 DEF CheckCitizen, eidVars
    <2>4. CASE DropPending(r)
      BY <1>9, <2>2, <2>4 DEF DropPending, eidVars
    <2>5. CASE SelectCitizen(r) \/ InsertCitizen(r) \/ RefreshCitizen(r)
      BY <1>9, <2>2, <2>5 DEF SelectCitizen, InsertCitizen, RefreshCitizen, eidVars
    <2>6. QED
      BY <1>9, <2>3, <2>4, <2>5
  <1>10. ASSUME NEW r \in Req, LinkProviderID(r), UNCHANGED eidVars
         PROVE  TypeOK'
    <2> DEFINE u == req[r].user
               A == WithAccount(u, req[r].who)
    <2>1. u \in User /\ req[r].who \in Account
      BY <1>10 DEF LinkProviderID, At, Sound
    <2>2. users[u] \in Row /\ users[u].accounts \in SUBSET Account
      BY <2>1 DEF Row
    <2>3. A \in SUBSET Account
      BY <2>1, <2>2 DEF WithAccount
    <2>4. users' = users \/ users' = [users EXCEPT ![u].accounts = A]
      BY <1>10 DEF LinkProviderID
    <2>5. [users[u] EXCEPT !.accounts = A] \in Row
      BY <2>2, <2>3, RowType
    <2>6. req' = [req EXCEPT ![r] = Idle] \/ req' = [req EXCEPT ![r].pc = "unpend"]
      BY <1>10 DEF LinkProviderID, GoTo, Finish
    <2>7. [req[r] EXCEPT !.pc = "unpend"] \in Request
      BY RequestMoves DEF PC
    <2> HIDE DEF A
    <2>8. users' \in [User -> Row]
      BY <2>1, <2>4, <2>5
    <2>9. req' \in [Req -> Request]
      BY <2>6, <2>7
    <2>10. QED
      BY <1>10, <2>8, <2>9 DEF LinkProviderID, eidVars
  <1>11. ASSUME NEW r \in Req, CommitLink(r), UNCHANGED eidVars
         PROVE  TypeOK'
    <2> DEFINE u == req[r].user
               c == req[r].citizen
               p == AfterLink(req[r].op)
    <2>1. /\ u \in User /\ c \in Citizen
          /\ req[r].op \in {"confirm", "verify", "dan"}
          /\ req[r].op = "confirm" => req[r].who \in Account
      BY <1>11 DEF CommitLink, At, Sound
    <2>2. p \in PC
      <3>1. AfterLink("confirm") = "tie" /\ AfterLink("verify") = "level"
            /\ AfterLink("dan") = "refresh"
        BY DEF AfterLink
      <3>2. QED
        BY <2>1, <3>1 DEF PC
    <2>3. [users[u] EXCEPT !.citizen = c, !.verified = TRUE] \in Row
      BY <2>1, RowType
    <2>4. [req[r] EXCEPT !.pc = p] \in Request
      BY <2>2, RequestMoves
    <2>5. users' \in [User -> Row]
      BY <1>11, <2>1, <2>3 DEF CommitLink
    <2>6. req' = [req EXCEPT ![r].pc = p]
      BY <1>11 DEF CommitLink, GoTo
    <2>7. citizens' \in [Citizen -> {"absent", "core", "dan"}]
      BY <1>11, <2>1 DEF CommitLink, Kept, Inserted
    <2>8. tied' \subseteq User \X Account /\ relinked' \subseteq User \X Account
      BY <1>11, <2>1 DEF CommitLink
    <2>9. proofs' \subseteq User \X (2..4)
      <3>1. req[r].op # "confirm" => Level(req[r].op) \in 2..4
        BY <2>1, LevelType
      <3>2. QED
        BY <1>11, <2>1, <3>1 DEF CommitLink
    <2> HIDE DEF p
    <2>10. req' \in [Req -> Request]
      BY <2>4, <2>6
    <2>11. QED
      BY <1>11, <2>5, <2>7, <2>8, <2>9, <2>10 DEF CommitLink, eidVars
  <1>12. ASSUME NEW r \in Req, UpdateVerificationLevel(r), UNCHANGED eidVars
         PROVE  TypeOK'
    <2> DEFINE u == req[r].user
               n == Level(req[r].op)
    <2>b. u \in User /\ req[r].op \in {"verify", "dan", "phone"}
      BY <1>12 DEF UpdateVerificationLevel, At, Sound
    <2>1. u \in User /\ n \in 1..4
      BY <2>b, LevelType
    <2>2. [users[u] EXCEPT !.level = Raised(@, n)] \in Row
      BY <2>1, RowType
    <2>3. users' = users \/ users' = [users EXCEPT ![u].level = Raised(@, n)]
      BY <1>12 DEF UpdateVerificationLevel
    <2> DEFINE w == [users[u] EXCEPT !.level = Raised(@, n)]
    <2>a. users' = users \/ users' = [users EXCEPT ![u] = w]
      BY <2>3
    <2> HIDE DEF w
    <2>4. users' \in [User -> Row]
      <3>1. w \in Row
        BY <2>2 DEF w
      <3>2. QED
        BY <2>1, <2>a, <3>1
    <2>5. /\ faulty' \subseteq User
          /\ req' = [req EXCEPT ![r] = Idle]
          /\ UNCHANGED <<citizens, oauth, pending, load, tied, relinked, logins, spent, proofs>>
      BY <1>12, <2>1 DEF UpdateVerificationLevel, Finish
    <2>6. QED
      BY <1>12, <2>4, <2>5 DEF eidVars
  <1>13. ASSUME Expire \/ \E c \in Citizen : DanAuthorized(c), UNCHANGED eidVars
         PROVE  TypeOK'
    BY <1>13 DEF Expire, DanAuthorized, UpdateCitizenFromDAN, eidVars
  <1>14. ASSUME NEW r \in Req, NEW u \in User, NEW c \in Citizen, VerifyEID(r, u, c)
         PROVE  TypeOK'
    <2>1. [pc |-> "mark", user |-> u, citizen |-> c, card |-> NoCard] \in EidRequest
      BY DEF EidRequest
    <2>2. QED
      BY <1>14, <2>1 DEF VerifyEID, EidBegin
  <1>15. ASSUME NEW r \in Req, MarkCitizen(r) \/ RaiseToFour(r) \/ ConsultMetadata(r)
         PROVE  TypeOK'
    <2> DEFINE u == ereq[r].user
    <2>1. u \in User /\ ereq[r].citizen \in Citizen
      BY <1>15 DEF MarkCitizen, RaiseToFour, ConsultMetadata, EidSound
    <2>2. \A p \in {"raise", "metadata"} : [ereq[r] EXCEPT !.pc = p] \in EidRequest
      BY EidRequestMoves
    <2>3. CASE MarkCitizen(r)
      BY <2>1, <2>2, <2>3 DEF MarkCitizen, accountVars
    <2>4. CASE RaiseToFour(r)
      <3>a. users[u] \in Row /\ 4 \in 1..4
        BY <2>1
      <3>1. [users[u] EXCEPT !.level = Raised(@, 4)] \in Row
        BY <3>a, RowType
      <3>2. QED
        BY <2>1, <2>2, <2>4, <3>1 DEF RaiseToFour
    <2>5. CASE ConsultMetadata(r)
      <3>2. PICK f \in GetNationalIDMetadata :
               users' = [users EXCEPT ![u].verified = @ \/ f = "found"]
        BY <2>5 DEF ConsultMetadata
      <3> DEFINE b == users[u].verified \/ f = "found"
      <3>3. b \in BOOLEAN
        BY <2>1 DEF Row
      <3> DEFINE w == [users[u] EXCEPT !.verified = b]
      <3>4. users' = [users EXCEPT ![u] = w]
        BY <3>2
      <3>a. w \in Row
        <4> HIDE DEF b
        <4>1. QED
          BY <3>3, <2>1, RowType
      <3> HIDE DEF w
      <3>5. users' \in [User -> Row]
        BY <3>4, <3>a, <2>1
      <3>6. QED
        BY <2>1, <2>5, <3>5 DEF ConsultMetadata, EidFinish
    <2>6. QED
      BY <1>15, <2>3, <2>4, <2>5
  <1>16. ASSUME NEW r \in Req, EidFail(r)
         PROVE  TypeOK'
    BY <1>16 DEF EidFail, EidFinish, EidSound
  <1>17. ASSUME NEW r \in Req, NEW k \in Card,
                (\E c \in Citizen : RegisterCard(r, k, c)) \/ RevokeCard(r, k)
         PROVE  TypeOK'
    <2>1. \A e \in Entry : EntryOf(e, k) \in EidRequest
      BY EntryType
    <2>2. QED
      BY <1>17, <2>1 DEF RegisterCard, RevokeCard, EidBegin, Entry, accountVars
  <1>18. ASSUME NEW r \in Req, writeAuditLog(r)
         PROVE  TypeOK'
    <2> DEFINE k == ereq[r].card
               e == ereq[r].pc
    <2>1. k \in Card /\ e \in Entry
      BY <1>18 DEF writeAuditLog, EidSound
    <2>2. audit[k][e] + 1 \in 0..MaxEntries
      BY <1>18, <2>1, EidAssumption DEF writeAuditLog
    <2>3. audit' = [audit EXCEPT ![k] = [audit[k] EXCEPT ![e] = audit[k][e] + 1]]
      BY <1>18, <2>1 DEF writeAuditLog
    <2>4. audit' \in [Card -> [Entry -> 0..MaxEntries]]
      BY <2>1, <2>2, <2>3
    <2>5. QED
      BY <1>18, <2>4 DEF writeAuditLog, EidFinish, accountVars
  <1>19. CASE UNCHANGED vars
    BY <1>19 DEF vars
  <1>20. ASSUME NEW r \in Req, LoginStep(r), UNCHANGED eidVars
         PROVE  TypeOK'
    <2>1. Providers = {"google", "apple", "facebook", "twitter"}
      BY DEF Providers
    <2>2. QED
      BY <1>2, <1>3, <1>4, <1>5, <1>6, <1>7, <1>20, <2>1 DEF LoginStep
  <1>21. ASSUME NEW r \in Req, LinkStep(r), UNCHANGED eidVars
         PROVE  TypeOK'
    BY <1>8, <1>9, <1>10, <1>11, <1>21 DEF LinkStep
  <1>22. ASSUME NEW r \in Req, LevelStep(r), UNCHANGED eidVars
         PROVE  TypeOK'
    BY <1>8, <1>9, <1>12, <1>22 DEF LevelStep
  <1>23. ASSUME AccountsNext, UNCHANGED eidVars
         PROVE  TypeOK'
    <2>1. Providers = {"google", "apple", "facebook", "twitter"}
      BY DEF Providers
    <2>2. QED
      BY <1>1, <1>5, <1>13, <1>20, <1>21, <1>22, <1>23, <2>1 DEF AccountsNext
  <1>24. ASSUME NEW r \in Req, CardStep(r) \/ EidStep(r)
         PROVE  TypeOK'
    BY <1>14, <1>15, <1>16, <1>17, <1>18, <1>24 DEF CardStep, EidStep
  <1>25. QED
    BY <1>19, <1>23, <1>24, StepCases

-----------------------------------------------------------------------------
(* What requests rely on.                                                  *)

\* What no step takes back of the rows in use, of what was shown to belong to
\* a user, and of the marks of the citizens.
Grows ==
    /\ \A u \in User : Exists(u) =>
          /\ users'[u].email = users[u].email
          /\ users[u].citizen # NoCitizen => users'[u].citizen # NoCitizen
          /\ users[u].verified => users'[u].verified
          /\ users[u].level <= users'[u].level
    /\ tied \cup relinked \subseteq tied' \cup relinked'
    /\ proofs \subseteq proofs'
    /\ \A c \in Citizen : eid[c] => eid'[c]

\* A request that has not moved may rely on what it relied on before.
LEMMA StaySound ==
    ASSUME TypeOK, TypeOK', Grows, NEW r \in Req, Sound(r), req'[r] = req[r]
    PROVE  Sound(r)'
  <1>1. \A u \in User : Exists(u) => Exists(u)' /\ users'[u].email = users[u].email
    BY DEF Grows, Exists
  <1>2. tied \cup relinked \subseteq tied' \cup relinked' /\ proofs \subseteq proofs'
    BY DEF Grows
  <1>3. QED
    BY <1>1, <1>2, Zenon DEF Sound

LEMMA StayEidSound ==
    ASSUME TypeOK, TypeOK', Grows, NEW r \in Req, EidSound(r), ereq'[r] = ereq[r]
    PROVE  EidSound(r)'
  <1>1. \A u \in User : Exists(u) =>
           /\ Exists(u)'
           /\ users[u].citizen # NoCitizen => users'[u].citizen # NoCitizen
           /\ users[u].level = 4 => users'[u].level = 4
    <2>1. \A u \in User : users[u].level \in 1..4 /\ users'[u].level \in 1..4
      BY DEF TypeOK, AccountsTypeOK, Row
    <2>2. QED
      BY <2>1 DEF Grows, Exists
  <1>2. proofs \subseteq proofs' /\ \A c \in Citizen : eid[c] => eid'[c]
    BY DEF Grows
  <1>3. QED
    BY <1>1, <1>2, SMT DEF EidSound

\* No step takes anything back.
LEMMA GrowStep ==
    ASSUME Inv, [Next]_vars
    PROVE  Grows
  <1>t. TypeOK /\ (\A r \in Req : Sound(r) /\ EidSound(r)) /\ TypeOK' /\ VerifiedHasCitizen
    BY TypeStep DEF Inv
  <1>r. \A u \in User : users[u] \in Row /\ users[u].level \in 1..4
    BY <1>t DEF TypeOK, AccountsTypeOK, Row
  <1>0. ASSUME UNCHANGED users, tied \cup relinked \subseteq tied' \cup relinked',
               proofs \subseteq proofs', UNCHANGED eid
        PROVE  Grows
    BY <1>0, <1>r DEF Grows
  <1>1. ASSUME NEW r \in Req, CreateUser(r), UNCHANGED eidVars
        PROVE  Grows
    <2>1. PICK u \in User :
            /\ ~Exists(u)
            /\ users' = [users EXCEPT ![u] = [NoRow EXCEPT
                  !.email = StoredEmail(req[r].who), !.accounts = {req[r].who} \cap Account]]
      BY <1>1 DEF CreateUser, Unused
    <2>2. \A v \in User \ {u} : users'[v] = users[v]
      BY <2>1, <1>t DEF TypeOK, AccountsTypeOK
    <2>3. tied \cup relinked \subseteq tied' \cup relinked' /\ UNCHANGED proofs /\ UNCHANGED eid
      BY <1>1 DEF CreateUser, eidVars
    <2>4. QED
      BY <1>r, <2>1, <2>2, <2>3 DEF Grows
  <1>2. ASSUME NEW r \in Req, LinkProviderID(r), UNCHANGED eidVars
        PROVE  Grows
    <2> DEFINE u == req[r].user
    <2>1. u \in User
      BY <1>2, <1>t DEF LinkProviderID, At, Sound
    <2>2. \/ users' = users
          \/ users' = [users EXCEPT ![u].accounts = WithAccount(u, req[r].who)]
      BY <1>2 DEF LinkProviderID
    <2>a. users \in [User -> Row]
      BY <1>t DEF TypeOK, AccountsTypeOK
    <2>3. \A v \in User : /\ users'[v].email = users[v].email
                          /\ users'[v].citizen = users[v].citizen
                          /\ users'[v].verified = users[v].verified
                          /\ users'[v].level = users[v].level
      BY <2>a, <2>1, <2>2 DEF Row
    <2>4. QED
      BY <1>2, <1>r, <2>3 DEF LinkProviderID, Grows, eidVars
  <1>3. ASSUME NEW r \in Req, CommitLink(r), UNCHANGED eidVars
        PROVE  Grows
    <2> DEFINE u == req[r].user
    <2>1. u \in User /\ req[r].citizen \in Citizen
      BY <1>3, <1>t DEF CommitLink, At, Sound
    <2>2. users' = [users EXCEPT ![u].citizen = req[r].citizen, ![u].verified = TRUE]
      BY <1>3 DEF CommitLink
    <2>3. \A v \in User : /\ users'[v].email = users[v].email
                          /\ users'[v].level = users[v].level
                          /\ users'[v].citizen \in {users[v].citizen, req[r].citizen}
                          /\ users[v].verified => users'[v].verified
      BY <1>r, <1>t, <2>1, <2>2 DEF TypeOK, AccountsTypeOK, Row
    <2>4. req[r].citizen # NoCitizen
      BY <2>1, AccountsAssumption
    <2>5. /\ tied \cup relinked \subseteq tied' \cup relinked'
          /\ proofs \subseteq proofs' /\ UNCHANGED eid
      BY <1>3 DEF CommitLink, eidVars
    <2>6. QED
      BY <1>r, <2>3, <2>4, <2>5 DEF Grows
  <1>4. ASSUME NEW u \in User, NEW n \in 1..4,
               users' = [users EXCEPT ![u].level = Raised(@, n)],
               UNCHANGED <<tied, relinked, proofs, eid>>
        PROVE  Grows
    <2>1. Raised(users[u].level, n) >= users[u].level
      BY <1>r, RowType
    <2>2. \A v \in User : /\ users'[v].email = users[v].email
                          /\ users'[v].citizen = users[v].citizen
                          /\ users'[v].verified = users[v].verified
                          /\ users'[v].level =
                                IF v = u THEN Raised(users[u].level, n) ELSE users[v].level
      BY <1>r, <1>t, <1>4 DEF TypeOK, AccountsTypeOK, Row
    <2>3. QED
      BY <1>r, <1>4, <2>1, <2>2 DEF Grows
  <1>5. ASSUME NEW r \in Req, UpdateVerificationLevel(r), UNCHANGED eidVars
        PROVE  Grows
    <2> DEFINE u == req[r].user
    <2>1. u \in User /\ req[r].op \in {"verify", "dan", "phone"}
      BY <1>5, <1>t DEF UpdateVerificationLevel, At, Sound
    <2>2. Level(req[r].op) \in 1..4
      BY <2>1, LevelType
    <2>3. CASE UNCHANGED users
      BY <1>0, <1>5, <2>3 DEF UpdateVerificationLevel, eidVars
    <2>4. CASE users' = [users EXCEPT ![u].level = Raised(@, Level(req[r].op))]
      BY <1>4, <1>5, <2>1, <2>2, <2>4 DEF UpdateVerificationLevel, eidVars
    <2>5. QED
      BY <1>5, <2>3, <2>4 DEF UpdateVerificationLevel
  <1>6. ASSUME NEW r \in Req, RaiseToFour(r)
        PROVE  Grows
    <2>1. ereq[r].user \in User
      BY <1>6, <1>t DEF RaiseToFour, EidSound
    <2>2. 4 \in 1..4
      OBVIOUS
    <2>3. QED
      BY <1>4, <1>6, <2>1, <2>2 DEF RaiseToFour
  <1>7. ASSUME NEW r \in Req, ConsultMetadata(r)
        PROVE  Grows
    <2> DEFINE u == ereq[r].user
    <2>1. PICK f \in GetNationalIDMetadata :
               users' = [users EXCEPT ![u].verified = @ \/ f = "found"]
      BY <1>7 DEF ConsultMetadata
    <2>2. \A v \in User : /\ users'[v].email = users[v].email
                          /\ users'[v].citizen = users[v].citizen
                          /\ users[v].verified => users'[v].verified
                          /\ users'[v].level = users[v].level
      BY <1>r, <1>t, <2>1 DEF TypeOK, AccountsTypeOK, Row
    <2>3. QED
      BY <1>7, <1>r, <2>2 DEF ConsultMetadata, Grows
  <1>8. ASSUME NEW r \in Req, MarkCitizen(r)
        PROVE  Grows
    <2>1. \A c \in Citizen : eid[c] => eid'[c]
      BY <1>8, <1>t DEF MarkCitizen, TypeOK
    <2>2. QED
      BY <1>8, <1>r, <2>1 DEF MarkCitizen, accountVars, Grows
  <1>20. ASSUME NEW r \in Req, LoginStep(r), UNCHANGED eidVars
         PROVE  Grows
    BY <1>0, <1>1, <1>20
       DEF LoginStep, Callback, VerifyEmailOTP, DropState, FindUser, MatchEmail,
           StorePending, Enter, eidVars
  <1>21. ASSUME NEW r \in Req, LinkStep(r), UNCHANGED eidVars
         PROVE  Grows
    BY <1>0, <1>2, <1>3, <1>21
       DEF LinkStep, ConfirmIdentityLink, VerifyIdentity, DanCallback, CheckCitizen,
           DropPending, SelectCitizen, InsertCitizen, eidVars
  <1>22. ASSUME NEW r \in Req, LevelStep(r), UNCHANGED eidVars
         PROVE  Grows
    BY <1>0, <1>5, <1>22 DEF LevelStep, VerifyPhoneOTP, RefreshCitizen, eidVars
  <1>23. ASSUME AccountsNext, UNCHANGED eidVars
         PROVE  Grows
    BY <1>0, <1>20, <1>21, <1>22, <1>23
       DEF AccountsNext, IssueState, Fail, DanAuthorized, Expire, eidVars
  <1>24. ASSUME NEW r \in Req, CardStep(r) \/ EidStep(r)
         PROVE  Grows
    BY <1>0, <1>6, <1>7, <1>8, <1>24
       DEF CardStep, EidStep, RegisterCard, RevokeCard, writeAuditLog, VerifyEID,
           EidFail, accountVars
  <1>25. QED
    BY <1>0, <1>23, <1>24, StepCases DEF vars

\* Every request may rely, after a step, on what Sound says of its next call.
LEMMA SoundStep ==
    ASSUME Inv, [Next]_vars
    PROVE  \A r \in Req : Sound(r)' /\ EidSound(r)'
  <1>t. /\ TypeOK /\ TypeOK' /\ Grows /\ VerifiedHasCitizen /\ RowsAreUsed
        /\ \A r \in Req : Sound(r) /\ EidSound(r)
    BY TypeStep, GrowStep DEF Inv
  <1>q. \A r \in Req : req[r] \in Request /\ ereq[r] \in EidRequest
    BY <1>t DEF TypeOK, AccountsTypeOK
  <1>e. \A u \in User : Exists(u) => Exists(u)' /\ users'[u].email = users[u].email
    BY <1>t DEF Grows, Exists
  <1>g. tied \cup relinked \subseteq tied' \cup relinked' /\ proofs \subseteq proofs'
    BY <1>t DEF Grows
  <1>1. ASSUME NEW r \in Req, req'[r] = Idle
        PROVE  Sound(r)'
    BY <1>1 DEF Sound, Idle
  <1>2. ASSUME NEW r \in Req, NEW p \in PC, GoTo(r, p)
        PROVE  /\ req'[r].pc = p /\ req'[r].op = req[r].op
               /\ req'[r].who = req[r].who /\ req'[r].user = req[r].user
               /\ req'[r].citizen = req[r].citizen
    BY <1>2, <1>t, <1>q DEF GoTo, TypeOK, AccountsTypeOK, Request
  <1>3. ASSUME NEW r \in Req, NEW p \in PC, NEW u \in User,
               req' = [req EXCEPT ![r].pc = p, ![r].user = u]
        PROVE  /\ req'[r].pc = p /\ req'[r].who = req[r].who /\ req'[r].user = u
    BY <1>3, <1>t, <1>q DEF TypeOK, AccountsTypeOK, Request
  <1>4. ASSUME NEW r \in Req, Finish(r)
        PROVE  Sound(r)'
    BY <1>1, <1>4, <1>t DEF Finish, TypeOK, AccountsTypeOK
  <1>5. ASSUME NEW r \in Req, NEW p \in Providers, NEW s \in State,
               NEW a \in Account, Callback(r, p, s, a)
        PROVE  Sound(r)'
    BY <1>5, <1>t DEF Callback, Begin, Sound, TypeOK, AccountsTypeOK
  <1>6. ASSUME NEW r \in Req, DropState(r)
        PROVE  Sound(r)'
    <2>1. req[r].who \in Account
      BY <1>6, <1>t DEF DropState, At, Sound
    <2>2. req'[r].pc = "find" /\ req'[r].who = req[r].who
      BY <1>6, <1>t, <1>q DEF DropState, TypeOK, AccountsTypeOK, Request
    <2>3. QED
      BY <2>1, <2>2 DEF Sound
  <1>7. ASSUME NEW r \in Req, FindUser(r)
        PROVE  Sound(r)'
    <2> DEFINE a == req[r].who
    <2>1. a \in Account /\ a \in Identity
      BY <1>7, <1>t DEF FindUser, At, Sound, Identity
    <2>2. CASE \E u \in Holder(a) : req' = [req EXCEPT ![r].pc = "enter", ![r].user = u]
      <3>1. PICK u \in Holder(a) : req' = [req EXCEPT ![r].pc = "enter", ![r].user = u]
        BY <2>2
      <3>2. u \in User /\ Exists(u) /\ <<u, a>> \in tied \cup relinked
        BY <1>t DEF Holder, RowsAreUsed
      <3>3. req'[r].pc = "enter" /\ req'[r].who = a /\ req'[r].user = u
        BY <1>3, <3>1, <3>2 DEF PC
      <3>4. QED
        BY <1>e, <1>g, <2>1, <3>2, <3>3 DEF Sound
    <2>3. CASE GoTo(r, "create") \/ GoTo(r, "match")
      <3>1. req'[r].pc \in {"create", "match"} /\ req'[r].who = a
        BY <1>2, <2>3 DEF PC
      <3>2. QED
        BY <2>1, <3>1 DEF Sound
    <2>4. QED
      BY <1>7, <2>2, <2>3 DEF FindUser
  <1>8. ASSUME NEW r \in Req, MatchEmail(r)
        PROVE  Sound(r)'
    <2> DEFINE a == req[r].who
    <2>1. a \in Account /\ a \in Identity
      BY <1>8, <1>t DEF MatchEmail, At, Sound, Identity
    <2>2. CASE \E u \in Owner(Address[a]) :
                  req' = [req EXCEPT ![r].pc = "pend", ![r].user = u]
      <3>1. PICK u \in Owner(Address[a]) :
                  req' = [req EXCEPT ![r].pc = "pend", ![r].user = u]
        BY <2>2
      <3>2. u \in User /\ Exists(u)
        BY DEF Owner
      <3>3. req'[r].pc = "pend" /\ req'[r].who = a /\ req'[r].user = u
        BY <1>3, <3>1, <3>2 DEF PC
      <3>4. QED
        BY <1>e, <2>1, <3>2, <3>3 DEF Sound
    <2>3. CASE GoTo(r, "create")
      <3>1. req'[r].pc = "create" /\ req'[r].who = a
        BY <1>2, <2>3 DEF PC
      <3>2. QED
        BY <2>1, <3>1 DEF Sound
    <2>4. QED
      BY <1>8, <2>2, <2>3 DEF MatchEmail
  <1>9. ASSUME NEW r \in Req, CreateUser(r)
        PROVE  Sound(r)'
    <2> DEFINE i == req[r].who
    <2>1. i \in Identity
      BY <1>9, <1>t DEF CreateUser, At, Sound
    <2>2. PICK u \in User :
            /\ users' = [users EXCEPT ![u] = [NoRow EXCEPT
                  !.email = StoredEmail(i), !.accounts = {i} \cap Account]]
            /\ req' = [req EXCEPT ![r].pc = "enter", ![r].user = u]
            /\ tied' = tied \cup ({u} \X ({i} \cap Account))
      BY <1>9 DEF CreateUser
    <2>3. users'[u].email = StoredEmail(i) /\ StoredEmail(i) # NoEmail
      BY <1>t, <2>1, <2>2, NewRowType DEF TypeOK, AccountsTypeOK, NoRow
    <2>4. i \in Account => <<u, i>> \in tied' \cup relinked'
      BY <2>2
    <2>5. i \notin Account => StoredEmail(i) = i
      BY DEF StoredEmail
    <2>6. req'[r].pc = "enter" /\ req'[r].who = i /\ req'[r].user = u
      BY <1>3, <2>2 DEF PC
    <2>7. QED
      BY <2>1, <2>3, <2>4, <2>5, <2>6 DEF Sound, Exists
  <1>10. ASSUME NEW r \in Req, NEW e \in Email, VerifyEmailOTP(r, e)
         PROVE  Sound(r)'
    <2>1. e \in Identity
      BY DEF Identity
    <2>2. CASE Begin(r, About("email", "create", e, NoUser, NoCitizen))
      <3>1. req'[r].pc = "create" /\ req'[r].who = e
        BY <1>t, <2>2 DEF Begin, About, TypeOK, AccountsTypeOK
      <3>2. QED
        BY <2>1, <3>1 DEF Sound
    <2>3. ASSUME NEW u \in Owner(e), Begin(r, About("email", "enter", e, u, NoCitizen))
          PROVE  Sound(r)'
      <3>1. u \in User /\ Exists(u) /\ users[u].email = e
        BY DEF Owner
      <3>2. req'[r].pc = "enter" /\ req'[r].who = e /\ req'[r].user = u
        BY <1>t, <2>3 DEF Begin, About, TypeOK, AccountsTypeOK
      <3>3. QED
        BY <1>e, <2>1, <3>1, <3>2 DEF Sound
    <2>4. QED
      BY <1>10, <2>2, <2>3 DEF VerifyEmailOTP
  <1>11. ASSUME NEW r \in Req, NEW u \in User, NEW c \in Citizen,
                \/ ConfirmIdentityLink(r, u, c) \/ VerifyIdentity(r, u, c)
                \/ DanCallback(r, u, c)
         PROVE  Sound(r)'
    <2>1. Exists(u) /\ (pending[u] # Nobody => pending[u] \in Account)
      BY <1>11, <1>t DEF ConfirmIdentityLink, VerifyIdentity, DanCallback,
                         RowsAreUsed, TypeOK, AccountsTypeOK
    <2>2. Exists(u)'
      BY <1>e, <2>1
    <2>3. CASE ConfirmIdentityLink(r, u, c)
      <3>1. /\ req'[r].pc = "check" /\ req'[r].op = "confirm" /\ req'[r].user = u
            /\ req'[r].who = pending[u] /\ req'[r].citizen = c
        BY <1>t, <2>3 DEF ConfirmIdentityLink, Begin, About, TypeOK, AccountsTypeOK
      <3>2. pending[u] \in Account
        BY <2>1, <2>3 DEF ConfirmIdentityLink
      <3>3. QED
        BY <2>2, <3>1, <3>2 DEF Sound
    <2>4. CASE VerifyIdentity(r, u, c) \/ DanCallback(r, u, c)
      <3>1. /\ req'[r].pc = "select" /\ req'[r].op \in {"verify", "dan"}
            /\ req'[r].user = u /\ req'[r].citizen = c
        BY <1>t, <2>4 DEF VerifyIdentity, DanCallback, Begin, About, TypeOK, AccountsTypeOK
      <3>2. QED
        BY <2>2, <3>1 DEF Sound
    <2>5. QED
      BY <1>11, <2>3, <2>4
  <1>12. ASSUME NEW r \in Req, CheckCitizen(r)
         PROVE  Sound(r)'
    <2> DEFINE u == req[r].user
               c == req[r].citizen
    <2>1. /\ u \in User /\ Exists(u) /\ c \in Citizen /\ req[r].op = "confirm"
          /\ req[r].who \in Account
      BY <1>12, <1>t DEF CheckCitizen, At, Sound
    <2>2. CASE GoTo(r, "select")
      <3>1. /\ req'[r].pc = "select" /\ req'[r].op = req[r].op
            /\ req'[r].who = req[r].who /\ req'[r].user = u /\ req'[r].citizen = c
        BY <1>2, <2>2 DEF PC
      <3>2. QED
        BY <1>e, <2>1, <3>1 DEF Sound
    <2>3. CASE /\ users[u].verified /\ SameCitizen(u, c) /\ GoTo(r, "tie")
               /\ tied' = IF users[u].citizen = c
                             THEN tied \cup {<<u, req[r].who>>} ELSE tied
      <3>1. /\ req'[r].pc = "tie" /\ req'[r].op = req[r].op
            /\ req'[r].who = req[r].who /\ req'[r].user = u /\ req'[r].citizen = c
        BY <1>2, <2>3 DEF PC
      <3>2. users[u].citizen = c
        BY <1>t, <2>1, <2>3 DEF VerifiedHasCitizen, SameCitizen
      <3>3. <<u, req[r].who>> \in tied' \cup relinked'
        BY <2>3, <3>2
      <3>4. QED
        BY <1>e, <2>1, <3>1, <3>3 DEF Sound
    <2>4. QED
      BY <1>4, <1>12, <2>2, <2>3 DEF CheckCitizen
  <1>13. ASSUME NEW r \in Req, LinkProviderID(r) \/ DropPending(r)
         PROVE  Sound(r)'
    <2> DEFINE u == req[r].user
    <2>1. /\ u \in User /\ Exists(u) /\ req[r].op = "confirm"
          /\ req[r].who \in Account /\ <<u, req[r].who>> \in tied \cup relinked
      BY <1>13, <1>t DEF LinkProviderID, DropPending, At, Sound
    <2>2. CASE GoTo(r, "unpend") \/ GoTo(r, "enter")
      <3>1. /\ req'[r].pc \in {"unpend", "enter"} /\ req'[r].op = req[r].op
            /\ req'[r].who = req[r].who /\ req'[r].user = u
        BY <1>2, <2>2 DEF PC
      <3>2. req[r].who \in Identity
        BY <2>1 DEF Identity
      <3>3. QED
        BY <1>e, <1>g, <2>1, <3>1, <3>2 DEF Sound
    <2>3. QED
      BY <1>4, <1>13, <2>2 DEF LinkProviderID, DropPending
  <1>14. ASSUME NEW r \in Req, SelectCitizen(r) \/ InsertCitizen(r)
         PROVE  Sound(r)'
    <2> DEFINE u == req[r].user
    <2>1. /\ u \in User /\ Exists(u) /\ req[r].citizen \in Citizen
          /\ req[r].op \in {"confirm", "verify", "dan"}
          /\ req[r].op = "confirm" => req[r].who \in Account
      BY <1>14, <1>t DEF SelectCitizen, InsertCitizen, At, Sound
    <2>2. CASE GoTo(r, "insert") \/ GoTo(r, "commit")
      <3>1. /\ req'[r].pc \in {"insert", "commit"} /\ req'[r].op = req[r].op
            /\ req'[r].who = req[r].who /\ req'[r].user = u
            /\ req'[r].citizen = req[r].citizen
        BY <1>2, <2>2 DEF PC
      <3>2. QED
        BY <1>e, <2>1, <3>1 DEF Sound
    <2>3. QED
      BY <1>4, <1>14, <2>2 DEF SelectCitizen, InsertCitizen
  <1>15. ASSUME NEW r \in Req, CommitLink(r)
         PROVE  Sound(r)'
    <2> DEFINE u == req[r].user
               op == req[r].op
    <2>1. /\ u \in User /\ Exists(u) /\ req[r].citizen \in Citizen
          /\ op \in {"confirm", "verify", "dan"}
          /\ op = "confirm" => req[r].who \in Account
      BY <1>15, <1>t DEF CommitLink, At, Sound
    <2>2. AfterLink("confirm") = "tie" /\ AfterLink("verify") = "level"
          /\ AfterLink("dan") = "refresh"
      BY DEF AfterLink
    <2>3. AfterLink(op) \in PC
      BY <2>1, <2>2 DEF PC
    <2>4. /\ req'[r].pc = AfterLink(op) /\ req'[r].op = op
          /\ req'[r].who = req[r].who /\ req'[r].user = u
          /\ req'[r].citizen = req[r].citizen
      BY <1>2, <1>15, <2>3 DEF CommitLink
    <2>5. /\ op = "confirm" => <<u, req[r].who>> \in tied' \cup relinked'
          /\ op # "confirm" => <<u, Level(op)>> \in proofs'
      <3>1. /\ op = "confirm" =>
                  \/ tied' = tied \cup {<<u, req[r].who>>}
                  \/ relinked' = relinked \cup {<<u, req[r].who>>}
            /\ op # "confirm" => proofs' = proofs \cup {<<u, Level(op)>>}
        BY <1>15, Zenon DEF CommitLink
      <3>2. QED
        BY <3>1
    <2>6. users'[u].email # NoEmail
      BY <1>e, <2>1 DEF Exists
    <2>7. CASE op = "confirm"
      BY <2>1, <2>2, <2>4, <2>5, <2>6, <2>7 DEF Sound, Exists
    <2>8. CASE op \in {"verify", "dan"}
      BY <2>1, <2>2, <2>4, <2>5, <2>6, <2>8 DEF Sound, Exists
    <2>9. QED
      BY <2>1, <2>7, <2>8
  <1>16. ASSUME NEW r \in Req, RefreshCitizen(r)
         PROVE  Sound(r)'
    <2> DEFINE u == req[r].user
    <2>1. /\ u \in User /\ Exists(u) /\ req[r].op = "dan"
          /\ <<u, Level(req[r].op)>> \in proofs
      BY <1>16, <1>t DEF RefreshCitizen, At, Sound
    <2>2. req'[r].pc = "level" /\ req'[r].op = req[r].op /\ req'[r].user = u
      BY <1>2, <1>16 DEF RefreshCitizen, PC
    <2>3. QED
      BY <1>e, <1>g, <2>1, <2>2 DEF Sound
  <1>17. ASSUME NEW r \in Req, NEW u \in User, VerifyPhoneOTP(r, u)
         PROVE  Sound(r)'
    <2>1. req'[r].pc = "level" /\ req'[r].op = "phone" /\ req'[r].user = u
      BY <1>17, <1>t DEF VerifyPhoneOTP, Begin, About, TypeOK, AccountsTypeOK
    <2>2. Exists(u)'
      BY <1>e, <1>17 DEF VerifyPhoneOTP
    <2>3. <<u, Level("phone")>> \in proofs'
      BY <1>17, LevelType DEF VerifyPhoneOTP
    <2>4. QED
      BY <2>1, <2>2, <2>3 DEF Sound
  <1>18. ASSUME NEW r \in Req, LoginStep(r) \/ LinkStep(r) \/ LevelStep(r) \/ Fail(r)
         PROVE  Sound(r)'
    <2>1. Providers = {"google", "apple", "facebook", "twitter"}
      BY DEF Providers
    <2>2. CASE LoginStep(r)
      BY <1>4, <1>5, <1>6, <1>7, <1>8, <1>9, <1>10, <2>1, <2>2
         DEF LoginStep, StorePending, Enter
    <2>3. CASE LinkStep(r)
      BY <1>11, <1>12, <1>13, <1>14, <1>15, <2>3 DEF LinkStep
    <2>4. CASE LevelStep(r) \/ Fail(r)
      BY <1>4, <1>16, <1>17, <2>4 DEF LevelStep, UpdateVerificationLevel, Fail
    <2>5. QED
      BY <1>18, <2>2, <2>3, <2>4
  <1>19. ASSUME NEW r \in Req, LoginStep(r) \/ LinkStep(r) \/ LevelStep(r) \/ Fail(r),
                NEW q \in Req, q # r
         PROVE  req'[q] = req[q]
    <2>1. CASE LoginStep(r)
      BY <1>19, <1>t, <2>1
         DEF LoginStep, Callback, DropState, FindUser, MatchEmail, StorePending,
             CreateUser, Enter, VerifyEmailOTP, Begin, GoTo, Finish, TypeOK,
             AccountsTypeOK
    <2>2. CASE LinkStep(r)
      <3>1. \E x : req' = [req EXCEPT ![r] = x]
        BY <1>t, <2>2
           DEF LinkStep, ConfirmIdentityLink, VerifyIdentity, DanCallback,
               CheckCitizen, LinkProviderID, DropPending, SelectCitizen,
               InsertCitizen, CommitLink, Begin, GoTo, Finish
      <3>2. QED
        BY <1>19, <1>t, <3>1 DEF TypeOK, AccountsTypeOK
    <2>3. CASE LevelStep(r) \/ Fail(r)
      BY <1>19, <1>t, <2>3
         DEF LevelStep, VerifyPhoneOTP, RefreshCitizen, UpdateVerificationLevel,
             Fail, Begin, GoTo, Finish, TypeOK, AccountsTypeOK
    <2>4. QED
      BY <1>19, <2>1, <2>2, <2>3
  <1>20. ASSUME AccountsNext, UNCHANGED eidVars
         PROVE  \A r \in Req : Sound(r)' /\ EidSound(r)'
    <2>1. ASSUME NEW r \in Req
          PROVE  EidSound(r)'
      BY <1>20, <1>t, StayEidSound DEF eidVars
    <2>2. ASSUME NEW r \in Req, req'[r] = req[r]
          PROVE  Sound(r)'
      BY <2>2, <1>t, StaySound
    <2>3. CASE UNCHANGED req
      BY <2>1, <2>2, <2>3
    <2>4. CASE \E r \in Req : LoginStep(r) \/ LinkStep(r) \/ LevelStep(r) \/ Fail(r)
      BY <1>18, <1>19, <2>1, <2>2, <2>4
    <2>5. QED
      BY <1>20, <2>3, <2>4 DEF AccountsNext, IssueState, DanAuthorized, Expire
  <1>21. ASSUME NEW r \in Req, ereq'[r] = EidIdle
         PROVE  EidSound(r)'
    BY <1>21 DEF EidSound, EidIdle, Entry
  <1>22. ASSUME NEW r \in Req, CardStep(r)
         PROVE  EidSound(r)'
    <2>1. CASE writeAuditLog(r)
      BY <1>21, <1>t, <2>1 DEF writeAuditLog, EidFinish, TypeOK
    <2>2. ASSUME NEW k \in Card, NEW e \in Entry, ereq'[r] = EntryOf(e, k)
          PROVE  EidSound(r)'
      BY <2>2 DEF EntryOf, EidSound, Entry
    <2>3. \A e \in Entry, k \in Card :
             ereq' = [ereq EXCEPT ![r] = EntryOf(e, k)] => ereq'[r] = EntryOf(e, k)
      BY <1>t DEF TypeOK
    <2>4. "issued" \in Entry /\ "revoked" \in Entry
      BY DEF Entry
    <2>5. QED
      BY <1>22, <2>1, <2>2, <2>3, <2>4 DEF CardStep, RegisterCard, RevokeCard, EidBegin
  <1>23. ASSUME NEW r \in Req, EidStep(r)
         PROVE  EidSound(r)'
    <2>1. ASSUME NEW u \in User, NEW c \in Citizen, VerifyEID(r, u, c)
          PROVE  EidSound(r)'
      <3>1. users[u].citizen = c /\ c # NoCitizen
        BY <2>1, AccountsAssumption DEF VerifyEID
      <3>2. Exists(u) /\ Exists(u)' /\ users'[u].citizen # NoCitizen
        BY <1>e, <1>t, <2>1, <3>1 DEF RowsAreUsed, VerifyEID
      <3>3. ereq'[r].pc = "mark" /\ ereq'[r].user = u /\ ereq'[r].citizen = c
        BY <1>t, <2>1 DEF VerifyEID, EidBegin, TypeOK
      <3>4. <<u, 4>> \in proofs'
        BY <2>1 DEF VerifyEID
      <3>5. QED
        BY <3>2, <3>3, <3>4 DEF EidSound, Entry
    <2>2. CASE MarkCitizen(r) \/ RaiseToFour(r)
      <3> DEFINE u == ereq[r].user
                 c == ereq[r].citizen
      <3>1. /\ u \in User /\ Exists(u) /\ c \in Citizen
            /\ users[u].citizen # NoCitizen /\ <<u, 4>> \in proofs
        BY <1>t, <2>2 DEF MarkCitizen, RaiseToFour, EidSound
      <3>2. /\ ereq'[r].user = u /\ ereq'[r].citizen = c
            /\ MarkCitizen(r) => ereq'[r].pc = "raise"
            /\ RaiseToFour(r) => ereq'[r].pc = "metadata"
        BY <1>t, <1>q, <2>2 DEF MarkCitizen, RaiseToFour, TypeOK, EidRequest
      <3>3. /\ users'[u].email # NoEmail /\ users'[u].citizen # NoCitizen
            /\ <<u, 4>> \in proofs'
        BY <1>g, <1>t, <3>1 DEF Grows, Exists
      <3>4. eid'[c]
        <4>1. CASE MarkCitizen(r)
          BY <1>t, <3>1, <4>1 DEF MarkCitizen, TypeOK
        <4>2. CASE RaiseToFour(r)
          BY <1>t, <4>2 DEF RaiseToFour, EidSound
        <4>3. QED
          BY <2>2, <4>1, <4>2
      <3>5. RaiseToFour(r) => users'[u].level = 4
        <4>a. users[u].level \in 1..4
          BY <1>t, <3>1 DEF TypeOK, AccountsTypeOK, Row
        <4>1. Raised(users[u].level, 4) = 4
          BY <4>a DEF Raised
        <4>2. users \in [User -> Row] /\ users[u] \in Row
          BY <1>t, <3>1 DEF TypeOK, AccountsTypeOK
        <4>3. ASSUME RaiseToFour(r)
              PROVE  users'[u].level = Raised(users[u].level, 4)
          <5>1. users' = [users EXCEPT ![u].level = Raised(users[u].level, 4)]
            BY <4>3 DEF RaiseToFour
          <5>2. QED
            BY <3>1, <4>2, <5>1 DEF Row
        <4>4. QED
          BY <4>1, <4>3
      <3>6. QED
        BY <2>2, <3>1, <3>2, <3>3, <3>4, <3>5 DEF EidSound, Entry, Exists
    <2>3. CASE ConsultMetadata(r) \/ EidFail(r)
      BY <1>21, <1>t, <2>3 DEF ConsultMetadata, EidFail, EidFinish, TypeOK
    <2>4. QED
      BY <1>23, <2>1, <2>2, <2>3 DEF EidStep
  <1>24. ASSUME NEW r \in Req, CardStep(r) \/ EidStep(r)
         PROVE  \A q \in Req : Sound(q)' /\ EidSound(q)'
    <2>1. UNCHANGED req
      BY <1>24 DEF CardStep, EidStep, RegisterCard, RevokeCard, writeAuditLog,
                   VerifyEID, MarkCitizen, RaiseToFour, ConsultMetadata, EidFail,
                   accountVars
    <2>2. ASSUME NEW q \in Req
          PROVE  Sound(q)'
      BY <1>t, <2>1, StaySound
    <2>3. \A q \in Req \ {r} : ereq'[q] = ereq[q]
      BY <1>24, <1>t
         DEF CardStep, EidStep, RegisterCard, RevokeCard, writeAuditLog,
             VerifyEID, MarkCitizen, RaiseToFour, ConsultMetadata, EidFail,
             EidBegin, EidFinish, TypeOK
    <2>4. ASSUME NEW q \in Req
          PROVE  EidSound(q)'
      <3>1. CASE q = r
        BY <1>22, <1>23, <1>24, <3>1
      <3>2. CASE q # r
        BY <1>t, <2>3, <3>2, StayEidSound
      <3>3. QED
        BY <3>1, <3>2
    <2>5. QED
      BY <2>2, <2>4
  <1>25. CASE UNCHANGED vars
    BY <1>25, <1>t, StaySound, StayEidSound DEF vars
  <1>26. QED
    BY <1>20, <1>24, <1>25, StepCases

-----------------------------------------------------------------------------
(* What the tables say of each other.                                      *)

LEMMA RowsStep ==
    ASSUME Inv, [Next]_vars
    PROVE  RowsAreUsed'
  <1>t. /\ TypeOK /\ TypeOK' /\ Grows /\ RowsAreUsed
        /\ \A r \in Req : Sound(r) /\ EidSound(r)
    BY TypeStep, GrowStep DEF Inv
  <1>r. \A u \in User : users[u] \in Row /\ users[u].level \in 1..4
    BY <1>t DEF TypeOK, AccountsTypeOK, Row
  <1>g. tied \cup relinked \subseteq tied' \cup relinked' /\ proofs \subseteq proofs'
    BY <1>t DEF Grows
  <1>0. ASSUME UNCHANGED <<users, pending>>
        PROVE  RowsAreUsed'
    BY <1>0, <1>t, <1>g DEF RowsAreUsed, Exists
  <1>1. ASSUME UNCHANGED users, NEW u \in User, NEW w,
               pending' = [pending EXCEPT ![u] = w], w = Nobody \/ Exists(u)
        PROVE  RowsAreUsed'
    <2>1. \A v \in User : pending'[v] = IF v = u THEN w ELSE pending[v]
      BY <1>1, <1>t DEF TypeOK, AccountsTypeOK
    <2>2. QED
      BY <1>1, <1>t, <1>g, <2>1 DEF RowsAreUsed, Exists
  <1>2. ASSUME NEW r \in Req, CreateUser(r)
        PROVE  RowsAreUsed'
    <2> DEFINE i == req[r].who
    <2>1. i \in Identity
      BY <1>2, <1>t DEF CreateUser, At, Sound
    <2>2. PICK u \in User :
            /\ ~Exists(u)
            /\ users' = [users EXCEPT ![u] = [NoRow EXCEPT
                  !.email = StoredEmail(i), !.accounts = {i} \cap Account]]
            /\ tied' = tied \cup ({u} \X ({i} \cap Account)) /\ relinked' = relinked
      BY <1>2 DEF CreateUser, Unused
    <2>3. /\ users'[u].email = StoredEmail(i) /\ StoredEmail(i) # NoEmail
          /\ users'[u].accounts = {i} \cap Account
          /\ users'[u].citizen = NoCitizen /\ users'[u].level = 1
      BY <1>t, <2>1, <2>2, NewRowType DEF TypeOK, AccountsTypeOK, NoRow
    <2>4. \A v \in User \ {u} : users'[v] = users[v]
      BY <1>t, <2>2 DEF TypeOK, AccountsTypeOK
    <2>5. UNCHANGED pending
      BY <1>2 DEF CreateUser
    <2>6. \A a \in users'[u].accounts : <<u, a>> \in tied' \cup relinked'
      BY <2>2, <2>3
    <2>7. QED
      BY <1>t, <1>g, <2>3, <2>4, <2>5, <2>6 DEF RowsAreUsed, Exists
  <1>3. ASSUME NEW r \in Req, LinkProviderID(r)
        PROVE  RowsAreUsed'
    <2> DEFINE u == req[r].user
               a == req[r].who
    <2>1. u \in User /\ Exists(u) /\ <<u, a>> \in tied \cup relinked
      BY <1>3, <1>t DEF LinkProviderID, At, Sound
    <2>2. UNCHANGED <<pending, tied, relinked, proofs>>
      BY <1>3 DEF LinkProviderID
    <2>3. CASE users' = [users EXCEPT ![u].accounts = WithAccount(u, a)]
      <3>1. \A v \in User :
               /\ users'[v].email = users[v].email
               /\ users'[v].citizen = users[v].citizen
               /\ users'[v].level = users[v].level
               /\ users'[v].accounts =
                     IF v = u THEN WithAccount(u, a) ELSE users[v].accounts
        BY <1>r, <1>t, <2>1, <2>3 DEF TypeOK, AccountsTypeOK, Row
      <3>2. \A b \in WithAccount(u, a) : <<u, b>> \in tied \cup relinked
        BY <1>t, <2>1 DEF WithAccount, RowsAreUsed
      <3>3. QED
        BY <1>t, <2>1, <2>2, <3>1, <3>2 DEF RowsAreUsed, Exists
    <2>4. QED
      BY <1>0, <1>3, <2>2, <2>3 DEF LinkProviderID
  <1>4. ASSUME NEW r \in Req, CommitLink(r)
        PROVE  RowsAreUsed'
    <2> DEFINE u == req[r].user
    <2>1. u \in User /\ Exists(u)
      BY <1>4, <1>t DEF CommitLink, At, Sound
    <2>2. /\ users' = [users EXCEPT ![u].citizen = req[r].citizen, ![u].verified = TRUE]
          /\ UNCHANGED pending
      BY <1>4 DEF CommitLink
    <2>3. \A v \in User :
             /\ users'[v].email = users[v].email
             /\ v # u => users'[v].citizen = users[v].citizen
             /\ users'[v].level = users[v].level
             /\ users'[v].accounts = users[v].accounts
      BY <1>r, <1>t, <2>1, <2>2 DEF TypeOK, AccountsTypeOK, Row
    <2>4. QED
      BY <1>t, <1>g, <2>1, <2>2, <2>3 DEF RowsAreUsed, Exists
  <1>5. ASSUME NEW u \in User, NEW n \in 1..4,
               users' = [users EXCEPT ![u].level = Raised(@, n)],
               <<u, n>> \in proofs, UNCHANGED <<tied, relinked, proofs, pending>>
        PROVE  RowsAreUsed'
    <2>1. Raised(users[u].level, n) \in {users[u].level, n}
      BY DEF Raised
    <2>2. \A v \in User :
             /\ users'[v].email = users[v].email
             /\ users'[v].citizen = users[v].citizen
             /\ users'[v].accounts = users[v].accounts
             /\ users'[v].level =
                   IF v = u THEN Raised(users[u].level, n) ELSE users[v].level
      BY <1>r, <1>t, <1>5 DEF TypeOK, AccountsTypeOK, Row
    <2>3. \A v \in User : users'[v].level \in {users[v].level}
                             \/ (v = u /\ users'[v].level = n)
      BY <2>1, <2>2
    <2>4. \A v \in User : users'[v].level = 1 \/ <<v, users'[v].level>> \in proofs'
      BY <1>t, <1>5, <2>3 DEF RowsAreUsed
    <2>5. pending' = pending /\ tied' = tied /\ relinked' = relinked
      BY <1>5
    <2>6. QED
      BY <1>t, <2>2, <2>4, <2>5 DEF RowsAreUsed, Exists
  <1>6. ASSUME NEW r \in Req, UpdateVerificationLevel(r)
        PROVE  RowsAreUsed'
    <2> DEFINE u == req[r].user
    <2>1. /\ u \in User /\ req[r].op \in {"verify", "dan", "phone"}
          /\ <<u, Level(req[r].op)>> \in proofs
      BY <1>6, <1>t DEF UpdateVerificationLevel, At, Sound
    <2>2. Level(req[r].op) \in 1..4
      BY <2>1, LevelType
    <2>3. CASE UNCHANGED users
      BY <1>0, <1>6, <2>3 DEF UpdateVerificationLevel
    <2>4. CASE users' = [users EXCEPT ![u].level = Raised(@, Level(req[r].op))]
      BY <1>5, <1>6, <2>1, <2>2, <2>4 DEF UpdateVerificationLevel
    <2>5. QED
      BY <1>6, <2>3, <2>4 DEF UpdateVerificationLevel
  <1>7. ASSUME NEW r \in Req, RaiseToFour(r)
        PROVE  RowsAreUsed'
    <2>1. ereq[r].user \in User /\ <<ereq[r].user, 4>> \in proofs
      BY <1>7, <1>t DEF RaiseToFour, EidSound
    <2>2. 4 \in 1..4
      OBVIOUS
    <2>3. QED
      BY <1>5, <1>7, <2>1, <2>2 DEF RaiseToFour
  <1>8. ASSUME NEW r \in Req, ConsultMetadata(r)
        PROVE  RowsAreUsed'
    <2>1. PICK f \in GetNationalIDMetadata :
               users' = [users EXCEPT ![ereq[r].user].verified = @ \/ f = "found"]
      BY <1>8 DEF ConsultMetadata
    <2>2. \A v \in User : /\ users'[v].email = users[v].email
                          /\ users'[v].citizen = users[v].citizen
                          /\ users'[v].accounts = users[v].accounts
                          /\ users'[v].level = users[v].level
      BY <1>r, <1>t, <2>1 DEF TypeOK, AccountsTypeOK, Row
    <2>3. QED
      BY <1>8, <1>t, <2>2 DEF ConsultMetadata, RowsAreUsed, Exists
  <1>9. ASSUME NEW r \in Req, StorePending(r) \/ DropPending(r)
        PROVE  RowsAreUsed'
    <2>1. req[r].user \in User /\ Exists(req[r].user)
      BY <1>9, <1>t DEF StorePending, DropPending, At, Sound
    <2>2. QED
      BY <1>0, <1>1, <1>9, <2>1 DEF StorePending, DropPending
  <1>10. ASSUME Expire
         PROVE  RowsAreUsed'
    BY <1>0, <1>1, <1>10 DEF Expire
  <1>20. ASSUME NEW r \in Req, LoginStep(r)
         PROVE  RowsAreUsed'
    BY <1>0, <1>2, <1>9, <1>20
       DEF LoginStep, Callback, VerifyEmailOTP, DropState, FindUser, MatchEmail, Enter
  <1>21. ASSUME NEW r \in Req, LinkStep(r)
         PROVE  RowsAreUsed'
    BY <1>0, <1>3, <1>4, <1>9, <1>21
       DEF LinkStep, ConfirmIdentityLink, VerifyIdentity, DanCallback, CheckCitizen,
           SelectCitizen, InsertCitizen
  <1>22. ASSUME NEW r \in Req, LevelStep(r)
         PROVE  RowsAreUsed'
    BY <1>0, <1>6, <1>22 DEF LevelStep, VerifyPhoneOTP, RefreshCitizen
  <1>23. ASSUME AccountsNext
         PROVE  RowsAreUsed'
    BY <1>0, <1>10, <1>20, <1>21, <1>22, <1>23
       DEF AccountsNext, IssueState, Fail, DanAuthorized
  <1>24. ASSUME NEW r \in Req, CardStep(r) \/ EidStep(r)
         PROVE  RowsAreUsed'
    BY <1>0, <1>7, <1>8, <1>24
       DEF CardStep, EidStep, RegisterCard, RevokeCard, writeAuditLog, VerifyEID,
           MarkCitizen, EidFail, accountVars
  <1>25. QED
    BY <1>0, <1>23, <1>24, StepCases DEF vars

\* Histories only grow, and what they say of a user stays true.
LEMMA HistoryStep ==
    ASSUME Inv, [Next]_vars
    PROVE  HistoryIsOfUsers' /\ LoginsAreTied'
  <1>t. /\ TypeOK /\ TypeOK' /\ Grows /\ HistoryIsOfUsers /\ LoginsAreTied
        /\ VerifiedHasCitizen
        /\ \A r \in Req : Sound(r) /\ EidSound(r)
    BY TypeStep, GrowStep DEF Inv
  <1>u. \A u \in User :
           /\ Exists(u) => users'[u].email # NoEmail /\ users'[u].email = users[u].email
           /\ Exists(u) /\ users[u].level = 4 => users'[u].level = 4
           /\ Exists(u) /\ users[u].verified => users'[u].verified
    <2>1. \A u \in User : users[u].level \in 1..4 /\ users'[u].level \in 1..4
      BY <1>t DEF TypeOK, AccountsTypeOK, Row
    <2>2. QED
      BY <1>t, <2>1 DEF Grows, Exists
  <1>k. /\ \A l \in logins : l[1] \in User
        /\ \A p \in proofs : p[1] \in User
        /\ \A a \in answered : a[1] \in User /\ a[2] \in Citizen
    BY <1>t DEF TypeOK, AccountsTypeOK
  <1>1. /\ \A l \in logins : users'[l[1]].email # NoEmail
        /\ \A p \in proofs : users'[p[1]].email # NoEmail
        /\ \A a \in answered :
              /\ users'[a[1]].email # NoEmail
              /\ users'[a[1]].level = 4 /\ users'[a[1]].verified
              /\ eid'[a[2]]
        /\ \A l \in logins : l \in tied' \cup relinked' \/ users'[l[1]].email = l[2]
    BY <1>t, <1>u, <1>k DEF HistoryIsOfUsers, LoginsAreTied, Grows
  <1>2. ASSUME logins' = logins, proofs' = proofs, answered' = answered
        PROVE  HistoryIsOfUsers' /\ LoginsAreTied'
    BY <1>1, <1>2 DEF HistoryIsOfUsers, LoginsAreTied, Exists
  <1>3. ASSUME NEW r \in Req, Enter(r), UNCHANGED eidVars
        PROVE  HistoryIsOfUsers' /\ LoginsAreTied'
    <2> DEFINE l == <<req[r].user, req[r].who>>
    <2>1. /\ req[r].user \in User /\ Exists(req[r].user)
          /\ l \in tied \cup relinked \/ users[req[r].user].email = req[r].who
      BY <1>3, <1>t DEF Enter, At, Sound
    <2>2. /\ logins' = logins \cup {l} /\ proofs' = proofs /\ answered' = answered
          /\ tied' = tied /\ relinked' = relinked /\ users' = users
      BY <1>3 DEF Enter, eidVars
    <2>3. l[1] = req[r].user /\ l[2] = req[r].who
      OBVIOUS
    <2> HIDE DEF l
    <2>4. QED
      BY <1>1, <2>1, <2>2, <2>3 DEF HistoryIsOfUsers, LoginsAreTied, Exists
  <1>4. ASSUME NEW u \in User, NEW n, Exists(u), proofs' \subseteq proofs \cup {<<u, n>>},
               logins' = logins, answered' = answered
        PROVE  HistoryIsOfUsers' /\ LoginsAreTied'
    BY <1>1, <1>4, <1>u DEF HistoryIsOfUsers, LoginsAreTied, Exists
  <1>5. ASSUME NEW r \in Req, CommitLink(r), UNCHANGED eidVars
        PROVE  HistoryIsOfUsers' /\ LoginsAreTied'
    <2>1. req[r].user \in User /\ Exists(req[r].user)
      BY <1>5, <1>t DEF CommitLink, At, Sound
    <2>2. proofs' \subseteq proofs \cup {<<req[r].user, Level(req[r].op)>>}
      BY <1>5 DEF CommitLink
    <2>3. logins' = logins /\ answered' = answered
      BY <1>5 DEF CommitLink, eidVars
    <2>4. QED
      BY <1>4, <2>1, <2>2, <2>3
  <1>6. ASSUME NEW r \in Req, NEW u \in User, VerifyPhoneOTP(r, u), UNCHANGED eidVars
        PROVE  HistoryIsOfUsers' /\ LoginsAreTied'
    BY <1>4, <1>6 DEF VerifyPhoneOTP, eidVars
  <1>7. ASSUME NEW r \in Req, NEW u \in User, NEW c \in Citizen, VerifyEID(r, u, c)
        PROVE  HistoryIsOfUsers' /\ LoginsAreTied'
    <2>1. Exists(u)
      BY <1>7, AccountsAssumption DEF VerifyEID, Inv, RowsAreUsed
    <2>2. QED
      BY <1>4, <1>7, <2>1 DEF VerifyEID
  <1>8. ASSUME NEW r \in Req, ConsultMetadata(r)
        PROVE  HistoryIsOfUsers' /\ LoginsAreTied'
    <2> DEFINE u == ereq[r].user
               c == ereq[r].citizen
    <2>1. /\ u \in User /\ Exists(u) /\ c \in Citizen /\ users[u].citizen # NoCitizen
          /\ users[u].level = 4 /\ eid[c]
      BY <1>8, <1>t DEF ConsultMetadata, EidSound
    <2>2. users[u].verified
      BY <1>t, <2>1 DEF VerifiedHasCitizen
    <2>3. /\ users'[u].email # NoEmail /\ users'[u].level = 4 /\ users'[u].verified
          /\ eid'[c]
      BY <1>u, <1>8, <2>1, <2>2 DEF ConsultMetadata
    <2>4. /\ answered' = answered \cup {<<u, c>>} /\ logins' = logins
          /\ proofs' = proofs
      BY <1>8 DEF ConsultMetadata
    <2>5. QED
      BY <1>1, <2>3, <2>4 DEF HistoryIsOfUsers, LoginsAreTied, Exists
  <1>20. ASSUME NEW r \in Req, LoginStep(r), UNCHANGED eidVars
         PROVE  HistoryIsOfUsers' /\ LoginsAreTied'
    BY <1>2, <1>3, <1>20
       DEF LoginStep, Callback, VerifyEmailOTP, DropState, FindUser, MatchEmail,
           StorePending, CreateUser, eidVars
  <1>21. ASSUME NEW r \in Req, LinkStep(r), UNCHANGED eidVars
         PROVE  HistoryIsOfUsers' /\ LoginsAreTied'
    BY <1>2, <1>5, <1>21
       DEF LinkStep, ConfirmIdentityLink, VerifyIdentity, DanCallback, CheckCitizen,
           LinkProviderID, DropPending, SelectCitizen, InsertCitizen, eidVars
  <1>22. ASSUME NEW r \in Req, LevelStep(r), UNCHANGED eidVars
         PROVE  HistoryIsOfUsers' /\ LoginsAreTied'
    BY <1>2, <1>6, <1>22 DEF LevelStep, RefreshCitizen, UpdateVerificationLevel, eidVars
  <1>23. ASSUME AccountsNext, UNCHANGED eidVars
         PROVE  HistoryIsOfUsers' /\ LoginsAreTied'
    BY <1>2, <1>20, <1>21, <1>22, <1>23
       DEF AccountsNext, IssueState, Fail, DanAuthorized, Expire, eidVars
  <1>24. ASSUME NEW r \in Req, CardStep(r) \/ EidStep(r)
         PROVE  HistoryIsOfUsers' /\ LoginsAreTied'
    BY <1>2, <1>7, <1>8, <1>24
       DEF CardStep, EidStep, RegisterCard, RevokeCard, writeAuditLog, RaiseToFour,
           MarkCitizen, EidFail, accountVars
  <1>25. QED
    BY <1>2, <1>23, <1>24, StepCases DEF vars

\* No row of a citizen is removed.
LEMMA CitizensStay ==
    ASSUME Inv, [Next]_vars
    PROVE  \A c \in Citizen : citizens[c] # "absent" => citizens'[c] # "absent"
  <1>t. TypeOK /\ \A r \in Req : Sound(r)
    BY DEF Inv
  <1>1. ASSUME NEW c \in Citizen, NEW w \in {"core", "dan"},
               citizens' = [citizens EXCEPT ![c] = w]
        PROVE  \A d \in Citizen : citizens[d] # "absent" => citizens'[d] # "absent"
    BY <1>1, <1>t DEF TypeOK, AccountsTypeOK
  <1>2. ASSUME UNCHANGED citizens
        PROVE  \A d \in Citizen : citizens[d] # "absent" => citizens'[d] # "absent"
    BY <1>2
  <1>3. ASSUME NEW r \in Req, CommitLink(r)
        PROVE  \A d \in Citizen : citizens[d] # "absent" => citizens'[d] # "absent"
    BY <1>3, <1>t DEF CommitLink, Kept, Inserted, TypeOK, AccountsTypeOK
  <1>4. ASSUME NEW r \in Req, RefreshCitizen(r)
        PROVE  \A d \in Citizen : citizens[d] # "absent" => citizens'[d] # "absent"
    BY <1>4, <1>t DEF RefreshCitizen, TypeOK, AccountsTypeOK
  <1>5. ASSUME NEW c \in Citizen, DanAuthorized(c)
        PROVE  \A d \in Citizen : citizens[d] # "absent" => citizens'[d] # "absent"
    BY <1>1, <1>5 DEF DanAuthorized, UpdateCitizenFromDAN
  <1>20. ASSUME NEW r \in Req, LoginStep(r) \/ LinkStep(r) \/ LevelStep(r)
         PROVE  \A d \in Citizen : citizens[d] # "absent" => citizens'[d] # "absent"
    <2>1. CASE LoginStep(r)
      BY <1>2, <2>1
         DEF LoginStep, Callback, VerifyEmailOTP, DropState, FindUser, MatchEmail,
             StorePending, CreateUser, Enter
    <2>2. CASE LinkStep(r)
      BY <1>2, <1>3, <2>2
         DEF LinkStep, ConfirmIdentityLink, VerifyIdentity, DanCallback, CheckCitizen,
             LinkProviderID, DropPending, SelectCitizen, InsertCitizen
    <2>3. CASE LevelStep(r)
      BY <1>2, <1>4, <2>3 DEF LevelStep, VerifyPhoneOTP, UpdateVerificationLevel
    <2>4. QED
      BY <1>20, <2>1, <2>2, <2>3
  <1>23. ASSUME AccountsNext
         PROVE  \A d \in Citizen : citizens[d] # "absent" => citizens'[d] # "absent"
    BY <1>2, <1>5, <1>20, <1>23 DEF AccountsNext, IssueState, Fail, Expire
  <1>24. ASSUME NEW r \in Req, CardStep(r) \/ EidStep(r)
         PROVE  \A d \in Citizen : citizens[d] # "absent" => citizens'[d] # "absent"
    BY <1>2, <1>24
       DEF CardStep, EidStep, RegisterCard, RevokeCard, writeAuditLog, VerifyEID,
           MarkCitizen, RaiseToFour, ConsultMetadata, EidFail, accountVars
  <1>25. QED
    BY <1>2, <1>23, <1>24, StepCases DEF vars

\* Users are marked verified in the statement that gives them a citizen, and
\* by the e-ID service when they have one.
LEMMA VerifiedStep ==
    ASSUME Inv, [Next]_vars
    PROVE  VerifiedHasCitizen'
  <1>t. /\ TypeOK /\ TypeOK' /\ VerifiedHasCitizen
        /\ \A r \in Req : Sound(r) /\ EidSound(r)
    BY TypeStep DEF Inv
  <1>r. users \in [User -> Row] /\ \A u \in User : users[u] \in Row
    BY <1>t DEF TypeOK, AccountsTypeOK
  <1>c. \A c \in Citizen : citizens[c] # "absent" => citizens'[c] # "absent"
    BY CitizensStay
  <1>n. \A u \in User : users[u].citizen # NoCitizen => users[u].citizen \in Citizen
    BY <1>r DEF Row
  <1>0. ASSUME \A u \in User : /\ users'[u].verified = users[u].verified
                               /\ users'[u].citizen = users[u].citizen
        PROVE  VerifiedHasCitizen'
    BY <1>0, <1>c, <1>n, <1>t DEF VerifiedHasCitizen
  <1>1. ASSUME NEW r \in Req, CreateUser(r)
        PROVE  VerifiedHasCitizen'
    <2> DEFINE i == req[r].who
    <2>1. i \in Identity
      BY <1>1, <1>t DEF CreateUser, At, Sound
    <2>2. PICK u \in User :
            users' = [users EXCEPT ![u] = [NoRow EXCEPT
                  !.email = StoredEmail(i), !.accounts = {i} \cap Account]]
      BY <1>1 DEF CreateUser
    <2>3. users'[u].citizen = NoCitizen /\ users'[u].verified = FALSE
      BY <1>r, <2>2 DEF NoRow
    <2>4. \A v \in User \ {u} : users'[v] = users[v]
      BY <1>r, <2>2
    <2>5. QED
      BY <1>c, <1>n, <1>t, <2>3, <2>4 DEF VerifiedHasCitizen
  <1>2. ASSUME NEW r \in Req, LinkProviderID(r)
        PROVE  VerifiedHasCitizen'
    <2>1. \/ UNCHANGED users
          \/ users' = [users EXCEPT ![req[r].user].accounts =
                                       WithAccount(req[r].user, req[r].who)]
      BY <1>2 DEF LinkProviderID
    <2>2. \A v \in User : /\ users'[v].citizen = users[v].citizen
                          /\ users'[v].verified = users[v].verified
      BY <1>r, <2>1 DEF Row
    <2>3. QED
      BY <1>0, <2>2
  <1>3. ASSUME NEW r \in Req, CommitLink(r)
        PROVE  VerifiedHasCitizen'
    <2> DEFINE u == req[r].user
               c == req[r].citizen
    <2>1. u \in User /\ c \in Citizen /\ c # NoCitizen
      BY <1>3, <1>t, AccountsAssumption DEF CommitLink, At, Sound
    <2>2. users' = [users EXCEPT ![u].citizen = c, ![u].verified = TRUE]
      BY <1>3 DEF CommitLink
    <2>3. /\ users'[u].citizen = c /\ users'[u].verified
          /\ \A v \in User \ {u} : users'[v] = users[v]
      BY <1>r, <2>1, <2>2 DEF Row
    <2>4. citizens'[c] # "absent"
      BY <1>3, <1>t, <2>1 DEF CommitLink, Kept, Inserted, TypeOK, AccountsTypeOK
    <2> HIDE DEF u, c
    <2>5. QED
      BY <1>c, <1>n, <1>t, <2>1, <2>3, <2>4 DEF VerifiedHasCitizen
  <1>4. ASSUME NEW u \in User, NEW n,
               users' = [users EXCEPT ![u].level = Raised(@, n)]
        PROVE  VerifiedHasCitizen'
    <2>1. \A v \in User : /\ users'[v].citizen = users[v].citizen
                          /\ users'[v].verified = users[v].verified
      BY <1>4, <1>r DEF Row
    <2>2. QED
      BY <1>0, <2>1
  <1>5. ASSUME NEW r \in Req, UpdateVerificationLevel(r)
        PROVE  VerifiedHasCitizen'
    <2>1. req[r].user \in User
      BY <1>5, <1>t DEF UpdateVerificationLevel, At, Sound
    <2>2. QED
      BY <1>0, <1>4, <1>5, <2>1 DEF UpdateVerificationLevel
  <1>6. ASSUME NEW r \in Req, RaiseToFour(r)
        PROVE  VerifiedHasCitizen'
    <2>1. ereq[r].user \in User
      BY <1>6, <1>t DEF RaiseToFour, EidSound
    <2>2. QED
      BY <1>4, <1>6, <2>1 DEF RaiseToFour
  <1>7. ASSUME NEW r \in Req, ConsultMetadata(r)
        PROVE  VerifiedHasCitizen'
    <2> DEFINE u == ereq[r].user
    <2>1. u \in User /\ users[u].citizen # NoCitizen
      BY <1>7, <1>t DEF ConsultMetadata, EidSound
    <2>2. users[u].verified
      BY <1>t, <2>1 DEF VerifiedHasCitizen
    <2>3. PICK f \in GetNationalIDMetadata :
               users' = [users EXCEPT ![u].verified = users[u].verified \/ f = "found"]
      BY <1>7 DEF ConsultMetadata
    <2>4. \A v \in User : /\ users'[v].citizen = users[v].citizen
                          /\ v # u => users'[v].verified = users[v].verified
                          /\ v = u => users'[v].verified
      BY <1>r, <2>2, <2>3 DEF Row
    <2> HIDE DEF u
    <2>5. QED
      BY <1>c, <1>n, <1>t, <2>1, <2>4 DEF VerifiedHasCitizen
  <1>20. ASSUME NEW r \in Req, LoginStep(r)
         PROVE  VerifiedHasCitizen'
    BY <1>0, <1>1, <1>20
       DEF LoginStep, Callback, VerifyEmailOTP, DropState, FindUser, MatchEmail,
           StorePending, Enter
  <1>21. ASSUME NEW r \in Req, LinkStep(r)
         PROVE  VerifiedHasCitizen'
    BY <1>0, <1>2, <1>3, <1>21
       DEF LinkStep, ConfirmIdentityLink, VerifyIdentity, DanCallback, CheckCitizen,
           DropPending, SelectCitizen, InsertCitizen
  <1>22. ASSUME NEW r \in Req, LevelStep(r)
         PROVE  VerifiedHasCitizen'
    BY <1>0, <1>5, <1>22 DEF LevelStep, VerifyPhoneOTP, RefreshCitizen
  <1>23. ASSUME AccountsNext
         PROVE  VerifiedHasCitizen'
    BY <1>0, <1>20, <1>21, <1>22, <1>23
       DEF AccountsNext, IssueState, Fail, DanAuthorized, Expire
  <1>24. ASSUME NEW r \in Req, CardStep(r) \/ EidStep(r)
         PROVE  VerifiedHasCitizen'
    BY <1>0, <1>6, <1>7, <1>24
       DEF CardStep, EidStep, RegisterCard, RevokeCard, writeAuditLog, VerifyEID,
           MarkCitizen, EidFail, accountVars
  <1>25. QED
    BY <1>0, <1>23, <1>24, StepCases DEF vars

\* A state that was deleted is gone for good.
LEMMA StatesStep ==
    ASSUME Inv, [Next]_vars
    PROVE  StatesAreSpent'
  <1>t. TypeOK /\ StatesAreSpent /\ \A r \in Req : Sound(r)
    BY DEF Inv
  <1>0. ASSUME UNCHANGED <<oauth, spent>>
        PROVE  StatesAreSpent'
    BY <1>0, <1>t DEF StatesAreSpent
  <1>1. ASSUME NEW p \in Providers, IssueState(p)
        PROVE  StatesAreSpent'
    BY <1>1, <1>t DEF IssueState, StatesAreSpent, TypeOK, AccountsTypeOK
  <1>2. ASSUME NEW r \in Req, DropState(r)
        PROVE  StatesAreSpent'
    <2>1. req[r].state \in State
      BY <1>2, <1>t DEF DropState, At, Sound
    <2>2. spent' \subseteq spent \cup {req[r].state}
      BY <1>2 DEF DropState
    <2>3. CASE oauth' = Deleted(req[r].state)
      BY <1>t, <2>1, <2>2, <2>3 DEF Deleted, StatesAreSpent, TypeOK, AccountsTypeOK
    <2>4. CASE UNCHANGED <<oauth, spent>>
      BY <1>0, <2>4
    <2>5. QED
      BY <1>2, <2>3, <2>4 DEF DropState
  <1>3. ASSUME Expire
        PROVE  StatesAreSpent'
    BY <1>3, <1>t DEF Expire, StatesAreSpent, TypeOK, AccountsTypeOK
  <1>20. ASSUME NEW r \in Req, LoginStep(r) \/ LinkStep(r) \/ LevelStep(r)
         PROVE  StatesAreSpent'
    <2>1. CASE LoginStep(r)
      BY <1>0, <1>2, <2>1
         DEF LoginStep, Callback, VerifyEmailOTP, FindUser, MatchEmail, StorePending,
             CreateUser, Enter
    <2>2. CASE LinkStep(r)
      BY <1>0, <2>2
         DEF LinkStep, ConfirmIdentityLink, VerifyIdentity, DanCallback, CheckCitizen,
             LinkProviderID, DropPending, SelectCitizen, InsertCitizen, CommitLink
    <2>3. CASE LevelStep(r)
      BY <1>0, <2>3
         DEF LevelStep, VerifyPhoneOTP, RefreshCitizen, UpdateVerificationLevel
    <2>4. QED
      BY <1>20, <2>1, <2>2, <2>3
  <1>23. ASSUME AccountsNext
         PROVE  StatesAreSpent'
    <2>1. {"google", "apple", "facebook", "twitter"} = Providers
      BY DEF Providers
    <2>2. QED
      BY <1>0, <1>1, <1>3, <1>20, <1>23, <2>1 DEF AccountsNext, Fail, DanAuthorized
  <1>24. ASSUME NEW r \in Req, CardStep(r) \/ EidStep(r)
         PROVE  StatesAreSpent'
    BY <1>0, <1>24
       DEF CardStep, EidStep, RegisterCard, RevokeCard, writeAuditLog, VerifyEID,
           MarkCitizen, RaiseToFour, ConsultMetadata, EidFail, accountVars
  <1>25. QED
    BY <1>0, <1>23, <1>24, StepCases DEF vars

\* A check that passed leaves a request that will write its level, and none
\* ends without having written it or without the user counted as faulty.
LEMMA LevelsStep ==
    ASSUME Inv, [Next]_vars
    PROVE  LevelsAreOwed'
  <1>t. /\ TypeOK /\ TypeOK' /\ Grows /\ LevelsAreOwed /\ HistoryIsOfUsers
        /\ \A r \in Req : Sound(r) /\ EidSound(r)
    BY TypeStep, GrowStep DEF Inv
  <1>q. \A r \in Req : req[r] \in Request /\ ereq[r] \in EidRequest
    BY <1>t DEF TypeOK, AccountsTypeOK
  <1>k. \A p \in proofs : p[1] \in User /\ Exists(p[1]) /\ p[2] \in 2..4
    BY <1>t DEF TypeOK, AccountsTypeOK, HistoryIsOfUsers
  <1>l. \A u \in User : /\ users[u].level \in 1..4 /\ users'[u].level \in 1..4
                        /\ Exists(u) => users[u].level <= users'[u].level
    BY <1>t DEF TypeOK, AccountsTypeOK, Row, Grows
  <1>w. \A p \in proofs : p[2] <= users[p[1]].level => p[2] <= users'[p[1]].level
    BY <1>k, <1>l
  \* A step in which request r owes no level before, and the others stay.
  <1>1. ASSUME NEW r \in Req, req[r].pc \notin {"refresh", "level"},
               \A q \in Req \ {r} : req'[q] = req[q],
               proofs' = proofs, faulty' = faulty, ereq' = ereq
        PROVE  LevelsAreOwed'
    <2>1. \A p \in proofs, q \in Req :
             OwedByAccount(q, p) => q # r /\ OwedByAccount(q, p)'
      BY <1>1 DEF OwedByAccount
    <2>2. \A p \in proofs, q \in Req : OwedByCard(q, p) => OwedByCard(q, p)'
      BY <1>1 DEF OwedByCard
    <2>3. QED
      BY <1>1, <1>w, <1>t, <2>1, <2>2 DEF LevelsAreOwed
  <1>2. ASSUME req' = req, proofs' = proofs, faulty' = faulty, ereq' = ereq
        PROVE  LevelsAreOwed'
    <2>1. \A p \in proofs, q \in Req :
             /\ OwedByAccount(q, p) => OwedByAccount(q, p)'
             /\ OwedByCard(q, p) => OwedByCard(q, p)'
      BY <1>2 DEF OwedByAccount, OwedByCard
    <2>2. QED
      BY <1>2, <1>w, <1>t, <2>1 DEF LevelsAreOwed
  \* A step after which request r owes the level n of user u.
  <1>3. ASSUME NEW r \in Req, req[r].pc \notin {"refresh", "level"},
               \A q \in Req \ {r} : req'[q] = req[q],
               faulty' = faulty, ereq' = ereq,
               req'[r].pc \in {"refresh", "level"},
               proofs' = proofs \cup {<<req'[r].user, Level(req'[r].op)>>}
        PROVE  LevelsAreOwed'
    <2>1. \A p \in proofs, q \in Req :
             OwedByAccount(q, p) => q # r /\ OwedByAccount(q, p)'
      BY <1>3 DEF OwedByAccount
    <2>2. \A p \in proofs, q \in Req : OwedByCard(q, p) => OwedByCard(q, p)'
      BY <1>3 DEF OwedByCard
    <2> DEFINE u == req'[r].user
               n == Level(req'[r].op)
    <2>3. QED
      <3>1. ASSUME NEW p \in proofs'
            PROVE  \/ p[2] <= users'[p[1]].level
                   \/ p[1] \in faulty'
                   \/ \E q \in Req : OwedByAccount(q, p)' \/ OwedByCard(q, p)'
        <4>1. CASE p \in proofs
          BY <1>3, <1>w, <1>t, <2>1, <2>2, <4>1 DEF LevelsAreOwed
        <4>2. CASE p = <<u, n>>
          BY <1>3, <4>2 DEF OwedByAccount
        <4>3. QED
          BY <1>3, <3>1, <4>1, <4>2
      <3>2. QED
        BY <3>1 DEF LevelsAreOwed
  \* The same of the e-ID service, and of a request that owes nothing.
  <1>4. ASSUME NEW r \in Req, ereq[r].pc \notin {"mark", "raise"},
               \A q \in Req \ {r} : ereq'[q] = ereq[q],
               faulty' = faulty, req' = req,
               \/ proofs' = proofs
               \/ /\ ereq'[r].pc = "mark"
                  /\ proofs' = proofs \cup {<<ereq'[r].user, 4>>}
        PROVE  LevelsAreOwed'
    <2>1. \A p \in proofs, q \in Req :
             OwedByCard(q, p) => q # r /\ OwedByCard(q, p)'
      BY <1>4 DEF OwedByCard
    <2>2. \A p \in proofs, q \in Req : OwedByAccount(q, p) => OwedByAccount(q, p)'
      BY <1>4 DEF OwedByAccount
    <2>3. ASSUME NEW p \in proofs'
          PROVE  \/ p[2] <= users'[p[1]].level
                 \/ p[1] \in faulty'
                 \/ \E q \in Req : OwedByAccount(q, p)' \/ OwedByCard(q, p)'
      <3>1. CASE p \in proofs
        BY <1>4, <1>w, <1>t, <2>1, <2>2, <3>1 DEF LevelsAreOwed
      <3>2. CASE ereq'[r].pc = "mark" /\ p = <<ereq'[r].user, 4>>
        BY <3>2 DEF OwedByCard
      <3>3. QED
        BY <1>4, <2>3, <3>1, <3>2
    <2>4. QED
      BY <2>3 DEF LevelsAreOwed
  <1>5. ASSUME NEW r \in Req, RefreshCitizen(r), UNCHANGED eidVars
        PROVE  LevelsAreOwed'
    <2>1. /\ req[r].pc = "refresh"
          /\ req'[r].pc = "level" /\ req'[r].op = req[r].op
          /\ req'[r].user = req[r].user
          /\ \A q \in Req \ {r} : req'[q] = req[q]
      BY <1>5, <1>t, <1>q DEF RefreshCitizen, At, GoTo, TypeOK, AccountsTypeOK, Request
    <2>2. proofs' = proofs /\ faulty' = faulty /\ ereq' = ereq
      BY <1>5 DEF RefreshCitizen, eidVars
    <2>3. \A p \in proofs, q \in Req :
             /\ OwedByAccount(q, p) => OwedByAccount(q, p)'
             /\ OwedByCard(q, p) => OwedByCard(q, p)'
      BY <2>1, <2>2 DEF OwedByAccount, OwedByCard
    <2>4. QED
      BY <1>w, <1>t, <2>2, <2>3 DEF LevelsAreOwed
  \* A request that owes a level ends, and has written it or is counted.
  <1>6. ASSUME NEW r \in Req, Finish(r), proofs' = proofs, ereq' = ereq,
               faulty \subseteq faulty',
               req[r].pc \in {"refresh", "level"} =>
                  \/ req[r].user \in faulty'
                  \/ Level(req[r].op) <= users'[req[r].user].level
        PROVE  LevelsAreOwed'
    <2>1. \A q \in Req \ {r} : req'[q] = req[q]
      BY <1>6, <1>t DEF Finish, TypeOK, AccountsTypeOK
    <2>2. \A p \in proofs, q \in Req :
             /\ OwedByAccount(q, p) /\ q # r => OwedByAccount(q, p)'
             /\ OwedByCard(q, p) => OwedByCard(q, p)'
             /\ OwedByAccount(r, p) => p[1] \in faulty' \/ p[2] <= users'[p[1]].level
      BY <1>6, <2>1 DEF OwedByAccount, OwedByCard
    <2>3. QED
      BY <1>6, <1>w, <1>t, <2>2 DEF LevelsAreOwed
  <1>7. ASSUME NEW r \in Req, UpdateVerificationLevel(r), UNCHANGED eidVars
        PROVE  LevelsAreOwed'
    <2> DEFINE u == req[r].user
               n == Level(req[r].op)
    <2>1. u \in User /\ req[r].op \in {"verify", "dan", "phone"}
      BY <1>7, <1>t DEF UpdateVerificationLevel, At, Sound
    <2>2. n \in 1..4
      BY <2>1, LevelType
    <2>3. /\ Finish(r) /\ proofs' = proofs /\ ereq' = ereq
          /\ \/ users' = [users EXCEPT ![u].level = Raised(@, n)] /\ faulty' = faulty
             \/ faulty' = faulty \cup {u}
      BY <1>7 DEF UpdateVerificationLevel, eidVars
    <2>4. users' = [users EXCEPT ![u].level = Raised(@, n)] => n <= users'[u].level
      <3>1. users \in [User -> Row] /\ users[u] \in Row
        BY <1>t, <2>1 DEF TypeOK, AccountsTypeOK
      <3>2. Raised(users[u].level, n) >= n
        BY <2>2, <3>1, RowType
      <3>3. users' = [users EXCEPT ![u].level = Raised(users[u].level, n)]
               => users'[u].level = Raised(users[u].level, n)
        BY <2>1, <3>1 DEF Row
      <3>4. users'[u].level \in 1..4
        BY <1>l, <2>1
      <3>5. QED
        BY <2>2, <3>2, <3>3, <3>4
    <2> HIDE DEF n
    <2>5. QED
      BY <1>6, <2>3, <2>4 DEF n
  <1>8. ASSUME NEW r \in Req, Fail(r), UNCHANGED eidVars
        PROVE  LevelsAreOwed'
    BY <1>6, <1>8 DEF Fail, At, eidVars
  <1>9. ASSUME NEW r \in Req, CommitLink(r), UNCHANGED eidVars
        PROVE  LevelsAreOwed'
    <2> DEFINE op == req[r].op
    <2>1. op \in {"confirm", "verify", "dan"} /\ req[r].pc = "commit"
      BY <1>9, <1>t DEF CommitLink, At, Sound
    <2>2. /\ AfterLink("confirm") = "tie" /\ AfterLink("verify") = "level"
          /\ AfterLink("dan") = "refresh"
      BY DEF AfterLink
    <2>3. /\ req'[r].pc = AfterLink(op) /\ req'[r].op = op
          /\ req'[r].user = req[r].user
          /\ \A q \in Req \ {r} : req'[q] = req[q]
      BY <1>9, <1>t, <1>q DEF CommitLink, GoTo, TypeOK, AccountsTypeOK, Request
    <2>4. /\ op = "confirm" => proofs' = proofs
          /\ op # "confirm" => proofs' = proofs \cup {<<req[r].user, Level(op)>>}
      BY <1>9, Zenon DEF CommitLink
    <2>5. faulty' = faulty /\ ereq' = ereq
      BY <1>9 DEF CommitLink, eidVars
    <2>6. CASE op = "confirm"
      BY <1>1, <2>1, <2>3, <2>4, <2>5, <2>6
    <2>7. CASE op # "confirm"
      <3>1. req'[r].pc \in {"refresh", "level"}
        BY <2>1, <2>2, <2>3, <2>7
      <3>2. req[r].pc \notin {"refresh", "level"}
        BY <2>1
      <3>3. proofs' = proofs \cup {<<req'[r].user, Level(req'[r].op)>>}
        BY <2>3, <2>4, <2>7
      <3>4. QED
        BY <1>3, <2>3, <2>5, <3>1, <3>2, <3>3
    <2>8. QED
      BY <2>6, <2>7
  <1>10. ASSUME NEW r \in Req, NEW u \in User, VerifyPhoneOTP(r, u), UNCHANGED eidVars
         PROVE  LevelsAreOwed'
    <2>1. /\ req[r].pc = "idle" /\ req'[r].pc = "level" /\ req'[r].op = "phone"
          /\ req'[r].user = u
          /\ \A q \in Req \ {r} : req'[q] = req[q]
      BY <1>10, <1>t DEF VerifyPhoneOTP, Begin, About, TypeOK, AccountsTypeOK
    <2>2. /\ proofs' = proofs \cup {<<u, Level("phone")>>}
          /\ faulty' = faulty /\ ereq' = ereq
      BY <1>10, LevelType DEF VerifyPhoneOTP, eidVars
    <2>3. QED
      BY <1>3, <2>1, <2>2
  \* The other steps of request r: it owes no level before.
  <1>11. ASSUME NEW r \in Req, LoginStep(r), UNCHANGED eidVars
         PROVE  LevelsAreOwed'
    <2>1. req[r].pc \notin {"refresh", "level"}
      BY <1>11
         DEF LoginStep, Callback, DropState, FindUser, MatchEmail, StorePending,
             CreateUser, Enter, VerifyEmailOTP, Begin, At
    <2>2. \A q \in Req \ {r} : req'[q] = req[q]
      BY <1>11, <1>t
         DEF LoginStep, Callback, DropState, FindUser, MatchEmail, StorePending,
             CreateUser, Enter, VerifyEmailOTP, Begin, GoTo, Finish, TypeOK,
             AccountsTypeOK
    <2>3. proofs' = proofs /\ faulty' = faulty /\ ereq' = ereq
      BY <1>11
         DEF LoginStep, Callback, DropState, FindUser, MatchEmail, StorePending,
             CreateUser, Enter, VerifyEmailOTP, eidVars
    <2>4. QED
      BY <1>1, <2>1, <2>2, <2>3
  <1>12. ASSUME NEW r \in Req, LinkStep(r), ~CommitLink(r), UNCHANGED eidVars
         PROVE  LevelsAreOwed'
    <2>1. req[r].pc \notin {"refresh", "level"}
      BY <1>12
         DEF LinkStep, ConfirmIdentityLink, VerifyIdentity, DanCallback,
             CheckCitizen, LinkProviderID, DropPending, SelectCitizen,
             InsertCitizen, Begin, At
    <2>2. \A q \in Req \ {r} : req'[q] = req[q]
      BY <1>12, <1>t
         DEF LinkStep, ConfirmIdentityLink, VerifyIdentity, DanCallback,
             CheckCitizen, LinkProviderID, DropPending, SelectCitizen,
             InsertCitizen, Begin, GoTo, Finish, TypeOK, AccountsTypeOK
    <2>3. proofs' = proofs /\ faulty' = faulty /\ ereq' = ereq
      BY <1>12
         DEF LinkStep, ConfirmIdentityLink, VerifyIdentity, DanCallback,
             CheckCitizen, LinkProviderID, DropPending, SelectCitizen,
             InsertCitizen, eidVars
    <2>4. QED
      BY <1>1, <2>1, <2>2, <2>3
  <1>13. ASSUME NEW r \in Req, MarkCitizen(r)
         PROVE  LevelsAreOwed'
    <2>1. /\ ereq[r].pc = "mark" /\ ereq'[r].pc = "raise"
          /\ ereq'[r].user = ereq[r].user
          /\ \A q \in Req \ {r} : ereq'[q] = ereq[q]
      BY <1>13, <1>t, <1>q DEF MarkCitizen, TypeOK, EidRequest
    <2>2. proofs' = proofs /\ faulty' = faulty /\ req' = req
      BY <1>13 DEF MarkCitizen, accountVars
    <2>3. \A p \in proofs, q \in Req :
             /\ OwedByAccount(q, p) => OwedByAccount(q, p)'
             /\ OwedByCard(q, p) => OwedByCard(q, p)'
      BY <2>1, <2>2 DEF OwedByAccount, OwedByCard
    <2>4. QED
      BY <1>w, <1>t, <2>2, <2>3 DEF LevelsAreOwed
  <1>14. ASSUME NEW r \in Req, RaiseToFour(r) \/ EidFail(r)
         PROVE  LevelsAreOwed'
    <2>1. /\ \A q \in Req \ {r} : ereq'[q] = ereq[q]
          /\ proofs' = proofs /\ faulty \subseteq faulty' /\ req' = req
      BY <1>14, <1>t DEF RaiseToFour, EidFail, EidFinish, TypeOK
    <2>2. ereq[r].pc \in {"mark", "raise"} =>
             \/ ereq[r].user \in faulty'
             \/ users'[ereq[r].user].level = 4
      <3>1. CASE RaiseToFour(r)
        <4>1. ereq[r].user \in User
          BY <1>t, <3>1 DEF RaiseToFour, EidSound
        <4>2. EidSound(r)' /\ ereq'[r].pc = "metadata" /\ ereq'[r].user = ereq[r].user
          BY <1>q, <1>t, <3>1, SoundStep DEF RaiseToFour, TypeOK, EidRequest
        <4>3. QED
          BY <4>2 DEF EidSound
      <3>2. CASE EidFail(r)
        BY <3>2 DEF EidFail
      <3>3. QED
        BY <1>14, <3>1, <3>2
    <2>3. \A p \in proofs, q \in Req :
             /\ OwedByAccount(q, p) => OwedByAccount(q, p)'
             /\ OwedByCard(q, p) /\ q # r => OwedByCard(q, p)'
      BY <2>1 DEF OwedByAccount, OwedByCard
    <2>4. \A p \in proofs :
             OwedByCard(r, p) => p[1] \in faulty' \/ p[2] <= users'[p[1]].level
      BY <1>k, <2>2 DEF OwedByCard
    <2>5. QED
      BY <1>w, <1>t, <2>1, <2>3, <2>4 DEF LevelsAreOwed
  <1>15. ASSUME NEW r \in Req, CardStep(r) \/ ConsultMetadata(r)
         PROVE  LevelsAreOwed'
    <2>1. /\ ereq[r].pc \notin {"mark", "raise"}
          /\ \A q \in Req \ {r} : ereq'[q] = ereq[q]
          /\ proofs' = proofs /\ faulty' = faulty /\ req' = req
      BY <1>15, <1>t DEF CardStep, RegisterCard, RevokeCard, writeAuditLog,
             ConsultMetadata, EidBegin, EidFinish, EidIdle, Entry, TypeOK, accountVars
    <2>2. QED
      BY <1>4, <2>1
  <1>16. ASSUME NEW r \in Req, NEW u \in User, NEW c \in Citizen, VerifyEID(r, u, c)
         PROVE  LevelsAreOwed'
    <2>1. /\ ereq[r].pc \notin {"mark", "raise"}
          /\ \A q \in Req \ {r} : ereq'[q] = ereq[q]
          /\ ereq'[r].pc = "mark" /\ ereq'[r].user = u
          /\ proofs' = proofs \cup {<<u, 4>>} /\ faulty' = faulty /\ req' = req
      BY <1>16, <1>t DEF VerifyEID, EidBegin, EidIdle, TypeOK
    <2>2. QED
      BY <1>4, <2>1
  <1>23. ASSUME AccountsNext, UNCHANGED eidVars
         PROVE  LevelsAreOwed'
    <2>1. CASE \E r \in Req : LoginStep(r) \/ LinkStep(r) \/ Fail(r)
      BY <1>8, <1>9, <1>11, <1>12, <1>23, <2>1
    <2>2. CASE \E r \in Req : LevelStep(r)
      BY <1>5, <1>7, <1>10, <1>23, <2>2 DEF LevelStep
    <2>3. CASE UNCHANGED <<req, proofs, faulty>>
      BY <1>2, <1>23, <2>3 DEF eidVars
    <2>4. QED
      BY <1>23, <2>1, <2>2, <2>3 DEF AccountsNext, IssueState, DanAuthorized, Expire
  <1>24. ASSUME NEW r \in Req, CardStep(r) \/ EidStep(r)
         PROVE  LevelsAreOwed'
    BY <1>13, <1>14, <1>15, <1>16, <1>24 DEF EidStep
  <1>25. QED
    BY <1>2, <1>23, <1>24, StepCases DEF vars

-----------------------------------------------------------------------------
(* The cards.                                                              *)

\* Cards are registered once, revoked once, and each of the two leaves at most
\* one entry.
LEMMA EntriesStep ==
    ASSUME Inv, [Next]_vars
    PROVE  EntriesAreOwed'
  <1>t. /\ TypeOK /\ TypeOK' /\ EntriesAreOwed
        /\ \A r \in Req : EidSound(r)
    BY TypeStep DEF Inv
  <1>q. \A r \in Req : /\ ereq[r] \in EidRequest
                       /\ ereq[r].pc \in Entry => ereq[r].card \in Card
    BY <1>t DEF TypeOK, EidSound
  <1>a. /\ \A k \in Card, e \in Entry : audit[k][e] \in 0..MaxEntries
        /\ \A k \in Card : card[k] \in {"none", "active", "revoked"}
    BY <1>t DEF TypeOK
  <1>0. ASSUME UNCHANGED <<card, audit, ereq>>
        PROVE  EntriesAreOwed'
    BY <1>0, <1>t DEF EntriesAreOwed
  \* A request that has an entry to write, or none, ends or begins without.
  <1>1. ASSUME NEW r \in Req, UNCHANGED <<card, audit>>,
               \A q \in Req \ {r} : ereq'[q] = ereq[q],
               ereq'[r].pc \notin Entry
        PROVE  EntriesAreOwed'
    BY <1>1, <1>t DEF EntriesAreOwed
  \* Card k changes its status, and request r owes the entry e.
  <1>2. ASSUME NEW r \in Req, NEW k \in Card, NEW e \in Entry,
               EidBegin(r, "card", EntryOf(e, k)), UNCHANGED audit,
               \/ e = "issued" /\ card[k] = "none" /\ card' = [card EXCEPT ![k] = "active"]
               \/ e = "revoked" /\ card[k] = "active"
                     /\ card' = [card EXCEPT ![k] = "revoked"]
        PROVE  EntriesAreOwed'
    <2>1. /\ ereq[r].pc = "idle"
          /\ ereq'[r].pc = e /\ ereq'[r].card = k
          /\ \A q \in Req \ {r} : ereq'[q] = ereq[q]
      BY <1>2, <1>t DEF EidBegin, EntryOf, EidIdle, TypeOK
    <2>2. \A j \in Card : j # k => card'[j] = card[j]
      BY <1>2, <1>t DEF TypeOK
    <2>3. card'[k] = IF e = "issued" THEN "active" ELSE "revoked"
      BY <1>2, <1>t DEF TypeOK
    <2>4. audit' = audit /\ audit[k][e] = 0
      BY <1>2, <1>t DEF EntriesAreOwed
    <2>5. \A q \in Req : ~(ereq[q].pc = e /\ ereq[q].card = k)
      BY <1>2, <1>t DEF EntriesAreOwed
    <2>6. \A j \in Card :
             /\ \A d \in Entry : audit'[j][d] <= 1
             /\ card'[j] = "none" => audit'[j]["issued"] = 0
             /\ card'[j] # "revoked" => audit'[j]["revoked"] = 0
      BY <1>2, <1>t, <2>2, <2>3, <2>4 DEF EntriesAreOwed
    <2>7. ASSUME NEW p \in Req, ereq'[p].pc \in Entry
          PROVE  /\ audit'[ereq'[p].card][ereq'[p].pc] = 0
                 /\ card'[ereq'[p].card] # "none"
                 /\ ereq'[p].pc = "revoked" => card'[ereq'[p].card] = "revoked"
                 /\ \A q \in Req \ {p} :
                       ~(ereq'[q].pc = ereq'[p].pc /\ ereq'[q].card = ereq'[p].card)
      <3>1. CASE p = r
        BY <2>1, <2>3, <2>4, <2>5, <3>1 DEF Entry
      <3>2. CASE p # r
        <4>1. ereq'[p] = ereq[p] /\ ereq[p].card \in Card
          BY <1>q, <2>1, <2>7, <3>2
        <4>2. /\ audit[ereq[p].card][ereq[p].pc] = 0
              /\ card[ereq[p].card] # "none"
              /\ ereq[p].pc = "revoked" => card[ereq[p].card] = "revoked"
              /\ \A q \in Req \ {p} :
                    ~(ereq[q].pc = ereq[p].pc /\ ereq[q].card = ereq[p].card)
          BY <1>t, <2>7, <4>1 DEF EntriesAreOwed
        <4>3. \A q \in Req \ {p} :
                 ~(ereq'[q].pc = ereq'[p].pc /\ ereq'[q].card = ereq'[p].card)
          BY <2>1, <2>5, <4>1, <4>2
        <4>4. /\ card'[ereq[p].card] # "none"
              /\ ereq[p].pc = "revoked" => card'[ereq[p].card] = "revoked"
          BY <1>2, <2>2, <2>3, <4>1, <4>2
        <4>5. QED
          BY <2>4, <4>1, <4>2, <4>3, <4>4
      <3>3. QED
        BY <3>1, <3>2
    <2>8. QED
      BY <2>6, <2>7 DEF EntriesAreOwed
  <1>3. ASSUME NEW r \in Req, writeAuditLog(r)
        PROVE  EntriesAreOwed'
    <2> DEFINE k == ereq[r].card
               e == ereq[r].pc
    <2>1. e \in Entry /\ k \in Card
      BY <1>3, <1>q DEF writeAuditLog
    <2>2. /\ audit[k][e] = 0 /\ card[k] # "none" /\ (e = "revoked" => card[k] = "revoked")
          /\ \A q \in Req \ {r} : ~(ereq[q].pc = e /\ ereq[q].card = k)
      BY <1>t, <2>1 DEF EntriesAreOwed
    <2>3. /\ ereq'[r].pc = "idle" /\ card' = card
          /\ \A q \in Req \ {r} : ereq'[q] = ereq[q]
      BY <1>3, <1>t DEF writeAuditLog, EidFinish, EidIdle, TypeOK
    <2>4. \A j \in Card, d \in Entry :
             audit'[j][d] = IF j = k /\ d = e THEN audit[k][e] + 1 ELSE audit[j][d]
      BY <1>3, <1>t, <2>1 DEF writeAuditLog, TypeOK
    <2> HIDE DEF k, e
    <2>5. \A j \in Card :
             /\ \A d \in Entry : audit'[j][d] <= 1
             /\ card'[j] = "none" => audit'[j]["issued"] = 0
             /\ card'[j] # "revoked" => audit'[j]["revoked"] = 0
      BY <1>t, <1>a, <2>1, <2>2, <2>3, <2>4 DEF EntriesAreOwed, Entry
    <2>6. ASSUME NEW p \in Req, ereq'[p].pc \in Entry
          PROVE  /\ audit'[ereq'[p].card][ereq'[p].pc] = 0
                 /\ card'[ereq'[p].card] # "none"
                 /\ ereq'[p].pc = "revoked" => card'[ereq'[p].card] = "revoked"
                 /\ \A q \in Req \ {p} :
                       ~(ereq'[q].pc = ereq'[p].pc /\ ereq'[q].card = ereq'[p].card)
      <3>1. p # r
        BY <2>3, <2>6 DEF Entry
      <3>2. ereq'[p] = ereq[p] /\ ereq[p].pc \in Entry /\ ereq[p].card \in Card
        BY <1>q, <2>3, <2>6, <3>1
      <3>3. /\ audit[ereq[p].card][ereq[p].pc] = 0
            /\ card[ereq[p].card] # "none"
            /\ ereq[p].pc = "revoked" => card[ereq[p].card] = "revoked"
            /\ \A q \in Req \ {p} :
                  ~(ereq[q].pc = ereq[p].pc /\ ereq[q].card = ereq[p].card)
        BY <1>t, <3>2 DEF EntriesAreOwed
      <3>4. audit'[ereq[p].card][ereq[p].pc] = 0
        BY <2>2, <2>4, <3>1, <3>2, <3>3
      <3>5. \A q \in Req \ {p} :
               ~(ereq'[q].pc = ereq'[p].pc /\ ereq'[q].card = ereq'[p].card)
        BY <2>3, <3>2, <3>3 DEF Entry
      <3>6. QED
        BY <2>3, <3>2, <3>3, <3>4, <3>5
    <2>7. QED
      BY <2>5, <2>6 DEF EntriesAreOwed
  <1>4. ASSUME NEW r \in Req, EidStep(r)
        PROVE  EntriesAreOwed'
    <2>1. /\ UNCHANGED <<card, audit>>
          /\ \A q \in Req \ {r} : ereq'[q] = ereq[q]
      BY <1>4, <1>t DEF EidStep, VerifyEID, MarkCitizen, RaiseToFour, ConsultMetadata,
             EidFail, EidBegin, EidFinish, TypeOK
    <2>2. ereq'[r].pc \notin Entry
      BY <1>4, <1>t, <1>q DEF EidStep, VerifyEID, MarkCitizen, RaiseToFour,
             ConsultMetadata, EidFail, EidBegin, EidFinish, EidIdle, Entry, TypeOK,
             EidRequest
    <2>3. QED
      BY <1>1, <2>1, <2>2
  <1>5. ASSUME NEW r \in Req, CardStep(r)
        PROVE  EntriesAreOwed'
    <2>1. "issued" \in Entry /\ "revoked" \in Entry
      BY DEF Entry
    <2>2. ASSUME NEW k \in Card, NEW c \in Citizen, RegisterCard(r, k, c)
          PROVE  EntriesAreOwed'
      BY <1>2, <2>1, <2>2 DEF RegisterCard
    <2>3. ASSUME NEW k \in Card, RevokeCard(r, k)
          PROVE  EntriesAreOwed'
      BY <1>2, <2>1, <2>3 DEF RevokeCard, Revocable
    <2>4. QED
      BY <1>3, <1>5, <2>2, <2>3 DEF CardStep
  <1>6. QED
    BY <1>0, <1>4, <1>5, StepCases DEF eidVars, vars

-----------------------------------------------------------------------------
(* The theorems.                                                           *)

LEMMA InitInv == Init => Inv
  <1> SUFFICES ASSUME Init
               PROVE  Inv
    OBVIOUS
  <1> USE DEF Init, AccountsInit
  <1>1. TypeOK
    <2>1. 0 \in 0..MaxEntries
      BY EidAssumption
    <2>2. NoRow \in Row
      BY DEF NoRow, Row
    <2>3. AccountsTypeOK
      <3>1. users \in [User -> Row] /\ req \in [Req -> Request]
        BY <2>2, IdleTypes
      <3>2. /\ citizens \in [Citizen -> {"absent", "core", "dan"}]
            /\ oauth \in [State -> Providers \cup {"unused", "gone"}]
            /\ pending \in [User -> Account \cup {Nobody}]
        OBVIOUS
      <3>3. /\ tied \subseteq User \X Account /\ relinked \subseteq User \X Account
            /\ logins \subseteq User \X Identity
            /\ proofs \subseteq User \X (2..4) /\ faulty \subseteq User
            /\ spent \subseteq State /\ load \in Loads
        OBVIOUS
      <3> HIDE DEF Init, AccountsInit
      <3>4. QED
        BY <3>1, <3>2, <3>3 DEF AccountsTypeOK
    <2>4. audit \in [Card -> [Entry -> 0..MaxEntries]]
      BY <2>1
    <2>5. QED
      BY <2>3, <2>4, IdleTypes DEF TypeOK
  <1>2. \A r \in Req : Sound(r) /\ EidSound(r)
    BY DEF Sound, EidSound, Idle, EidIdle, Entry
  <1>3. RowsAreUsed /\ HistoryIsOfUsers /\ StatesAreSpent /\ LoginsAreTied
    BY DEF RowsAreUsed, HistoryIsOfUsers, StatesAreSpent, LoginsAreTied, NoRow
  <1>4. VerifiedHasCitizen /\ LevelsAreOwed
    BY DEF VerifiedHasCitizen, LevelsAreOwed, NoRow
  <1>5. EntriesAreOwed
    BY DEF EntriesAreOwed, EidIdle, Entry
  <1>6. QED
    BY <1>1, <1>2, <1>3, <1>4, <1>5 DEF Inv

LEMMA InvStep == Inv /\ [Next]_vars => Inv'
  BY TypeStep, SoundStep, RowsStep, HistoryStep, StatesStep, VerifiedStep, LevelsStep,
     EntriesStep DEF Inv

LEMMA Invariant == Spec => []Inv
  BY InitInv, InvStep, PTL DEF Spec

\* Rows, requests, states, cards and histories keep their types, and the log
\* of a card its bound.
THEOREM AccountsTypeCorrect == Spec => []TypeOK
  BY Invariant, PTL DEF Inv

\* Nobody is let in through an account that was not shown to be the user's:
\* FindUser and CreateUser let in who has the row's own account or address,
\* and LinkProviderID adds an account only after the owner's citizen was named,
\* or a confirmation checked when there was none has replaced the citizen.
THEOREM AccountsLoginsAreTied == Spec => []LoginsAreTied
  BY Invariant, PTL DEF Inv

\* Users who are verified are those with a citizen, whose row exists: the
\* UPDATE of LinkCitizen writes both and follows the INSERT in one transaction.
THEOREM AccountsVerifiedHasCitizen == Spec => []VerifiedHasCitizen
  BY Invariant, PTL DEF Inv

\* UpdateVerificationLevel loses no check to a lesser one, whichever of the
\* requests under way writes last.
THEOREM AccountsLevelIsBestProof == Spec => []LevelIsBestProof
  <1>1. Inv => LevelIsBestProof
    <2> SUFFICES ASSUME Inv, NEW u \in User
                 PROVE  /\ users[u].level = 1 \/ <<u, users[u].level>> \in proofs
                        /\ Unsettled(u) \/ u \in faulty
                             \/ \A p \in proofs : p[1] = u => p[2] <= users[u].level
      BY DEF LevelIsBestProof
    <2>1. users[u].level = 1 \/ <<u, users[u].level>> \in proofs
      BY DEF Inv, RowsAreUsed
    <2>2. \A p \in proofs, r \in Req :
             p[1] = u /\ (OwedByAccount(r, p) \/ OwedByCard(r, p)) => Unsettled(u)
      BY DEF OwedByAccount, OwedByCard, Unsettled
    <2>3. ASSUME NEW p \in proofs, p[1] = u, ~Unsettled(u), u \notin faulty
          PROVE  p[2] <= users[u].level
      BY <2>2, <2>3 DEF Inv, LevelsAreOwed
    <2>4. QED
      BY <2>1, <2>3
  <1>2. QED
    BY <1>1, Invariant, PTL

\* A verification by card that was answered with success wrote the citizen's
\* status, the user's level and mark, and none of them is taken back.
THEOREM EidAnswersHold == Spec => []EidAnswerHolds
  <1>1. Inv => EidAnswerHolds
    <2> SUFFICES ASSUME Inv, NEW a \in answered
                 PROVE  /\ users[a[1]].level = 4 /\ users[a[1]].verified
                        /\ users[a[1]].citizen = a[2] =>
                              users[a[1]].citizen # NoCitizen /\ eid[users[a[1]].citizen]
      BY DEF EidAnswerHolds, GetEIDStatus
    <2>1. a[2] \in Citizen /\ a[2] # NoCitizen
      BY AccountsAssumption DEF Inv, TypeOK
    <2>2. QED
      BY <2>1 DEF Inv, HistoryIsOfUsers
  <1>2. QED
    BY <1>1, Invariant, PTL

\* RevokeCard changes a row that is active: of two revocations one finds it,
\* and VerifyCard says no to a card whose revocation is in the log.
THEOREM CardsRevokedOnce == Spec => []RevokedOnce
  <1>1. Inv => RevokedOnce
    <2> SUFFICES ASSUME Inv, NEW k \in Card
                 PROVE  /\ audit[k]["revoked"] <= 1
                        /\ audit[k]["revoked"] > 0 => card[k] # "active"
      BY DEF RevokedOnce, GetCardHistory, VerifyCard
    <2>1. audit[k]["revoked"] \in Nat
      BY DEF Inv, TypeOK, Entry
    <2>2. "revoked" \in Entry
      BY DEF Entry
    <2>3. /\ audit[k]["revoked"] <= 1
          /\ card[k] # "revoked" => audit[k]["revoked"] = 0
      BY <2>2 DEF Inv, EntriesAreOwed
    <2>4. QED
      BY <2>1, <2>3
  <1>2. QED
    BY <1>1, Invariant, PTL

\* A callback passes with a state of its own provider that no answered DEL
\* has removed: Callback reads the value that IssueState stored, and a state
\* that is gone is never stored again.
THEOREM CallbacksAreGuarded == Spec => StatesGuardCallbacks
  <1>1. ASSUME Inv, [Next]_vars, NEW r \in Req, At(r, "idle"), req'[r].pc = "drop"
        PROVE  /\ req'[r].state \notin spent
               /\ oauth[req'[r].state] = Provider[req'[r].who]
    <2>1. TypeOK /\ StatesAreSpent
      BY <1>1 DEF Inv
    <2>2. ASSUME NEW q \in Req, NEW p \in Providers, NEW s \in State,
                 NEW a \in Account, Callback(q, p, s, a)
          PROVE  /\ req'[r].state \notin spent
                 /\ oauth[req'[r].state] = Provider[req'[r].who]
      <3>1. oauth[s] = p /\ Provider[a] = p /\ s \notin spent
        BY <2>1, <2>2 DEF Callback, Accepted, StatesAreSpent, Providers
      <3>2. q = r
        BY <1>1, <2>1, <2>2 DEF Callback, Begin, At, TypeOK, AccountsTypeOK
      <3>3. req'[r].state = s /\ req'[r].who = a
        BY <2>1, <2>2, <3>2 DEF Callback, Begin, TypeOK, AccountsTypeOK
      <3>4. QED
        BY <3>1, <3>3
    \* No other step begins a callback.
    <2>3. ASSUME req'[r] = req[r]
          PROVE  FALSE
      BY <1>1, <2>3 DEF At
    <2>4. ASSUME NEW q \in Req, NEW pc \in PC \ {"drop"}, GoTo(q, pc)
          PROVE  FALSE
      BY <1>1, <2>1, <2>4 DEF At, GoTo, TypeOK, AccountsTypeOK, Request
    <2>5. ASSUME NEW q \in Req, Finish(q)
          PROVE  FALSE
      BY <1>1, <2>1, <2>5 DEF At, Finish, Idle, TypeOK, AccountsTypeOK
    <2>6. ASSUME NEW q \in Req, NEW w, Begin(q, w), w.pc # "drop"
          PROVE  FALSE
      BY <1>1, <2>1, <2>6 DEF At, Begin, TypeOK, AccountsTypeOK
    <2>7. ASSUME NEW q \in Req, DropState(q)
          PROVE  FALSE
      BY <1>1, <2>1, <2>7 DEF At, DropState, TypeOK, AccountsTypeOK, Request
    <2>8. ASSUME NEW q \in Req, NEW pc \in PC \ {"drop"}, NEW u,
                 req' = [req EXCEPT ![q].pc = pc, ![q].user = u]
          PROVE  FALSE
      BY <1>1, <2>1, <2>8 DEF At, TypeOK, AccountsTypeOK, Request
    <2>9. PC \ {"drop"} = {"idle", "find", "match", "pend", "create", "enter", "check",
                           "tie", "unpend", "select", "insert", "commit", "refresh",
                           "level"}
      BY DEF PC
    <2>10. ASSUME NEW q \in Req, LoginStep(q)
           PROVE  \E p \in Providers, s \in State, a \in Account : Callback(q, p, s, a)
      <3>1. {"google", "apple", "facebook", "twitter"} = Providers
        BY DEF Providers
      <3>2. ~FindUser(q) /\ ~MatchEmail(q)
        BY <2>4, <2>8, <2>9 DEF FindUser, MatchEmail
      <3>3. ~StorePending(q) /\ ~Enter(q)
        BY <2>5 DEF StorePending, Enter
      <3>4. ~CreateUser(q)
        BY <2>8, <2>9 DEF CreateUser
      <3>5. \A e \in Email : ~VerifyEmailOTP(q, e)
        BY <2>6 DEF VerifyEmailOTP, About
      <3>6. QED
        BY <2>7, <2>10, <3>1, <3>2, <3>3, <3>4, <3>5 DEF LoginStep
    <2>11. ASSUME NEW q \in Req, LinkStep(q)
           PROVE  FALSE
      <3>1. ~CheckCitizen(q) /\ ~LinkProviderID(q) /\ ~DropPending(q)
        BY <2>4, <2>5, <2>9 DEF CheckCitizen, LinkProviderID, DropPending
      <3>2. ~SelectCitizen(q) /\ ~InsertCitizen(q)
        BY <2>4, <2>5, <2>9 DEF SelectCitizen, InsertCitizen
      <3>3. ~CommitLink(q)
        <4>1. AfterLink("confirm") = "tie" /\ AfterLink("verify") = "level"
              /\ AfterLink("dan") = "refresh"
          BY DEF AfterLink
        <4>2. CommitLink(q) => req[q].op \in {"confirm", "verify", "dan"}
          BY <1>1 DEF CommitLink, At, Inv, Sound
        <4>3. CommitLink(q) => AfterLink(req[q].op) \in PC \ {"drop"}
          BY <4>1, <4>2, <2>9
        <4>4. QED
          BY <2>4, <4>3 DEF CommitLink
      <3>4. \A u \in User, c \in Citizen :
               /\ ~ConfirmIdentityLink(q, u, c) /\ ~VerifyIdentity(q, u, c)
               /\ ~DanCallback(q, u, c)
        BY <2>6 DEF ConfirmIdentityLink, VerifyIdentity, DanCallback, About
      <3>5. QED
        BY <2>11, <3>1, <3>2, <3>3, <3>4 DEF LinkStep
    <2>12. ASSUME NEW q \in Req, LevelStep(q) \/ Fail(q)
           PROVE  FALSE
      <3>1. ~RefreshCitizen(q) /\ ~UpdateVerificationLevel(q) /\ ~Fail(q)
        BY <2>4, <2>5, <2>9 DEF RefreshCitizen, UpdateVerificationLevel, Fail
      <3>2. \A u \in User : ~VerifyPhoneOTP(q, u)
        BY <2>6 DEF VerifyPhoneOTP, About
      <3>3. QED
        BY <2>12, <3>1, <3>2 DEF LevelStep
    <2>13. ~UNCHANGED req
      BY <2>3
    <2>14. CASE AccountsNext
      BY <2>2, <2>10, <2>11, <2>12, <2>13, <2>14
         DEF AccountsNext, IssueState, DanAuthorized, Expire
    <2>15. ASSUME NEW q \in Req, CardStep(q) \/ EidStep(q)
           PROVE  FALSE
      BY <2>13, <2>15
         DEF CardStep, EidStep, RegisterCard, RevokeCard, writeAuditLog, VerifyEID,
             MarkCitizen, RaiseToFour, ConsultMetadata, EidFail, accountVars
    <2>16. QED
      BY <1>1, <2>13, <2>14, <2>15, StepCases DEF vars
  <1>2. Inv /\ [Next]_vars =>
           [\A r \in Req :
               At(r, "idle") /\ req'[r].pc = "drop" =>
                  /\ req'[r].state \notin spent
                  /\ oauth[req'[r].state] = Provider[req'[r].who]]_accountVars
    BY <1>1
  <1>3. QED
    BY <1>2, Invariant, PTL DEF Spec, StatesGuardCallbacks

=============================================================================
