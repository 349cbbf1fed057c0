------------------------- MODULE LoginSession_proofs -------------------------
(***************************************************************************)
(* Theorems about LoginSession, for any numbers of users, requests, tokens *)
(* and codes and any lifetimes that satisfy LoginAssumption.               *)
(***************************************************************************)
EXTENDS LoginSession, TLAPS

\* The three logins that mint a full token at once are one step.
USE DEF PasskeyLoginFinish, ConfirmIdentityLink, GetQRStatus,
        GetPushChallengeStatus

\* The lifetimes, as the arithmetic wants them.
LEMMA Lifetimes ==
    /\ FullTTL \in Nat /\ TempTTL \in Nat /\ CodeTTL \in Nat
    /\ FullTTL > 0 /\ TempTTL > 0 /\ CodeTTL > 0
    /\ CodeTTL <= TempTTL /\ TempTTL <= FullTTL
  BY LoginAssumption

\* A minted token has the type of a token.
LEMMA MintType ==
    ASSUME NEW u \in User, NEW p \in BOOLEAN, NEW f \in BOOLEAN, NEW o \in BOOLEAN
    PROVE  Mint(u, p, f, o) \in Jwt
  BY Lifetimes DEF Mint, Jwt

\* A token minted directly is a full one, and says so.
LEMMA MintDirect ==
    ASSUME NEW x
    PROVE  /\ Mint(x, FALSE, TRUE, FALSE).direct = TRUE
           /\ Mint(x, FALSE, TRUE, FALSE).pending = FALSE
  BY DEF Mint

\* The empty request has the type of a request.
LEMMA IdleType == Idle \in Request
  BY Lifetimes DEF Idle, Request, Routes

\* A request keeps its type when it moves on, and when a handler notes a TTL.
LEMMA RequestMoves ==
    ASSUME NEW q \in Request,
           NEW p \in {"idle", "issue", "blacklist", "handler", "upgrade", "revoke"}
    PROVE  /\ [q EXCEPT !.pc = p] \in Request
           /\ [q EXCEPT !.pc = p, !.late = FALSE] \in Request
           /\ \A n \in 0..FullTTL : [q EXCEPT !.pc = p, !.ttl = n] \in Request
  BY DEF Request

\* What a client is told of a token has the type of held.
LEMMA HeldType ==
    ASSUME NEW t \in Token, NEW b \in BOOLEAN
    PROVE  [tok |-> t, mfaRequired |-> b] \in [tok : Token, mfaRequired : BOOLEAN]
  OBVIOUS

\* A lifetime only shrinks, down to zero.
LEMMA LeftBounds ==
    ASSUME NEW m \in Nat, NEW n \in 0..m
    PROVE  /\ Left(n) \in 0..m
           /\ Left(n) <= n
           /\ \A k \in Nat : n <= k => Left(n) <= Left(k)
  BY DEF Left

-----------------------------------------------------------------------------
\* Every step keeps the types.
LEMMA TypeStep == TypeOK /\ Referenced /\ [Next]_vars => TypeOK'
  <1> SUFFICES ASSUME TypeOK, Referenced, [Next]_vars
               PROVE  TypeOK'
    OBVIOUS
  <1> USE Lifetimes, IdleType DEF TypeOK
  <1>1. ASSUME NEW r \in Req, NEW u \in User, FindUser(r, u)
        PROVE  TypeOK'
    BY <1>1 DEF FindUser, Request, Idle
  <1>2. ASSUME NEW r \in Req, NEW t \in Token, NEW route \in Routes,
               Authenticate(r, t, route)
        PROVE  TypeOK'
    <2> DEFINE late == t \in revoked
    <2>1. late \in BOOLEAN
      OBVIOUS
    <2>2. req' = [req EXCEPT ![r] = [Idle EXCEPT !.pc = "blacklist", !.tok = t,
                                                 !.route = route, !.late = late]]
      BY <1>2 DEF Authenticate
    <2> HIDE DEF late
    <2>3. req' \in [Req -> Request]
      BY <2>1, <2>2 DEF Request, Idle
    <2>4. QED
      BY <1>2, <2>3 DEF Authenticate
  <1>3. ASSUME NEW r \in Req, IssueLogin(r)
        PROVE  TypeOK'
    <2>1. req[r].user \in User /\ req[r].mfa \in BOOLEAN /\ req[r].sawOff \in BOOLEAN
      BY <1>3 DEF IssueLogin, Referenced, Request
    <2>2. PICK t \in Token, c \in Code :
            /\ token' = [token EXCEPT ![t] = MfaAwareToken(r)]
            /\ code' = [code EXCEPT ![c] = [status |-> "stored", tok |-> t,
                                            ttl |-> CodeTTL]]
      BY <1>3 DEF IssueLogin
    <2>3. MfaAwareToken(r) \in Jwt
      BY <2>1, MintType DEF MfaAwareToken
    <2>4. token' \in [Token -> Jwt]
      BY <2>2, <2>3
    <2>5. code' \in [Code -> CodeEntry]
      BY <2>2 DEF CodeEntry
    <2>6. QED
      BY <1>3, <2>4, <2>5 DEF IssueLogin, Finish
  <1>4. ASSUME NEW r \in Req,
               \/ IssueLoginFails(r) \/ Refuse(r) \/ Serve(r)
               \/ FactorRefused(r) \/ UpgradeFails(r)
        PROVE  TypeOK'
    BY <1>4 DEF IssueLoginFails, Refuse, Serve, FactorRefused, UpgradeFails, Finish
  <1>16. ASSUME NEW r \in Req, AdmitUnchecked(r)
         PROVE  TypeOK'
    <2>1. [req[r] EXCEPT !.pc = "handler", !.late = FALSE] \in Request
      BY RequestMoves
    <2>2. req' = [req EXCEPT ![r] = [req[r] EXCEPT !.pc = "handler", !.late = FALSE]]
      BY <1>16 DEF AdmitUnchecked
    <2>3. QED
      BY <1>16, <2>1, <2>2 DEF AdmitUnchecked
  <1>5. ASSUME NEW r \in Req, Admit(r) \/ FactorAccepted(r)
        PROVE  TypeOK'
    <2>1. PICK p \in {"handler", "upgrade"} : req' = [req EXCEPT ![r].pc = p]
      BY <1>5 DEF Admit, FactorAccepted
    <2>2. [req[r] EXCEPT !.pc = p] \in Request
      BY RequestMoves
    <2>3. req' = [req EXCEPT ![r] = [req[r] EXCEPT !.pc = p]]
      BY <2>1
    <2>4. QED
      BY <1>5, <2>2, <2>3 DEF Admit, FactorAccepted
  <1>6. ASSUME NEW r \in Req, Upgrade(r)
        PROVE  TypeOK'
    <2>1. token[req[r].tok].user \in User
      BY <1>6 DEF Upgrade, Referenced, Issued, Jwt
    <2>2. PICK t \in Token :
            /\ token' = [token EXCEPT ![t] =
                            Mint(token[req[r].tok].user, FALSE, TRUE, FALSE)]
            /\ held' = held \cup {[tok |-> t, mfaRequired |-> FALSE]}
      BY <1>6 DEF Upgrade
    <2>3. token' \in [Token -> Jwt]
      BY <2>1, <2>2, MintType
    <2>4. held' \subseteq [tok : Token, mfaRequired : BOOLEAN]
      BY <2>2, HeldType, Zenon
    <2>5. QED
      BY <1>6, <2>3, <2>4 DEF Upgrade, Finish
  <1>7. ASSUME NEW r \in Req, BeginLogout(r)
        PROVE  TypeOK'
    <2>1. token[req[r].tok].ttl \in 0..FullTTL
      BY <1>7 DEF BeginLogout, Referenced, Jwt
    <2> DEFINE n == token[req[r].tok].ttl
    <2>2. [req[r] EXCEPT !.pc = "revoke", !.ttl = n] \in Request
      BY <2>1, RequestMoves
    <2>3. req' = [req EXCEPT ![r] = [req[r] EXCEPT !.pc = "revoke", !.ttl = n]]
      BY <1>7 DEF BeginLogout
    <2> HIDE DEF n
    <2>4. QED
      BY <1>7, <2>2, <2>3 DEF BeginLogout
  <1>8. ASSUME NEW r \in Req, EndLogout(r) \/ EndLogoutFails(r)
        PROVE  TypeOK'
    <2>1. req[r].tok \in Token
      BY <1>8 DEF EndLogout, EndLogoutFails, Referenced
    <2>2. req[r].ttl \in 0..FullTTL
      BY DEF Request
    <2>3. QED
      BY <1>8, <2>1, <2>2 DEF EndLogout, EndLogoutFails, BlacklistToken, Finish
  <1>9. ASSUME NEW c \in Code, ExchangeToken(c)
        PROVE  TypeOK'
    <2>1. code[c].tok \in Token /\ token[code[c].tok] \in Jwt
      BY <1>9 DEF ExchangeToken, Referenced
    <2> DEFINE told == TellsMfaRequired(code[c].tok)
    <2>2. held' = held \cup {[tok |-> code[c].tok, mfaRequired |-> told]}
      BY <1>9 DEF ExchangeToken
    <2>a. told \in BOOLEAN
      BY DEF TellsMfaRequired
    <2> HIDE DEF told
    <2>3. held' \subseteq [tok : Token, mfaRequired : BOOLEAN]
      BY <2>1, <2>2, <2>a
    <2>4. code' \in [Code -> CodeEntry]
      BY <1>9 DEF ExchangeToken, CodeEntry
    <2>5. QED
      BY <1>9, <2>3, <2>4 DEF ExchangeToken
  <1>10. ASSUME NEW c \in Code, ExchangeReplyLost(c)
         PROVE  TypeOK'
    BY <1>10 DEF ExchangeReplyLost, CodeEntry
  <1>11. ASSUME NEW u \in User, DirectLogin(u)
         PROVE  TypeOK'
    <2>1. Mint(u, FALSE, TRUE, FALSE) \in Jwt
      BY MintType
    <2>2. PICK t \in Token :
            /\ token' = [token EXCEPT ![t] = Mint(u, FALSE, TRUE, FALSE)]
            /\ held' = held \cup {[tok |-> t, mfaRequired |-> FALSE]}
      BY <1>11 DEF DirectLogin
    <2>3. token' \in [Token -> Jwt]
      BY <2>1, <2>2
    <2>4. held' \subseteq [tok : Token, mfaRequired : BOOLEAN]
      BY <2>2, HeldType, Zenon
    <2>5. QED
      BY <1>11, <2>3, <2>4 DEF DirectLogin
  <1>12. ASSUME NEW u \in User, NEW b \in BOOLEAN, SetMfaEnabled(u, b)
         PROVE  TypeOK'
    BY <1>12 DEF SetMfaEnabled, Request
  <1>13. ASSUME Tick
         PROVE  TypeOK'
    <2>1. token' \in [Token -> Jwt]
      <3> SUFFICES ASSUME NEW t \in Token
                   PROVE  [token[t] EXCEPT !.ttl = Left(@)] \in Jwt
        BY <1>13 DEF Tick
      <3>1. token[t] \in Jwt /\ Left(token[t].ttl) \in 0..FullTTL
        BY LeftBounds DEF Jwt
      <3>2. QED
        BY <3>1 DEF Jwt
    <2>2. code' \in [Code -> CodeEntry]
      <3> SUFFICES ASSUME NEW c \in Code
                   PROVE  [code[c] EXCEPT !.ttl = Left(@)] \in CodeEntry
        BY <1>13 DEF Tick
      <3>1. code[c] \in CodeEntry /\ Left(code[c].ttl) \in 0..CodeTTL
        BY LeftBounds DEF CodeEntry
      <3>2. QED
        BY <3>1 DEF CodeEntry
    <2>3. blacklist' \in [Token -> 0..FullTTL]
      BY <1>13, LeftBounds DEF Tick
    <2>4. QED
      BY <1>13, <2>1, <2>2, <2>3 DEF Tick
  <1>14. CASE UNCHANGED vars
    BY <1>14 DEF vars
  <1>15. QED
    BY <1>1, <1>2, <1>3, <1>4, <1>5, <1>6, <1>7, <1>8, <1>9, <1>10, <1>11,
       <1>12, <1>13, <1>14, <1>16 DEF Next, ServerStep

-----------------------------------------------------------------------------
\* A minted token never changes, except that its lifetime runs down with the
\* clock: no step re-mints, re-assigns or prolongs it.
LEMMA TokenStep ==
    ASSUME TypeOK, Referenced, [Next]_vars, NEW t \in Token, Issued(t)
    PROVE  \/ ~Tick /\ token'[t] = token[t]
           \/ Tick /\ token'[t] = [token[t] EXCEPT !.ttl = Left(@)]
  <1> USE DEF TypeOK
  <1>1. token[t] # Unissued
    BY DEF Issued, Unissued
  <1>2. ASSUME NEW r \in Req, IssueLogin(r) \/ Upgrade(r)
        PROVE  token'[t] = token[t]
    BY <1>1, <1>2 DEF IssueLogin, Upgrade
  <1>3. ASSUME NEW u \in User, DirectLogin(u)
        PROVE  token'[t] = token[t]
    BY <1>1, <1>3 DEF DirectLogin
  <1>4. CASE Tick
    BY <1>4 DEF Tick
  <1>5. ASSUME UNCHANGED vars
        PROVE  token'[t] = token[t]
    BY <1>5 DEF vars
  <1>6. ASSUME ~Tick
        PROVE  token'[t] = token[t]
    BY <1>2, <1>3, <1>5, <1>6
       DEF Next, ServerStep, FindUser, Authenticate, IssueLoginFails, Admit, AdmitUnchecked, Refuse,
           Serve, FactorRefused, FactorAccepted, UpgradeFails, BeginLogout, EndLogout,
           EndLogoutFails, ExchangeToken, ExchangeReplyLost, SetMfaEnabled
  <1>7. QED
    BY <1>4, <1>6

\* The consequences of TokenStep that the invariants use.
LEMMA TokenKept ==
    ASSUME TypeOK, Referenced, [Next]_vars, NEW t \in Token, Issued(t)
    PROVE  /\ Issued(t)'
           /\ token'[t].user = token[t].user
           /\ token'[t].pending = token[t].pending
           /\ token'[t].ttl <= token[t].ttl
           /\ ~Tick => token'[t].ttl = token[t].ttl
           /\ Tick => token'[t].ttl = Left(token[t].ttl)
  <1>1. token[t] \in Jwt
    BY DEF TypeOK
  <1>2. CASE ~Tick /\ token'[t] = token[t]
    BY <1>1, <1>2, Lifetimes DEF Issued, Jwt
  <1>3. CASE Tick /\ token'[t] = [token[t] EXCEPT !.ttl = Left(@)]
    <2>1. Left(token[t].ttl) <= token[t].ttl
      BY <1>1, Lifetimes, LeftBounds DEF Jwt
    <2>2. QED
      BY <1>1, <1>3, <2>1 DEF Issued, Jwt
  <1>4. QED
    BY <1>2, <1>3, TokenStep

\* What one step can do to a request: nothing, end it, start it, or move it on.
LEMMA RequestStep ==
    ASSUME TypeOK, Referenced, [Next]_vars, NEW q \in Req
    PROVE  \/ req'[q] = req[q]
           \/ req'[q].pc = "idle"
           \/ \E u \in User : FindUser(q, u)
           \/ \E t \in Token, route \in Routes : Authenticate(q, t, route)
           \/ Admit(q) \/ AdmitUnchecked(q) \/ FactorAccepted(q) \/ BeginLogout(q)
           \/ \E u \in User, b \in BOOLEAN : SetMfaEnabled(u, b)
  <1> USE DEF TypeOK
  <1>1. ASSUME NEW r \in Req, ServerStep(r), r # q
        PROVE  req'[q] = req[q]
    BY <1>1 DEF ServerStep, IssueLogin, IssueLoginFails, Admit, AdmitUnchecked, Refuse, Serve,
                FactorRefused, FactorAccepted, Upgrade, UpgradeFails, BeginLogout,
                EndLogout, EndLogoutFails, Finish
  <1>2. ASSUME ServerStep(q)
        PROVE  \/ req'[q].pc = "idle"
               \/ Admit(q) \/ AdmitUnchecked(q)
               \/ FactorAccepted(q) \/ BeginLogout(q)
    <2>1. CASE Finish(q)
      BY <2>1 DEF Finish, Idle
    <2>2. QED
      BY <1>2, <2>1 DEF ServerStep, IssueLogin, IssueLoginFails, Refuse, Serve,
              FactorRefused, Upgrade, UpgradeFails, EndLogout, EndLogoutFails
  <1>3. ASSUME NEW r \in Req, r # q, NEW u \in User, FindUser(r, u)
        PROVE  req'[q] = req[q]
    BY <1>3 DEF FindUser
  <1>4. ASSUME NEW r \in Req, r # q, NEW t \in Token, NEW route \in Routes,
               Authenticate(r, t, route)
        PROVE  req'[q] = req[q]
    BY <1>4 DEF Authenticate
  <1>5. CASE \E r \in Req : ServerStep(r)
    BY <1>1, <1>2, <1>5
  <1>6. CASE \E r \in Req, u \in User : FindUser(r, u)
    BY <1>3, <1>6
  <1>7. CASE \E r \in Req, t \in Token, route \in Routes : Authenticate(r, t, route)
    BY <1>4, <1>7
  <1>8. CASE UNCHANGED req
    BY <1>8
  <1>9. \/ \E r \in Req : ServerStep(r)
        \/ \E r \in Req, u \in User : FindUser(r, u)
        \/ \E r \in Req, t \in Token, route \in Routes : Authenticate(r, t, route)
        \/ \E u \in User, b \in BOOLEAN : SetMfaEnabled(u, b)
        \/ UNCHANGED req
    BY DEF Next, vars, ExchangeToken, ExchangeReplyLost, DirectLogin, Tick
  <1>10. QED
    BY <1>5, <1>6, <1>7, <1>8, <1>9

\* Every step keeps the references sound.
LEMMA ReferencedStep == TypeOK /\ Referenced /\ [Next]_vars => Referenced'
  <1> SUFFICES ASSUME TypeOK, Referenced, [Next]_vars
               PROVE  Referenced'
    OBVIOUS
  <1> USE LoginAssumption
  <1> DEFINE Minted(t) == token'[t].user # NoUser
  <1>k. \A t \in Token : Issued(t) => Minted(t)
    BY TokenKept DEF Issued
  <1>1. \A t \in Token : Minted(t) \/ token'[t] = Unissued
    <2> SUFFICES ASSUME NEW t \in Token, token[t] = Unissued
                 PROVE  Minted(t) \/ token'[t] = Unissued
      BY <1>k DEF Referenced
    <2>1. ASSUME NEW r \in Req, IssueLogin(r)
          PROVE  Minted(t) \/ token'[t] = Unissued
      BY <2>1 DEF IssueLogin, MfaAwareToken, Mint, Referenced, Issued, TypeOK
    <2>2. ASSUME NEW r \in Req, Upgrade(r)
          PROVE  Minted(t) \/ token'[t] = Unissued
      BY <2>2 DEF Upgrade, Mint, Referenced, Issued, TypeOK
    <2>3. ASSUME NEW u \in User, DirectLogin(u)
          PROVE  Minted(t) \/ token'[t] = Unissued
      BY <2>3 DEF DirectLogin, Mint, Issued, TypeOK
    <2>4. CASE Tick
      <3> DEFINE run(x) == [x EXCEPT !.ttl = Left(@)]
      <3>0. token'[t] = run(token[t])
        BY <2>4 DEF Tick
      <3>a. Unissued.ttl = 0
        BY DEF Unissued
      <3>1. token'[t] = [Unissued EXCEPT !.ttl = Left(0)]
        BY <3>0, <3>a
      <3>2. Left(0) = 0
        BY DEF Left
      <3>3. QED
        BY <3>1, <3>2 DEF Unissued
    <2>5. CASE UNCHANGED token
      BY <2>5
    <2>6. QED
      BY <2>1, <2>2, <2>3, <2>4, <2>5
         DEF Next, vars, ServerStep, FindUser, Authenticate, IssueLoginFails, Admit, AdmitUnchecked,
             Refuse, Serve, FactorRefused, FactorAccepted, UpgradeFails, BeginLogout,
             EndLogout, EndLogoutFails, ExchangeToken, ExchangeReplyLost, SetMfaEnabled
  <1>2. \A h \in held' : h \in held \/ Minted(h.tok)
    <2>1. ASSUME NEW c \in Code, ExchangeToken(c)
          PROVE  \A h \in held' : h \in held \/ Minted(h.tok)
      BY <2>1, <1>k DEF ExchangeToken, Referenced
    <2>2. ASSUME NEW r \in Req, Upgrade(r)
          PROVE  \A h \in held' : h \in held \/ Minted(h.tok)
      <3>1. token[req[r].tok].user # NoUser
        BY <2>2 DEF Upgrade, Referenced, Issued
      <3>2. QED
        BY <2>2, <3>1 DEF Upgrade, Mint, Issued, TypeOK
    <2>3. ASSUME NEW u \in User, DirectLogin(u)
          PROVE  \A h \in held' : h \in held \/ Minted(h.tok)
      BY <2>3 DEF DirectLogin, Mint, Issued, TypeOK
    <2>4. CASE UNCHANGED held
      BY <2>4
    <2>5. QED
      BY <2>1, <2>2, <2>3, <2>4
         DEF Next, vars, ServerStep, FindUser, Authenticate, IssueLogin, IssueLoginFails,
             Admit, AdmitUnchecked, Refuse, Serve, FactorRefused, FactorAccepted, UpgradeFails, BeginLogout,
             EndLogout, EndLogoutFails, ExchangeReplyLost, SetMfaEnabled, Tick
  <1>3. \A h \in held' : Minted(h.tok)
    <2> SUFFICES ASSUME NEW h \in held
                 PROVE  Minted(h.tok)
      BY <1>2
    <2>1. h.tok \in Token /\ Issued(h.tok)
      BY DEF Referenced, TypeOK
    <2>2. QED
      BY <2>1, <1>k
  <1>4. \A r \in Req :
            /\ req'[r].pc = "issue" => req'[r].user \in User
            /\ req'[r].pc \in {"blacklist", "handler", "upgrade", "revoke"}
               => req'[r].tok \in Token /\ Minted(req'[r].tok)
    <2> SUFFICES ASSUME NEW q \in Req
                 PROVE  /\ req'[q].pc = "issue" => req'[q].user \in User
                        /\ req'[q].pc \in {"blacklist", "handler", "upgrade", "revoke"}
                           => req'[q].tok \in Token /\ Minted(req'[q].tok)
      OBVIOUS
    <2> USE DEF TypeOK
    <2>1. CASE req'[q] = req[q] \/ req'[q].pc = "idle"
      BY <2>1, <1>k DEF Referenced
    <2>2. ASSUME NEW u \in User, FindUser(q, u)
          PROVE  req'[q].pc = "issue" /\ req'[q].user = u
      BY <2>2 DEF FindUser, Idle
    <2>3. ASSUME NEW t \in Token, NEW route \in Routes, Authenticate(q, t, route)
          PROVE  req'[q].pc = "blacklist" /\ req'[q].tok = t /\ Issued(t)
      BY <2>3 DEF Authenticate, Idle, Valid, Issued
    <2>4. ASSUME \/ Admit(q) \/ AdmitUnchecked(q)
                 \/ FactorAccepted(q) \/ BeginLogout(q)
          PROVE  /\ req[q].pc \in {"blacklist", "handler"}
                 /\ req'[q].pc # "issue"
                 /\ req'[q].tok = req[q].tok
      BY <2>4 DEF Admit, AdmitUnchecked, FactorAccepted, BeginLogout, Request
    <2>5. CASE \/ Admit(q) \/ AdmitUnchecked(q)
               \/ FactorAccepted(q) \/ BeginLogout(q)
      BY <2>4, <2>5, <1>k DEF Referenced
    <2>6. ASSUME NEW u \in User, NEW b \in BOOLEAN, SetMfaEnabled(u, b)
          PROVE  /\ req'[q].pc = req[q].pc
                 /\ req'[q].user = req[q].user
                 /\ req'[q].tok = req[q].tok
      BY <2>6 DEF SetMfaEnabled, Request
    <2>7. CASE \E u \in User, b \in BOOLEAN : SetMfaEnabled(u, b)
      BY <2>6, <2>7, <1>k DEF Referenced
    <2>9. QED
      BY <2>1, <2>2, <2>3, <2>5, <2>7, <1>k, RequestStep
  <1>5. \A c \in Code : code'[c].status = "stored"
                        => code'[c].tok \in Token /\ Minted(code'[c].tok)
    <2> USE DEF TypeOK
    <2> SUFFICES ASSUME NEW c \in Code, code'[c].status = "stored"
                 PROVE  code'[c].tok \in Token /\ Minted(code'[c].tok)
      OBVIOUS
    <2>1. ASSUME NEW r \in Req, IssueLogin(r)
          PROVE  \/ code'[c] = code[c]
                 \/ code'[c].tok \in Token /\ Minted(code'[c].tok)
      <3>1. req[r].user # NoUser
        BY <2>1 DEF IssueLogin, Referenced
      <3>2. PICK t \in Token, d \in Code :
               /\ token' = [token EXCEPT ![t] = MfaAwareToken(r)]
               /\ code' = [code EXCEPT ![d] = [status |-> "stored", tok |-> t,
                                              ttl |-> CodeTTL]]
        BY <2>1 DEF IssueLogin
      <3>3. token'[t].user = req[r].user
        BY <3>2 DEF MfaAwareToken, Mint
      <3>4. QED
        BY <3>1, <3>2, <3>3 DEF Issued
    <2>2. ASSUME NEW d \in Code, ExchangeToken(d) \/ ExchangeReplyLost(d)
          PROVE  code'[c] = code[c]
      BY <2>2 DEF ExchangeToken, ExchangeReplyLost, CodeEntry
    <2>3. CASE Tick
      <3>1. code'[c] = [code[c] EXCEPT !.ttl = Left(@)] /\ code[c] \in CodeEntry
        BY <2>3 DEF Tick
      <3>2. code[c].status = "stored" /\ code'[c].tok = code[c].tok
        BY <3>1 DEF CodeEntry
      <3>3. QED
        BY <3>2, <1>k DEF Referenced
    <2>4. CASE code'[c] = code[c]
      BY <2>4, <1>k DEF Referenced
    <2>5. QED
      BY <2>1, <2>2, <2>3, <2>4
         DEF Next, vars, ServerStep, FindUser, Authenticate, IssueLoginFails, Admit, AdmitUnchecked,
             Refuse, Serve, FactorRefused, FactorAccepted, Upgrade, UpgradeFails,
             BeginLogout, EndLogout, EndLogoutFails, DirectLogin, SetMfaEnabled
  <1>6. \A t \in revoked' : Minted(t)
    <2>1. ASSUME NEW r \in Req, EndLogout(r)
          PROVE  req[r].tok \in Token /\ Issued(req[r].tok)
                 /\ revoked' = revoked \cup {req[r].tok}
      BY <2>1 DEF EndLogout, Referenced
    <2>2. \/ UNCHANGED revoked
          \/ \E r \in Req : EndLogout(r)
      BY DEF Next, vars, ServerStep, FindUser, Authenticate, IssueLogin, IssueLoginFails,
             Admit, AdmitUnchecked, Refuse, Serve, FactorRefused, FactorAccepted, Upgrade, UpgradeFails,
             BeginLogout, EndLogoutFails, ExchangeToken, ExchangeReplyLost, DirectLogin,
             SetMfaEnabled, Tick
    <2>3. QED
      BY <2>1, <2>2, <1>k DEF Referenced, TypeOK
  <1>7. QED
    BY <1>1, <1>3, <1>4, <1>5, <1>6 DEF Referenced, Issued

\* The type invariant, with the soundness of references that it needs.
THEOREM LoginTypeCorrect == Spec => [](TypeOK /\ Referenced)
  <1>1. Init => TypeOK /\ Referenced
    BY IdleType, Lifetimes
       DEF Init, TypeOK, Referenced, Issued, Unissued, Jwt, CodeEntry, Idle
  <1>2. QED
    BY <1>1, TypeStep, ReferencedStep, PTL DEF Spec

-----------------------------------------------------------------------------
\* Every step keeps the blacklist ahead of the tokens it must shut out, a
\* second logout of a token and one that fails included.
LEMMA BlacklistStep ==
    ASSUME TypeOK, Referenced, BlacklistCovers, [Next]_vars
    PROVE  BlacklistCovers'
  <1> USE Lifetimes
  <1>1. ASSUME NEW t \in revoked'
        PROVE  token'[t].ttl <= blacklist'[t]
    <2>1. CASE Tick
      <3>1. t \in revoked /\ t \in Token /\ Issued(t)
        BY <2>1 DEF Tick, Referenced, TypeOK
      <3>2. token'[t].ttl = Left(token[t].ttl) /\ blacklist'[t] = Left(blacklist[t])
        BY <2>1, <3>1, TokenKept DEF Tick
      <3>3. token[t].ttl \in 0..FullTTL /\ blacklist[t] \in 0..FullTTL
        BY <3>1 DEF TypeOK, Jwt
      <3>4. QED
        BY <3>1, <3>2, <3>3 DEF BlacklistCovers, Left
    <2>2. ASSUME ~Tick, NEW r \in Req, EndLogout(r) \/ EndLogoutFails(r),
                 BlacklistToken(r)
          PROVE  token'[t].ttl <= blacklist'[t]
      <3>1. req[r].tok \in Token /\ Issued(req[r].tok) /\ req[r].ttl \in 0..FullTTL
        BY <2>2 DEF EndLogout, EndLogoutFails, Referenced, TypeOK, Request
      <3>a. t \in revoked \/ t = req[r].tok
        BY <2>2 DEF EndLogout, EndLogoutFails
      <3>2. t \in Token /\ Issued(t)
        BY <3>1, <3>a DEF Referenced, TypeOK
      <3>3. token'[t].ttl = token[t].ttl
        BY <2>2, <3>2, TokenKept
      <3>4. token[t].ttl \in 0..FullTTL /\ blacklist[t] \in 0..FullTTL
        BY <3>2 DEF TypeOK, Jwt
      <3>5. token[req[r].tok].ttl <= req[r].ttl
        BY <2>2 DEF EndLogout, EndLogoutFails, BlacklistCovers
      <3>6. CASE t = req[r].tok /\ req[r].ttl # 0
        BY <2>2, <3>1, <3>3, <3>5, <3>6 DEF BlacklistToken, TypeOK
      <3>7. CASE t = req[r].tok /\ req[r].ttl = 0
        BY <2>2, <3>1, <3>3, <3>4, <3>5, <3>7 DEF BlacklistToken, TypeOK
      <3>8. CASE t # req[r].tok
        BY <2>2, <3>1, <3>2, <3>3, <3>8, <3>a
           DEF BlacklistToken, BlacklistCovers, TypeOK
      <3>9. QED
        BY <3>6, <3>7, <3>8
    <2>3. CASE ~Tick /\ UNCHANGED <<blacklist, revoked>>
      <3>1. t \in Token /\ Issued(t) /\ t \in revoked
        BY <2>3 DEF Referenced, TypeOK
      <3>2. QED
        BY <2>3, <3>1, TokenKept DEF BlacklistCovers
    <2>4. QED
      BY <2>1, <2>2, <2>3
         DEF Next, vars, ServerStep, FindUser, Authenticate, IssueLogin, IssueLoginFails,
             Admit, AdmitUnchecked, Refuse, Serve, FactorRefused, FactorAccepted, Upgrade, UpgradeFails,
             BeginLogout, EndLogout, EndLogoutFails, ExchangeToken, ExchangeReplyLost,
             DirectLogin, SetMfaEnabled
  <1>2. ASSUME NEW q \in Req, req'[q].pc = "revoke"
        PROVE  token'[req'[q].tok].ttl <= req'[q].ttl
    <2>1. CASE BeginLogout(q)
      <3>1. /\ req[q].tok \in Token
            /\ Issued(req[q].tok)
            /\ token[req[q].tok].ttl \in 0..FullTTL
        BY <2>1 DEF BeginLogout, Referenced, TypeOK, Jwt
      <3>2. req'[q].tok = req[q].tok /\ req'[q].ttl = token[req[q].tok].ttl
        BY <2>1 DEF BeginLogout, TypeOK, Request
      <3>3. token'[req[q].tok] = token[req[q].tok]
        BY <2>1 DEF BeginLogout
      <3>4. QED
        BY <3>1, <3>2, <3>3
    <2>2. CASE /\ req[q].pc = "revoke"
               /\ req'[q].tok = req[q].tok
               /\ req'[q].ttl = req[q].ttl
      <3>1. req[q].tok \in Token /\ Issued(req[q].tok)
        BY <2>2 DEF Referenced
      <3>2. /\ token'[req[q].tok].ttl <= token[req[q].tok].ttl
            /\ token[req[q].tok].ttl <= req[q].ttl
        BY <2>2, <3>1, TokenKept DEF BlacklistCovers
      <3>3. /\ token[req[q].tok].ttl \in 0..FullTTL
            /\ token'[req[q].tok].ttl \in 0..FullTTL
            /\ req[q].ttl \in 0..FullTTL
        BY <3>1, TypeStep DEF TypeOK, Jwt, Request
      <3>4. QED
        BY <2>2, <3>2, <3>3
    <2>3. ASSUME NEW u \in User, NEW b \in BOOLEAN, SetMfaEnabled(u, b)
          PROVE  /\ req'[q].pc = req[q].pc
                 /\ req'[q].tok = req[q].tok
                 /\ req'[q].ttl = req[q].ttl
      BY <2>3 DEF SetMfaEnabled, TypeOK, Request
    <2>4. ASSUME NEW u \in User, FindUser(q, u)
          PROVE  FALSE
      BY <1>2, <2>4 DEF FindUser, TypeOK, Idle
    <2>5. ASSUME NEW t \in Token, NEW route \in Routes, Authenticate(q, t, route)
          PROVE  FALSE
      BY <1>2, <2>5 DEF Authenticate, TypeOK, Idle
    <2>6. ASSUME Admit(q) \/ AdmitUnchecked(q) \/ FactorAccepted(q)
          PROVE  FALSE
      BY <1>2, <2>6 DEF Admit, AdmitUnchecked, FactorAccepted, TypeOK, Request
    <2>7. QED
      BY <1>2, <2>1, <2>2, <2>3, <2>4, <2>5, <2>6, RequestStep
  <1>3. QED
    BY <1>1, <1>2 DEF BlacklistCovers

\* Logout works: a token whose blacklisting Redis once acknowledged stays on
\* the blacklist until it would expire anyway, however the logout interleaves
\* with the clock, with other logouts, failing ones too, and other requests.
THEOREM LogoutHolds == Spec => []RevokedStaysOut
  <1>1. Init => BlacklistCovers
    BY DEF Init, BlacklistCovers, Idle
  <1>2. TypeOK /\ Referenced /\ BlacklistCovers /\ [Next]_vars => BlacklistCovers'
    BY BlacklistStep
  <1>3. TypeOK /\ BlacklistCovers => RevokedStaysOut
    <2> SUFFICES ASSUME TypeOK, BlacklistCovers, NEW t \in revoked, token[t].ttl > 0
                 PROVE  blacklist[t] > 0
      BY DEF RevokedStaysOut
    <2>1. token[t].ttl <= blacklist[t]
      BY DEF BlacklistCovers
    <2>2. token[t].ttl \in 0..FullTTL /\ blacklist[t] \in 0..FullTTL
      BY DEF TypeOK, Jwt
    <2>3. QED
      BY <2>1, <2>2, Lifetimes
  <1>4. QED
    BY <1>1, <1>2, <1>3, LoginTypeCorrect, PTL DEF Spec

-----------------------------------------------------------------------------
\* A request's token and lateness are those it arrived with, and what makes a
\* login honour MFA only ever gets truer.
LEMMA RequestKeeps ==
    ASSUME TypeOK, Referenced, [Next]_vars, NEW q \in Req,
           req'[q].pc # "idle",
           ~\E u \in User : FindUser(q, u),
           ~\E t \in Token, route \in Routes : Authenticate(q, t, route)
    PROVE  /\ req'[q].tok = req[q].tok
           /\ req'[q].late => req[q].late
           /\ req'[q].mfa = req[q].mfa
           /\ req[q].sawOff => req'[q].sawOff
           /\ req[q].pc # "idle"
           /\ \/ req'[q].pc = req[q].pc
              \/ req'[q].pc # "issue" /\ req[q].pc = "handler"
              \/ req'[q].pc # "issue" /\ Admit(q)
              \/ req'[q].pc # "issue" /\ AdmitUnchecked(q) /\ ~req'[q].late
  <1> USE DEF TypeOK, Request
  <1>1. CASE req'[q] = req[q]
    BY <1>1
  <1>2. CASE Admit(q)
    BY <1>2 DEF Admit
  <1>7. CASE AdmitUnchecked(q)
    BY <1>7 DEF AdmitUnchecked
  <1>3. CASE FactorAccepted(q)
    BY <1>3 DEF FactorAccepted
  <1>4. CASE BeginLogout(q)
    BY <1>4 DEF BeginLogout
  <1>5. ASSUME NEW u \in User, NEW b \in BOOLEAN, SetMfaEnabled(u, b)
        PROVE  /\ req'[q].pc = req[q].pc
               /\ req'[q].tok = req[q].tok
               /\ req'[q].late = req[q].late
               /\ req'[q].mfa = req[q].mfa
               /\ req[q].sawOff => req'[q].sawOff
    BY <1>5 DEF SetMfaEnabled
  <1>6. QED
    BY <1>1, <1>2, <1>3, <1>4, <1>5, <1>7, RequestStep

\* A login that is going to mint a full token has seen MFA off.
LEMMA SawOffStep ==
    ASSUME TypeOK, Referenced, FullLoginSawOff, [Next]_vars
    PROVE  FullLoginSawOff'
  <1> SUFFICES ASSUME NEW q \in Req, req'[q].pc = "issue", ~req'[q].mfa
               PROVE  req'[q].sawOff
    BY DEF FullLoginSawOff
  <1>1. ASSUME NEW u \in User, FindUser(q, u)
        PROVE  req'[q].sawOff
    BY <1>1 DEF FindUser, TypeOK, Idle
  <1>2. ASSUME NEW t \in Token, NEW route \in Routes, Authenticate(q, t, route)
        PROVE  FALSE
    BY <1>2 DEF Authenticate, TypeOK, Idle
  <1>3. CASE /\ ~\E u \in User : FindUser(q, u)
             /\ ~\E t \in Token, route \in Routes : Authenticate(q, t, route)
    BY <1>3, RequestKeeps DEF FullLoginSawOff, Admit, AdmitUnchecked
  <1>4. QED
    BY <1>1, <1>2, <1>3

\* Where a token that was not there before comes from: a login that went
\* through generateMFAAwareToken, or a step that mints a full token directly.
LEMMA NewToken ==
    ASSUME TypeOK, Referenced, [Next]_vars, NEW t \in Token, ~Issued(t)
    PROVE  \/ token'[t] = Unissued
           \/ token'[t].direct = TRUE /\ token'[t].pending = FALSE
           \/ \E r \in Req : req[r].pc = "issue" /\ token'[t] = MfaAwareToken(r)
  <1> USE DEF TypeOK
  <1>1. token[t] = Unissued
    BY DEF Referenced
  <1>2. ASSUME NEW r \in Req, IssueLogin(r)
        PROVE  token'[t] \in {Unissued, MfaAwareToken(r)} /\ req[r].pc = "issue"
    BY <1>1, <1>2 DEF IssueLogin
  <1>3. ASSUME NEW r \in Req, Upgrade(r)
        PROVE  \/ token'[t] = Unissued
               \/ token'[t].direct = TRUE /\ token'[t].pending = FALSE
    <2>1. PICK x : token'[t] = Unissued \/ token'[t] = Mint(x, FALSE, TRUE, FALSE)
      BY <1>1, <1>3 DEF Upgrade
    <2>2. QED
      BY <2>1, MintDirect
  <1>4. ASSUME NEW u \in User, DirectLogin(u)
        PROVE  \/ token'[t] = Unissued
               \/ token'[t].direct = TRUE /\ token'[t].pending = FALSE
    <2>1. token'[t] = Unissued \/ token'[t] = Mint(u, FALSE, TRUE, FALSE)
      BY <1>1, <1>4 DEF DirectLogin
    <2>2. QED
      BY <2>1, MintDirect
  <1>5. CASE Tick
    <2>1. token'[t] = [Unissued EXCEPT !.ttl = Left(@)]
      BY <1>1, <1>5 DEF Tick
    <2>2. QED
      BY <2>1 DEF Unissued, Left
  <1>6. CASE UNCHANGED token
    BY <1>1, <1>6
  <1>7. QED
    BY <1>2, <1>3, <1>4, <1>5, <1>6
       DEF Next, vars, ServerStep, FindUser, Authenticate, IssueLoginFails, Admit, AdmitUnchecked,
           Refuse, Serve, FactorRefused, FactorAccepted, UpgradeFails, BeginLogout,
           EndLogout, EndLogoutFails, ExchangeToken, ExchangeReplyLost, SetMfaEnabled

\* Every step keeps the promise about MFA.
LEMMA HonouredStep ==
    ASSUME TypeOK, Referenced, FullLoginSawOff, MfaHonoured, [Next]_vars
    PROVE  MfaHonoured'
  <1> SUFFICES ASSUME NEW t \in Token, token'[t] # Unissued,
                      ~token'[t].pending, ~token'[t].direct
               PROVE  token'[t].sawOff
    BY DEF MfaHonoured
  <1>1. CASE Issued(t)
    <2>1. token[t] # Unissued /\ token[t] \in Jwt
      BY <1>1 DEF Issued, Unissued, TypeOK
    <2>2. /\ token'[t].pending = token[t].pending
          /\ token'[t].direct = token[t].direct
          /\ token'[t].sawOff = token[t].sawOff
      BY <1>1, <2>1, TokenStep DEF Jwt
    <2>3. QED
      BY <2>1, <2>2 DEF MfaHonoured
  <1>2. CASE ~Issued(t)
    <2>1. PICK r \in Req : req[r].pc = "issue" /\ token'[t] = MfaAwareToken(r)
      BY <1>2, NewToken
    <2>2. ~req[r].mfa /\ token'[t].sawOff = req[r].sawOff
      BY <2>1 DEF MfaAwareToken, Mint
    <2>3. QED
      BY <2>1, <2>2 DEF FullLoginSawOff
  <1>3. QED
    BY <1>1, <1>2

\* MFA is honoured: whatever is switched, lost or left to expire while a login
\* is under way, a full token comes from a login during which MFA was off.
THEOREM MfaIsHonoured == Spec => []MfaHonoured
  <1>1. Init => MfaHonoured /\ FullLoginSawOff
    BY DEF Init, MfaHonoured, FullLoginSawOff, Idle
  <1>2. QED
    BY <1>1, HonouredStep, SawOffStep, LoginTypeCorrect, PTL DEF Spec

-----------------------------------------------------------------------------
\* Requests that arrived after the logout of their token carry a token that
\* was logged out.
LEMMA LateStep ==
    ASSUME TypeOK, Referenced, LateAreKnown, [Next]_vars
    PROVE  LateAreKnown'
  <1> SUFFICES ASSUME NEW q \in Req, req'[q].late, req'[q].pc # "idle"
               PROVE  req'[q].tok \in revoked'
    BY DEF LateAreKnown
  <1>0. revoked \subseteq revoked'
    BY DEF Next, vars, ServerStep, FindUser, Authenticate, IssueLogin, IssueLoginFails,
           Admit, AdmitUnchecked, Refuse, Serve, FactorRefused, FactorAccepted, Upgrade, UpgradeFails,
           BeginLogout, EndLogout, EndLogoutFails, ExchangeToken, ExchangeReplyLost,
           DirectLogin, SetMfaEnabled, Tick
  <1>1. ASSUME NEW u \in User, FindUser(q, u)
        PROVE  FALSE
    BY <1>1 DEF FindUser, TypeOK, Idle
  <1>2. ASSUME NEW t \in Token, NEW route \in Routes, Authenticate(q, t, route)
        PROVE  req'[q].tok \in revoked
    BY <1>2 DEF Authenticate, TypeOK, Idle
  <1>3. CASE /\ ~\E u \in User : FindUser(q, u)
             /\ ~\E t \in Token, route \in Routes : Authenticate(q, t, route)
    BY <1>0, <1>3, RequestKeeps DEF LateAreKnown
  <1>4. QED
    BY <1>0, <1>1, <1>2, <1>3

\* A late request that Redis answers for passes the blacklist only with a token
\* that has run out.
LEMMA NoLateStep ==
    ASSUME TypeOK, Referenced, BlacklistCovers, LateAreKnown,
           NoLateAdmission, [Next]_vars
    PROVE  NoLateAdmission'
  <1> SUFFICES ASSUME NEW q \in Req, req'[q].late,
                      req'[q].pc \notin {"idle", "blacklist"}
               PROVE  token'[req'[q].tok].ttl = 0
    BY DEF NoLateAdmission
  <1>1. ASSUME NEW u \in User, FindUser(q, u)
        PROVE  FALSE
    BY <1>1 DEF FindUser, TypeOK, Idle
  <1>2. ASSUME NEW t \in Token, NEW route \in Routes, Authenticate(q, t, route)
        PROVE  FALSE
    BY <1>2 DEF Authenticate, TypeOK, Idle
  <1>3. /\ req'[q].tok = req[q].tok
        /\ req[q].late
        /\ req[q].pc # "idle"
        /\ req[q].pc = "blacklist" => Admit(q)
    BY <1>1, <1>2, RequestKeeps
  <1> DEFINE t == req[q].tok
  <1>4. t \in revoked /\ t \in Token /\ Issued(t)
    BY <1>3 DEF LateAreKnown, Referenced, TypeOK
  <1>5. /\ token[t].ttl \in 0..FullTTL
        /\ token'[t].ttl \in 0..FullTTL
        /\ token'[t].ttl <= token[t].ttl
    BY <1>4, TokenKept, TypeStep DEF TypeOK, Jwt
  <1>6. CASE Admit(q)
    <2>1. blacklist[t] = 0
      BY <1>6 DEF Admit, Admissible
    <2>2. token[t].ttl <= 0
      BY <1>4, <2>1 DEF BlacklistCovers
    <2>3. QED
      BY <1>3, <1>5, <2>2, Lifetimes
  <1>7. CASE ~Admit(q)
    <2>1. token[t].ttl = 0
      BY <1>3, <1>7 DEF NoLateAdmission
    <2>2. QED
      BY <1>3, <1>5, <2>1, Lifetimes
  <1>8. QED
    BY <1>6, <1>7

\* A request that comes after the logout of its token reached Redis, and whose
\* own lookup Redis answers, reaches no handler while that token lives.
THEOREM LateRequestsStayOut == Spec => []NoLateAdmission
  <1>1. Init => BlacklistCovers /\ LateAreKnown /\ NoLateAdmission
    BY DEF Init, BlacklistCovers, LateAreKnown, NoLateAdmission, Idle
  <1>2. TypeOK /\ Referenced /\ BlacklistCovers /\ [Next]_vars => BlacklistCovers'
    BY BlacklistStep
  <1>3. TypeOK /\ Referenced /\ BlacklistCovers /\ LateAreKnown /\ NoLateAdmission
        /\ [Next]_vars => NoLateAdmission'
    BY NoLateStep
  <1>4. QED
    BY <1>1, <1>2, <1>3, LateStep, LoginTypeCorrect, PTL DEF Spec

-----------------------------------------------------------------------------
\* An exchange code never outlives the token it hides.  This is where the
\* order of the lifetimes is needed: CodeTTL <= TempTTL <= FullTTL.
LEMMA CodesStep ==
    ASSUME TypeOK, Referenced, CodesWithinTokens, [Next]_vars
    PROVE  CodesWithinTokens'
  <1> USE Lifetimes DEF TypeOK
  <1> SUFFICES ASSUME NEW c \in Code, code'[c].status = "stored"
               PROVE  code'[c].ttl <= token'[code'[c].tok].ttl
    BY DEF CodesWithinTokens
  <1>1. CASE ~Tick /\ code'[c] = code[c]
    <2>1. code[c].tok \in Token /\ Issued(code[c].tok)
      BY <1>1 DEF Referenced
    <2>2. token'[code[c].tok].ttl = token[code[c].tok].ttl
      BY <1>1, <2>1, TokenKept
    <2>3. QED
      BY <1>1, <2>2 DEF CodesWithinTokens
  <1>2. CASE Tick
    <2>1. code'[c] = [code[c] EXCEPT !.ttl = Left(@)] /\ code[c] \in CodeEntry
      BY <1>2 DEF Tick
    <2>2. /\ code[c].status = "stored"
          /\ code'[c].tok = code[c].tok
          /\ code'[c].ttl = Left(code[c].ttl)
          /\ code[c].ttl \in Nat
      BY <2>1 DEF CodeEntry
    <2>3. code[c].tok \in Token /\ Issued(code[c].tok)
      BY <2>2 DEF Referenced
    <2>4. token'[code[c].tok].ttl = Left(token[code[c].tok].ttl)
      BY <1>2, <2>3, TokenKept
    <2>5. token[code[c].tok].ttl \in Nat
      BY <2>3 DEF Jwt
    <2>6. code[c].ttl <= token[code[c].tok].ttl
      BY <2>2 DEF CodesWithinTokens
    <2>7. QED
      BY <2>2, <2>4, <2>5, <2>6 DEF Left
  <1>3. ASSUME NEW r \in Req, IssueLogin(r), code'[c] # code[c]
        PROVE  code'[c].ttl <= token'[code'[c].tok].ttl
    <2>1. PICK t \in Token :
            /\ token' = [token EXCEPT ![t] = MfaAwareToken(r)]
            /\ code'[c] = [status |-> "stored", tok |-> t, ttl |-> CodeTTL]
      BY <1>3 DEF IssueLogin
    <2>2. token'[t].ttl \in {TempTTL, FullTTL}
      BY <2>1 DEF MfaAwareToken, Mint
    <2>3. QED
      BY <2>1, <2>2
  <1>4. ASSUME NEW d \in Code, ExchangeToken(d) \/ ExchangeReplyLost(d)
        PROVE  ~Tick /\ code'[c] = code[c]
    <2>1. code'[c] = code[c] /\ code' # code
      BY <1>4 DEF ExchangeToken, ExchangeReplyLost, CodeEntry
    <2>2. \A e \in Code : code'[e].status # code[e].status => ~Tick
      BY DEF Tick, CodeEntry
    <2>3. code'[d].status # code[d].status
      BY <1>4 DEF ExchangeToken, ExchangeReplyLost, CodeEntry
    <2>4. QED
      BY <2>1, <2>2, <2>3
  <1>5. \/ Tick
        \/ code' = code
        \/ \E r \in Req : IssueLogin(r)
        \/ \E d \in Code : ExchangeToken(d) \/ ExchangeReplyLost(d)
    BY DEF Next, vars, ServerStep, FindUser, Authenticate, IssueLoginFails, Admit, AdmitUnchecked, Refuse,
           Serve, FactorRefused, FactorAccepted, Upgrade, UpgradeFails, BeginLogout,
           EndLogout, EndLogoutFails, DirectLogin, SetMfaEnabled
  <1>6. QED
    BY <1>1, <1>2, <1>3, <1>4, <1>5

\* What a client has been told of a token stays true.
LEMMA ToldStep ==
    ASSUME TypeOK, Referenced, CodesWithinTokens, MfaRequiredTruthful, [Next]_vars
    PROVE  MfaRequiredTruthful'
  <1> USE DEF TypeOK
  <1> SUFFICES ASSUME NEW h \in held'
               PROVE  h.mfaRequired <=> token'[h.tok].pending
    BY DEF MfaRequiredTruthful
  <1>1. CASE h \in held
    <2>1. h.tok \in Token /\ Issued(h.tok)
      BY <1>1 DEF Referenced
    <2>2. QED
      BY <1>1, <2>1, TokenKept DEF MfaRequiredTruthful
  <1>2. ASSUME NEW c \in Code, ExchangeToken(c), h \notin held
        PROVE  h.mfaRequired <=> token'[h.tok].pending
    <2> DEFINE t == code[c].tok
    <2>1. t \in Token /\ Issued(t)
      BY <1>2 DEF ExchangeToken, Referenced
    <2>2. code[c].ttl \in Nat /\ code[c].ttl > 0 /\ token[t].ttl \in Nat
      BY <1>2, <2>1 DEF ExchangeToken, CodeEntry, Jwt
    <2>3. code[c].ttl <= token[t].ttl
      BY <1>2 DEF ExchangeToken, CodesWithinTokens
    <2>4. Valid(t)
      BY <2>1, <2>2, <2>3 DEF Valid, Issued
    <2>5. TellsMfaRequired(t) <=> token[t].pending
      BY <2>4 DEF TellsMfaRequired
    <2>6. h = [tok |-> t, mfaRequired |-> TellsMfaRequired(t)] /\ token' = token
      BY <1>2 DEF ExchangeToken
    <2>7. QED
      BY <2>5, <2>6
  <1>3. ASSUME NEW x, NEW t \in Token,
               token' = [token EXCEPT ![t] = Mint(x, FALSE, TRUE, FALSE)],
               h = [tok |-> t, mfaRequired |-> FALSE]
        PROVE  h.mfaRequired <=> token'[h.tok].pending
    BY <1>3, MintDirect
  <1>4. ASSUME NEW r \in Req, Upgrade(r), h \notin held
        PROVE  h.mfaRequired <=> token'[h.tok].pending
    BY <1>3, <1>4 DEF Upgrade
  <1>5. ASSUME NEW u \in User, DirectLogin(u), h \notin held
        PROVE  h.mfaRequired <=> token'[h.tok].pending
    BY <1>3, <1>5 DEF DirectLogin
  <1>6. QED
    BY <1>1, <1>2, <1>4, <1>5
       DEF Next, vars, ServerStep, FindUser, Authenticate, IssueLogin, IssueLoginFails,
           Admit, AdmitUnchecked, Refuse, Serve, FactorRefused, FactorAccepted, UpgradeFails, BeginLogout,
           EndLogout, EndLogoutFails, ExchangeReplyLost, SetMfaEnabled, Tick

\* A client is never told that no second factor is needed for a token that
\* still asks for one, nor the reverse: a code that can still be exchanged
\* hides a token that can still be read.
THEOREM ClientsAreToldTheTruth == Spec => []MfaRequiredTruthful
  <1>1. Init => CodesWithinTokens /\ MfaRequiredTruthful
    BY DEF Init, CodesWithinTokens, MfaRequiredTruthful
  <1>2. QED
    BY <1>1, CodesStep, ToldStep, LoginTypeCorrect, PTL DEF Spec

-----------------------------------------------------------------------------
\* A step that issues one code, lapses some and answers nobody is a Turnover.
LEMMA CodesTurnOver ==
    ASSUME NEW I \in SUBSET Code, NEW L \in SUBSET Code,
           answers' = answers,
           \A c \in I : CodeStatus(c) = "unissued" /\ CodeStatus(c)' = "live",
           \A c \in L : CodeStatus(c) = "live" /\ CodeStatus(c)' = "spent",
           \A c \in Code \ (I \cup L) : CodeStatus(c)' = CodeStatus(c)
    PROVE  Tickets!Turnover(I, L)
  <1>1. \A c \in Code : CodeStatus(c)' = CASE c \in I -> "live"
                                           [] c \in L -> "spent"
                                           [] OTHER -> CodeStatus(c)
    OBVIOUS
  <1>2. QED
    BY <1>1 DEF Tickets!Turnover

\* Every step of the session is a step of the abstract ticket, or none.
LEMMA TicketStep ==
    ASSUME TypeOK, [Next]_vars
    PROVE  [Tickets!Next]_(Tickets!vars)
  <1> USE Lifetimes DEF TypeOK
  <1>1. ASSUME NEW c \in Code, ExchangeToken(c)
        PROVE  Tickets!Use(c)
    <2>1. CodeStatus(c) = "live" /\ CodeStatus(c)' = "spent"
      BY <1>1 DEF ExchangeToken, CodeStatus, CodeEntry
    <2>2. \A d \in Code : d # c => CodeStatus(d)' = CodeStatus(d)
      BY <1>1 DEF ExchangeToken, CodeStatus
    <2>3. answers' = [answers EXCEPT ![c] = @ + 1]
      BY <1>1 DEF ExchangeToken
    <2>4. QED
      BY <2>1, <2>2, <2>3 DEF Tickets!Use
  <1>2. ASSUME NEW c \in Code, ExchangeReplyLost(c)
        PROVE  Tickets!Turnover({}, {c})
    <2>1. CodeStatus(c) = "live" /\ CodeStatus(c)' = "spent"
      BY <1>2 DEF ExchangeReplyLost, CodeStatus, CodeEntry
    <2>2. \A d \in Code : d # c => CodeStatus(d)' = CodeStatus(d)
      BY <1>2 DEF ExchangeReplyLost, CodeStatus
    <2>3. answers' = answers
      BY <1>2 DEF ExchangeReplyLost
    <2>4. QED
      BY <2>1, <2>2, <2>3, CodesTurnOver
  <1>3. ASSUME NEW r \in Req, IssueLogin(r)
        PROVE  \E c \in Code : Tickets!Turnover({c}, {})
    <2>1. PICK t \in Token, c \in Code :
            /\ code[c].status = "fresh"
            /\ code' = [code EXCEPT ![c] = [status |-> "stored", tok |-> t,
                                            ttl |-> CodeTTL]]
      BY <1>3 DEF IssueLogin
    <2>2. CodeStatus(c) = "unissued" /\ CodeStatus(c)' = "live"
      BY <2>1 DEF CodeStatus
    <2>3. \A d \in Code : d # c => CodeStatus(d)' = CodeStatus(d)
      BY <2>1 DEF CodeStatus
    <2>4. answers' = answers
      BY <1>3 DEF IssueLogin
    <2>5. Tickets!Turnover({c}, {})
      BY <2>2, <2>3, <2>4, CodesTurnOver
    <2>6. QED
      BY <2>5
  <1>4. CASE Tick
    <2> DEFINE L == {c \in Code : CodeStatus(c) = "live" /\ code[c].ttl = 1}
    <2>1. ASSUME NEW c \in Code
          PROVE  /\ code'[c].status = code[c].status
                 /\ code'[c].ttl = Left(code[c].ttl)
                 /\ code[c].ttl \in Nat
      BY <1>4 DEF Tick, CodeEntry
    <2>2. \A c \in L : CodeStatus(c) = "live" /\ CodeStatus(c)' = "spent"
      BY <2>1 DEF CodeStatus, Left
    <2>3. \A c \in Code \ L : CodeStatus(c)' = CodeStatus(c)
      BY <2>1 DEF CodeStatus, Left
    <2>4. answers' = answers
      BY <1>4 DEF Tick
    <2> HIDE DEF L
    <2>5. L \in SUBSET Code
      BY DEF L
    <2>6. QED
      <3>1. Tickets!Turnover({}, L)
        BY <2>2, <2>3, <2>4, <2>5, CodesTurnOver
      <3>2. QED
        BY <2>5, <3>1 DEF Tickets!Next
  <1>5. CASE UNCHANGED <<code, answers>>
    <2>1. \A c \in Code : CodeStatus(c)' = CodeStatus(c)
      BY <1>5 DEF CodeStatus
    <2>2. QED
      BY <1>5, <2>1 DEF Tickets!vars
  <1>6. \/ Tick
        \/ UNCHANGED <<code, answers>>
        \/ \E r \in Req : IssueLogin(r)
        \/ \E c \in Code : ExchangeToken(c) \/ ExchangeReplyLost(c)
    BY DEF Next, vars, ServerStep, FindUser, Authenticate, IssueLoginFails, Admit, AdmitUnchecked, Refuse,
           Serve, FactorRefused, FactorAccepted, Upgrade, UpgradeFails, BeginLogout,
           EndLogout, EndLogoutFails, DirectLogin, SetMfaEnabled
  <1>7. \A c \in Code : {} \in SUBSET Code /\ {c} \in SUBSET Code
    OBVIOUS
  <1>8. QED
    BY <1>1, <1>2, <1>3, <1>4, <1>5, <1>6, <1>7 DEF Tickets!Next

\* Exchange codes implement the abstract single-use ticket, lost replies and
\* failing writes included.
THEOREM ExchangeCodesAreTickets == Spec => ExchangeCodesSingleUse
  <1>1. Init => Tickets!Init
    BY DEF Init, Tickets!Init, CodeStatus
  <1>2. TypeOK /\ [Next]_vars => [Tickets!Next]_(Tickets!vars)
    BY TicketStep
  <1>3. QED
    BY <1>1, <1>2, LoginTypeCorrect, PTL DEF Spec, ExchangeCodesSingleUse, Tickets!Spec

\* A code that can still be exchanged has not been.
UnusedWhileLive ==
    \A c \in Code : IF CodeStatus(c) = "spent" THEN answers[c] \in {0, 1} ELSE answers[c] = 0

LEMMA UnusedNext ==
    ASSUME TypeOK, UnusedWhileLive, [Tickets!Next]_(Tickets!vars)
    PROVE  UnusedWhileLive'
  <1> USE DEF UnusedWhileLive
  <1>1. answers \in [Code -> Nat]
    BY DEF TypeOK
  <1>2. ASSUME NEW c \in Code, Tickets!Use(c)
        PROVE  UnusedWhileLive'
    <2>1. /\ CodeStatus(c) = "live" /\ answers' = [answers EXCEPT ![c] = @ + 1]
          /\ [d \in Code |-> CodeStatus(d)]' =
                [[d \in Code |-> CodeStatus(d)] EXCEPT ![c] = "spent"]
      BY <1>2 DEF Tickets!Use
    <2>2. \A d \in Code : CodeStatus(d)' = [d1 \in Code |-> CodeStatus(d1)]'[d]
      OBVIOUS
    <2>3. CodeStatus(c)' = "spent" /\ \A d \in Code : d # c => CodeStatus(d)' = CodeStatus(d)
      BY <2>1, <2>2
    <2>4. answers[c] = 0 /\ answers'[c] = 1 /\ \A d \in Code : d # c => answers'[d] = answers[d]
      BY <1>1, <2>1
    <2>5. QED
      BY <2>3, <2>4
  <1>3. ASSUME NEW Out \in SUBSET Code, NEW Gone \in SUBSET Code,
               Tickets!Turnover(Out, Gone)
        PROVE  UnusedWhileLive'
    <2>1. /\ \A d \in Out : CodeStatus(d) = "unissued"
          /\ \A d \in Gone : CodeStatus(d) = "live"
          /\ answers' = answers
      BY <1>3 DEF Tickets!Turnover
    <2>2. [d \in Code |-> CodeStatus(d)]' =
             [d \in Code |-> CASE d \in Out -> "live"
                                [] d \in Gone -> "spent"
                                [] OTHER -> CodeStatus(d)]
      BY <1>3 DEF Tickets!Turnover
    <2>3. ASSUME NEW d \in Code
          PROVE  CodeStatus(d)' = CASE d \in Out -> "live"
                                    [] d \in Gone -> "spent"
                                    [] OTHER -> CodeStatus(d)
      BY <2>2
    <2>4. QED
      BY <2>1, <2>3
  <1>4. CASE UNCHANGED Tickets!vars
    <2>1. answers' = answers /\ [d \in Code |-> CodeStatus(d)]' = [d \in Code |-> CodeStatus(d)]
      BY <1>4 DEF Tickets!vars
    <2>2. \A d \in Code : CodeStatus(d)' = CodeStatus(d)
      BY <2>1
    <2>3. QED
      BY <2>1, <2>2
  <1>5. QED
    BY <1>2, <1>3, <1>4 DEF Tickets!Next

\* No exchange code is worth two answers.
THEOREM ExchangeCodesAnswerOnce == Spec => []Tickets!UsedAtMostOnce
  <1>1. Init => UnusedWhileLive
    BY DEF Init, UnusedWhileLive
  <1>2. UnusedWhileLive => Tickets!UsedAtMostOnce
    BY DEF UnusedWhileLive, Tickets!UsedAtMostOnce
  <1>3. TypeOK /\ UnusedWhileLive /\ [Tickets!Next]_(Tickets!vars) => UnusedWhileLive'
    BY UnusedNext
  <1>4. QED
    BY <1>1, <1>2, <1>3, LoginTypeCorrect, ExchangeCodesAreTickets, PTL
       DEF Spec, ExchangeCodesSingleUse, Tickets!Spec

=============================================================================
