------------------------- MODULE OAuthProvider_proofs -------------------------
(***************************************************************************)
(* Theorems about OAuthProvider, for any numbers of users, clients, codes  *)
(* and requests, and any lifetimes that satisfy ProviderAssumption.        *)
(***************************************************************************)
EXTENDS OAuthProvider, TLAPS

-----------------------------------------------------------------------------
(* The inductive invariant.                                                *)

\* What a code says of the approval it stands for, once it is stored.
CodesAreApprovals ==
    \A k \in Code :
        /\ code[k].status # "fresh" =>
              code[k].user \in User /\ code[k].client \in Client /\ code[k].uri \in Uri
        /\ code[k].status # "stored" => code[k].ttl = 0
        /\ code[k].sent => code[k].status # "fresh"
        /\ code[k].listed => code[k].sent

\* What request r knows of itself and of the code it is about.
Knows(r) ==
    LET q == req[r]
        k == req[r].code
    IN
    /\ q.pc # "idle" => q.client \in Client /\ q.uri \in Uri
    /\ q.pc \in {"store", "grant", "mint"} => q.user \in User
    /\ q.pc \in {"grant", "consume", "mint"} => k \in Code /\ code[k].status # "fresh"
    /\ q.pc \in {"grant", "mint"} => q.user = code[k].user /\ q.client = code[k].client
    /\ q.pc = "mint" => /\ code[k].status = "taken"
                        /\ q.uri = code[k].uri
                        /\ VerifyPKCE(q.secret, code[k].challenge)

\* A code is redeemed by one request.
OneExchange ==
    \A r, q \in Req :
        req[r].pc = "mint" /\ req[q].pc = "mint" /\ req[r].code = req[q].code => r = q

\* A token was made for a code that is gone from Redis.
TokensHaveCodes == \A t \in minted : code[t.code].status = "taken"

\* The grant of an approval that was recorded and not revoked since is in the
\* list, however old its code is.
GrantsAreListed ==
    \A k \in Code :
        code[k].listed /\ ~code[k].withdrawn
        => grant[<<code[k].user, code[k].client>>] = "active"

Inv ==
    /\ TypeOK
    /\ CodesAreApprovals
    /\ \A r \in Req : Knows(r)
    /\ OneExchange
    /\ TokensHaveCodes
    /\ RedeemedAsBound
    /\ GrantsAreListed

-----------------------------------------------------------------------------
(* Types.                                                                  *)

\* The lifetimes, as the arithmetic wants them.
LEMMA Lifetimes == CodeTTL \in Nat /\ TokenTTL \in Nat /\ CodeTTL > 0 /\ TokenTTL > 0
  BY ProviderAssumption

LEMMA LeftBounds ==
    ASSUME NEW m \in Nat, NEW n \in 0..m
    PROVE  /\ Left(n) \in 0..m
           /\ n = 0 => Left(n) = 0
  BY DEF Left

LEMMA EmptyTypes == Fresh \in CodeEntry /\ Idle \in Request
  BY Lifetimes DEF Fresh, CodeEntry, Idle, Request

\* A new request has the type of one, and keeps it when it moves on.
LEMMA RequestType ==
    ASSUME NEW p \in {"store", "consume"}, NEW u \in User \cup {None},
           NEW c \in Client, NEW i \in Uri, NEW s \in Secret \cup {None},
           NEW k \in Code \cup {None}
    PROVE  [pc |-> p, user |-> u, client |-> c, uri |-> i, secret |-> s, code |-> k]
              \in Request
  BY DEF Request

LEMMA RequestMoves ==
    ASSUME NEW q \in Request
    PROVE  /\ \A k \in Code : [q EXCEPT !.pc = "grant", !.code = k] \in Request
           /\ \A u \in User : [q EXCEPT !.pc = "mint", !.user = u] \in Request
  <1>1. ASSUME NEW k \in Code
        PROVE  [q EXCEPT !.pc = "grant", !.code = k] \in Request
    BY DEF Request
  <1>2. ASSUME NEW u \in User
        PROVE  [q EXCEPT !.pc = "mint", !.user = u] \in Request
    BY DEF Request
  <1>3. QED
    BY <1>1, <1>2

\* What the steps make of a code.
LEMMA CodeMoves ==
    ASSUME NEW e \in CodeEntry
    PROVE  /\ [e EXCEPT !.sent = TRUE] \in CodeEntry
           /\ [e EXCEPT !.sent = TRUE, !.listed = TRUE] \in CodeEntry
           /\ [e EXCEPT !.withdrawn = TRUE] \in CodeEntry
           /\ [e EXCEPT !.status = "taken", !.ttl = 0] \in CodeEntry
           /\ [e EXCEPT !.ttl = Left(@)] \in CodeEntry
  <1>1. e.ttl \in 0..CodeTTL /\ 0 \in 0..CodeTTL
    BY Lifetimes DEF CodeEntry
  <1>2. Left(e.ttl) \in 0..CodeTTL
    BY <1>1, Lifetimes, LeftBounds
  <1>3. [e EXCEPT !.ttl = Left(e.ttl)] \in CodeEntry
    BY <1>2 DEF CodeEntry
  <1>4. [e EXCEPT !.status = "taken", !.ttl = 0] \in CodeEntry
    BY <1>1 DEF CodeEntry
  <1>5. /\ [e EXCEPT !.sent = TRUE] \in CodeEntry
        /\ [e EXCEPT !.sent = TRUE, !.listed = TRUE] \in CodeEntry
        /\ [e EXCEPT !.withdrawn = TRUE] \in CodeEntry
    BY DEF CodeEntry
  <1>6. QED
    BY <1>3, <1>4, <1>5

\* Every step keeps the types.
LEMMA TypeStep == Inv /\ [Next]_vars => TypeOK'
  <1> SUFFICES ASSUME Inv, [Next]_vars
               PROVE  TypeOK'
    OBVIOUS
  <1>t. TypeOK /\ CodesAreApprovals /\ \A r \in Req : Knows(r)
    BY DEF Inv
  <1> USE <1>t, EmptyTypes, Lifetimes DEF TypeOK
  <1>1. ASSUME NEW c \in Client, Admin(c)
        PROVE  TypeOK'
    <2>1. ASSUME NEW uris \in SUBSET Uri, CreateClient(c, uris)
          PROVE  TypeOK'
      BY <2>1 DEF CreateClient, Row
    <2>2. CASE DeleteClient(c)
      BY <2>2 DEF DeleteClient, Row
    <2>3. ASSUME NEW uris \in SUBSET Uri, NEW b \in BOOLEAN, UpdateClient(c, uris, b)
          PROVE  TypeOK'
      <3>1. [client[c] EXCEPT !.uris = uris, !.active = b] \in Row
        BY DEF Row
      <3>2. client' = [client EXCEPT ![c] = [client[c] EXCEPT !.uris = uris, !.active = b]]
        BY <2>3 DEF UpdateClient
      <3>3. QED
        BY <2>3, <3>1, <3>2 DEF UpdateClient
    <2>4. QED
      BY <1>1, <2>1, <2>2, <2>3 DEF Admin
  <1>2. ASSUME NEW r \in Req, Arrival(r)
        PROVE  TypeOK'
    <2>1. PICK c \in Client, i \in Uri, s \in Secret \cup {None} :
             \/ \E u \in User : Authorize(r, u, c, i, s)
             \/ \E k \in Code : ValidateClient(r, c, k, i, s)
      BY <1>2 DEF Arrival
    <2>2. ASSUME NEW u \in User, Authorize(r, u, c, i, s)
          PROVE  TypeOK'
      <3>1. [pc |-> "store", user |-> u, client |-> c, uri |-> i, secret |-> s,
             code |-> None] \in Request
        BY RequestType
      <3>2. QED
        BY <2>2, <3>1 DEF Authorize
    <2>3. ASSUME NEW k \in Code, ValidateClient(r, c, k, i, s)
          PROVE  TypeOK'
      <3>1. [pc |-> "consume", user |-> None, client |-> c, uri |-> i, secret |-> s,
             code |-> k] \in Request
        BY RequestType
      <3>2. QED
        BY <2>3, <3>1 DEF ValidateClient
    <2>4. QED
      BY <2>1, <2>2, <2>3
  <1>3. ASSUME NEW r \in Req, StoreAuthCode(r)
        PROVE  TypeOK'
    <2>1. PICK k \in Code :
            /\ code' = [code EXCEPT ![k] =
                  [status |-> "stored", ttl |-> CodeTTL, user |-> req[r].user,
                   client |-> req[r].client, uri |-> req[r].uri,
                   challenge |-> req[r].secret,
                   sent |-> FALSE, listed |-> FALSE, withdrawn |-> FALSE]]
            /\ req' = [req EXCEPT ![r].pc = "grant", ![r].code = k]
      BY <1>3 DEF StoreAuthCode
    <2>2. req[r] \in Request
      OBVIOUS
    <2>3. [status |-> "stored", ttl |-> CodeTTL, user |-> req[r].user,
           client |-> req[r].client, uri |-> req[r].uri, challenge |-> req[r].secret,
           sent |-> FALSE, listed |-> FALSE, withdrawn |-> FALSE] \in CodeEntry
      BY <2>2 DEF Request, CodeEntry
    <2>4. [req[r] EXCEPT !.pc = "grant", !.code = k] \in Request
      BY <2>2, RequestMoves
    <2>5. QED
      BY <1>3, <2>1, <2>3, <2>4 DEF StoreAuthCode
  <1>4. ASSUME NEW r \in Req, RecordGrant(r) \/ RecordGrantFails(r)
        PROVE  TypeOK'
    <2>1. req[r].code \in Code /\ <<req[r].user, req[r].client>> \in Pairs
      BY <1>4 DEF RecordGrant, RecordGrantFails, Knows, Pairs
    <2>2. /\ [code[req[r].code] EXCEPT !.sent = TRUE] \in CodeEntry
          /\ [code[req[r].code] EXCEPT !.sent = TRUE, !.listed = TRUE] \in CodeEntry
      BY <2>1, CodeMoves
    <2>3. code' \in [Code -> CodeEntry]
      BY <1>4, <2>1, <2>2 DEF RecordGrant, RecordGrantFails
    <2>4. QED
      BY <1>4, <2>1, <2>3 DEF RecordGrant, RecordGrantFails, CreateOrUpdateGrant, Finish
  <1>5. ASSUME NEW r \in Req, ConsumeAuthCode(r) \/ ConsumeAuthCodeFails(r)
        PROVE  TypeOK'
    <2>1. req[r].code \in Code
      BY <1>5 DEF ConsumeAuthCode, ConsumeAuthCodeFails, Knows
    <2>2. [code[req[r].code] EXCEPT !.status = "taken", !.ttl = 0] \in CodeEntry
      BY <2>1, CodeMoves
    <2>3. code' \in [Code -> CodeEntry]
      BY <1>5, <2>1, <2>2 DEF ConsumeAuthCode, ConsumeAuthCodeFails, Consumed
    <2>4. Live(req[r].code) => code[req[r].code].user \in User
      BY <2>1 DEF Live, CodesAreApprovals
    <2>5. Live(req[r].code) => Redeemed(r, req[r].code) \in Request
      BY <2>4, RequestMoves DEF Redeemed
    <2>6. req' \in [Req -> Request]
      BY <1>5, <2>5 DEF ConsumeAuthCode, ConsumeAuthCodeFails, Finish
    <2>7. QED
      BY <1>5, <2>3, <2>6 DEF ConsumeAuthCode, ConsumeAuthCodeFails
  <1>6. ASSUME NEW r \in Req, IssueToken(r)
        PROVE  TypeOK'
    <2>1. /\ req[r].user \in User /\ req[r].client \in Client
          /\ req[r].code \in Code /\ req[r].uri \in Uri
      BY <1>6 DEF IssueToken, Knows
    <2>2. req[r].secret \in Secret \cup {None}
      BY DEF Request
    <2> DEFINE t == [user |-> req[r].user, aud |-> req[r].client,
                     code |-> req[r].code, uri |-> req[r].uri,
                     verifier |-> req[r].secret, ttl |-> TokenTTL]
    <2>3. t \in ThirdPartyToken
      BY <2>1, <2>2 DEF ThirdPartyToken
    <2>4. minted' = minted \cup {t}
      BY <1>6 DEF IssueToken
    <2> HIDE DEF t
    <2>5. minted' \subseteq ThirdPartyToken
      BY <2>3, <2>4
    <2>6. QED
      BY <1>6, <2>1, <2>5 DEF IssueToken, Finish
  <1>7. ASSUME NEW r \in Req, StoreAuthCodeFails(r) \/ IssueTokenFails(r)
        PROVE  TypeOK'
    BY <1>7 DEF StoreAuthCodeFails, IssueTokenFails, Finish
  <1>8. ASSUME NEW u \in User, NEW c \in Client, RevokeGrant(u, c)
        PROVE  TypeOK'
    <2>1. \A k \in Code : [code[k] EXCEPT !.withdrawn = TRUE] \in CodeEntry
      BY CodeMoves
    <2>2. code' \in [Code -> CodeEntry]
      BY <1>8, <2>1 DEF RevokeGrant
    <2>3. QED
      BY <1>8, <2>2 DEF RevokeGrant, Pairs
  <1>9. CASE Tick
    <2>1. \A k \in Code : [code[k] EXCEPT !.ttl = Left(@)] \in CodeEntry
      BY CodeMoves
    <2>2. code' \in [Code -> CodeEntry]
      BY <1>9, <2>1 DEF Tick
    <2>3. ASSUME NEW t \in ThirdPartyToken
          PROVE  Aged(t) \in ThirdPartyToken
      <3>1. t.ttl \in 0..TokenTTL
        BY DEF ThirdPartyToken
      <3>2. Left(t.ttl) \in 0..TokenTTL
        BY <3>1, LeftBounds
      <3>3. [t EXCEPT !.ttl = Left(t.ttl)] \in ThirdPartyToken
        BY <3>2 DEF ThirdPartyToken
      <3>4. QED
        BY <3>3 DEF Aged
    <2>4. minted' \subseteq ThirdPartyToken
      BY <1>9, <2>3 DEF Tick
    <2>5. QED
      BY <1>9, <2>2, <2>4 DEF Tick
  <1>10. CASE UNCHANGED vars
    BY <1>10 DEF vars
  <1>11. QED
    BY <1>1, <1>2, <1>3, <1>4, <1>5, <1>6, <1>7, <1>8, <1>9, <1>10
       DEF Next, ServerStep

-----------------------------------------------------------------------------
(* Codes.                                                                  *)

\* All that a step can do to the entry of a code: the code of an approval is
\* stored, and an entry that was stored changes in one way at a time.
StoredStep(k) ==
    /\ code[k] = Fresh
    /\ \E u \in User, c \in Client, i \in Uri, s \in Secret \cup {None} :
          code'[k] = [status |-> "stored", ttl |-> CodeTTL, user |-> u,
                      client |-> c, uri |-> i, challenge |-> s,
                      sent |-> FALSE, listed |-> FALSE, withdrawn |-> FALSE]

CodeStep(k) ==
    \/ code'[k] = code[k]
    \/ StoredStep(k)
    \/ /\ code[k].status # "fresh"
       /\ \/ code'[k] = [code[k] EXCEPT !.sent = TRUE]
          \/ code'[k] = [code[k] EXCEPT !.sent = TRUE, !.listed = TRUE]
    \/ /\ Live(k)
       /\ code'[k] = [code[k] EXCEPT !.status = "taken", !.ttl = 0]
    \/ code'[k] = [code[k] EXCEPT !.withdrawn = TRUE]
    \/ code'[k] = [code[k] EXCEPT !.ttl = Left(@)]

LEMMA CodeSteps == Inv /\ [Next]_vars => \A k \in Code : CodeStep(k)
  <1> SUFFICES ASSUME Inv, [Next]_vars, NEW k \in Code
               PROVE  CodeStep(k)
    OBVIOUS
  <1>t. TypeOK /\ \A r \in Req : Knows(r)
    BY DEF Inv
  <1>1. ASSUME NEW r \in Req, StoreAuthCode(r)
        PROVE  CodeStep(k)
    <2>1. PICK l \in Code :
            /\ code[l] = Fresh
            /\ code' = [code EXCEPT ![l] =
                  [status |-> "stored", ttl |-> CodeTTL, user |-> req[r].user,
                   client |-> req[r].client, uri |-> req[r].uri,
                   challenge |-> req[r].secret,
                   sent |-> FALSE, listed |-> FALSE, withdrawn |-> FALSE]]
      BY <1>1 DEF StoreAuthCode
    <2>2. /\ req[r].user \in User /\ req[r].client \in Client
          /\ req[r].uri \in Uri /\ req[r].secret \in Secret \cup {None}
      BY <1>t, <1>1 DEF StoreAuthCode, Knows, TypeOK, Request
    <2>3. k = l => code[k] = Fresh /\ code'[k] =
                  [status |-> "stored", ttl |-> CodeTTL, user |-> req[r].user,
                   client |-> req[r].client, uri |-> req[r].uri,
                   challenge |-> req[r].secret,
                   sent |-> FALSE, listed |-> FALSE, withdrawn |-> FALSE]
      BY <1>t, <2>1 DEF TypeOK
    <2>4. k # l => code'[k] = code[k]
      BY <1>t, <2>1 DEF TypeOK
    <2>5. k = l => StoredStep(k)
      BY <2>2, <2>3, Zenon DEF StoredStep
    <2>6. QED
      BY <2>4, <2>5 DEF CodeStep
  <1>2. ASSUME NEW r \in Req, RecordGrant(r) \/ RecordGrantFails(r)
        PROVE  CodeStep(k)
    <2>1. req[r].code \in Code /\ code[req[r].code].status # "fresh"
      BY <1>t, <1>2 DEF RecordGrant, RecordGrantFails, Knows
    <2>2. \/ code'[k] = code[k]
          \/ k = req[r].code /\ code'[k] = [code[k] EXCEPT !.sent = TRUE]
          \/ k = req[r].code
             /\ code'[k] = [code[k] EXCEPT !.sent = TRUE, !.listed = TRUE]
      BY <1>t, <1>2, <2>1 DEF RecordGrant, RecordGrantFails, TypeOK
    <2>3. QED
      BY <2>1, <2>2 DEF CodeStep
  <1>3. ASSUME NEW r \in Req, ConsumeAuthCode(r) \/ ConsumeAuthCodeFails(r)
        PROVE  CodeStep(k)
    <2>1. \/ code' = code
          \/ Live(req[r].code) /\ Consumed(req[r].code)
      BY <1>3 DEF ConsumeAuthCode, ConsumeAuthCodeFails
    <2>2. \/ code'[k] = code[k]
          \/ Live(k) /\ code'[k] = [code[k] EXCEPT !.status = "taken", !.ttl = 0]
      BY <1>t, <2>1 DEF Consumed, TypeOK
    <2>3. QED
      BY <2>2 DEF CodeStep
  <1>4. ASSUME NEW u \in User, NEW c \in Client, RevokeGrant(u, c)
        PROVE  CodeStep(k)
    BY <1>4 DEF RevokeGrant, CodeStep
  <1>5. CASE Tick
    BY <1>5 DEF Tick, CodeStep
  <1>6. ASSUME NEW c \in Client, Admin(c)
        PROVE  CodeStep(k)
    BY <1>6 DEF Admin, CreateClient, DeleteClient, UpdateClient, CodeStep
  <1>7. ASSUME NEW r \in Req, Arrival(r)
        PROVE  CodeStep(k)
    BY <1>7 DEF Arrival, Authorize, ValidateClient, CodeStep
  <1>8. ASSUME NEW r \in Req, \/ StoreAuthCodeFails(r)
                              \/ IssueToken(r) \/ IssueTokenFails(r)
        PROVE  CodeStep(k)
    BY <1>8 DEF StoreAuthCodeFails, IssueToken, IssueTokenFails, CodeStep
  <1>9. CASE UNCHANGED vars
    BY <1>9 DEF vars, CodeStep
  <1>10. QED
    BY <1>1, <1>2, <1>3, <1>4, <1>5, <1>6, <1>7, <1>8, <1>9 DEF Next, ServerStep

\* What a code says of its approval is never changed, and a code that was
\* taken from Redis does not come back.
Kept(k) ==
    /\ code[k].status # "fresh" =>
          /\ code'[k].status # "fresh"
          /\ code'[k].user = code[k].user
          /\ code'[k].client = code[k].client
          /\ code'[k].uri = code[k].uri
          /\ code'[k].challenge = code[k].challenge
    /\ code[k].status = "taken" => code'[k].status = "taken"

LEMMA CodesKept ==
    ASSUME TypeOK, NEW k \in Code, CodeStep(k)
    PROVE  Kept(k)
  <1>1. code[k] \in CodeEntry
    BY DEF TypeOK
  <1>2. CASE StoredStep(k)
    BY <1>2 DEF StoredStep, Kept, Fresh
  <1>3. CASE ~StoredStep(k)
    BY <1>1, <1>3 DEF CodeStep, Kept, CodeEntry, Live
  <1>4. QED
    BY <1>2, <1>3

LEMMA ApprovalsStep == Inv /\ [Next]_vars => CodesAreApprovals'
  <1> SUFFICES ASSUME Inv, [Next]_vars, NEW k \in Code
               PROVE  /\ code'[k].status # "fresh" =>
                           /\ code'[k].user \in User
                           /\ code'[k].client \in Client
                           /\ code'[k].uri \in Uri
                      /\ code'[k].status # "stored" => code'[k].ttl = 0
                      /\ code'[k].sent => code'[k].status # "fresh"
                      /\ code'[k].listed => code'[k].sent
    BY DEF CodesAreApprovals
  <1>1. CodeStep(k)
    BY CodeSteps
  <1>2. /\ code[k] \in CodeEntry
        /\ code[k].status # "fresh" => /\ code[k].user \in User
                                       /\ code[k].client \in Client
                                       /\ code[k].uri \in Uri
        /\ code[k].status # "stored" => code[k].ttl = 0
        /\ code[k].sent => code[k].status # "fresh"
        /\ code[k].listed => code[k].sent
    BY DEF Inv, TypeOK, CodesAreApprovals
  <1>3. Left(0) = 0
    BY DEF Left
  <1>4. CASE StoredStep(k)
    BY <1>4 DEF StoredStep
  <1>5. CASE \/ code'[k] = code[k]
             \/ code'[k] = [code[k] EXCEPT !.withdrawn = TRUE]
             \/ code'[k] = [code[k] EXCEPT !.ttl = Left(@)]
    BY <1>2, <1>3, <1>5 DEF CodeEntry
  <1>6. CASE /\ code[k].status # "fresh"
             /\ \/ code'[k] = [code[k] EXCEPT !.sent = TRUE]
                \/ code'[k] = [code[k] EXCEPT !.sent = TRUE, !.listed = TRUE]
    BY <1>2, <1>6 DEF CodeEntry
  <1>7. CASE Live(k) /\ code'[k] = [code[k] EXCEPT !.status = "taken", !.ttl = 0]
    BY <1>2, <1>7 DEF CodeEntry, Live
  <1>8. QED
    BY <1>1, <1>4, <1>5, <1>6, <1>7 DEF CodeStep

-----------------------------------------------------------------------------
(* Requests.                                                               *)

\* What a request knows, it still knows when others move.
LEMMA OthersKnow ==
    ASSUME Inv, NEW q \in Req, req'[q] = req[q], \A k \in Code : Kept(k)
    PROVE  Knows(q)'
  <1>1. Knows(q) /\ (req[q].code \in Code => Kept(req[q].code))
    BY DEF Inv
  <1>2. QED
    BY <1>1 DEF Knows, Kept, VerifyPKCE

LEMMA IdleKnows ==
    ASSUME NEW q \in Req, req'[q] = Idle
    PROVE  Knows(q)'
  BY DEF Knows, Idle

LEMMA KnowsStep == Inv /\ [Next]_vars => \A q \in Req : Knows(q)'
  <1> SUFFICES ASSUME Inv, [Next]_vars, NEW q \in Req
               PROVE  Knows(q)'
    OBVIOUS
  <1>t. TypeOK /\ Knows(q) /\ req[q] \in Request
    BY DEF Inv, TypeOK
  <1>k. \A k \in Code : Kept(k)
    BY <1>t, CodeSteps, CodesKept
  <1>0. req'[q] = req[q] \/ req'[q] = Idle => Knows(q)'
    BY <1>k, OthersKnow, IdleKnows
  <1>1. ASSUME Arrival(q)
        PROVE  Knows(q)'
    <2>1. PICK c \in Client, i \in Uri, s \in Secret \cup {None} :
             \/ \E u \in User : Authorize(q, u, c, i, s)
             \/ \E k \in Code : ValidateClient(q, c, k, i, s)
      BY <1>1 DEF Arrival
    <2>2. ASSUME NEW u \in User, Authorize(q, u, c, i, s)
          PROVE  Knows(q)'
      <3>1. req'[q] = [pc |-> "store", user |-> u, client |-> c, uri |-> i,
                       secret |-> s, code |-> None]
        BY <1>t, <2>2 DEF Authorize, TypeOK
      <3>2. QED
        BY <3>1 DEF Knows
    <2>3. ASSUME NEW k \in Code, ValidateClient(q, c, k, i, s)
          PROVE  Knows(q)'
      <3>1. req'[q] = [pc |-> "consume", user |-> None, client |-> c, uri |-> i,
                       secret |-> s, code |-> k]
        BY <1>t, <2>3 DEF ValidateClient, TypeOK
      <3>2. code[k].sent /\ code' = code
        BY <2>3 DEF ValidateClient
      <3>3. code[k].status # "fresh"
        BY <3>2 DEF Inv, CodesAreApprovals
      <3>4. QED
        BY <3>1, <3>2, <3>3 DEF Knows
    <2>4. QED
      BY <2>1, <2>2, <2>3
  <1>2. CASE StoreAuthCode(q)
    <2>1. PICK k \in Code :
            /\ code' = [code EXCEPT ![k] =
                  [status |-> "stored", ttl |-> CodeTTL, user |-> req[q].user,
                   client |-> req[q].client, uri |-> req[q].uri,
                   challenge |-> req[q].secret,
                   sent |-> FALSE, listed |-> FALSE, withdrawn |-> FALSE]]
            /\ req' = [req EXCEPT ![q].pc = "grant", ![q].code = k]
      BY <1>2 DEF StoreAuthCode
    <2>2. req'[q] = [req[q] EXCEPT !.pc = "grant", !.code = k]
      BY <1>t, <2>1 DEF TypeOK
    <2>3. /\ code'[k].status = "stored" /\ code'[k].user = req[q].user
          /\ code'[k].client = req[q].client
      BY <1>t, <2>1 DEF TypeOK
    <2>4. /\ req'[q].pc = "grant" /\ req'[q].code = k
          /\ req'[q].user = req[q].user /\ req'[q].client = req[q].client
          /\ req'[q].uri = req[q].uri
      BY <1>t, <2>2 DEF Request
    <2>5. req[q].user \in User /\ req[q].client \in Client /\ req[q].uri \in Uri
      BY <1>t, <1>2 DEF StoreAuthCode, Knows
    <2>6. QED
      BY <2>3, <2>4, <2>5 DEF Knows
  <1>3. CASE ConsumeAuthCode(q) /\ Bound(q, req[q].code)
    <2> DEFINE k == req[q].code
    <2>1. k \in Code /\ Live(k) /\ req[q].client \in Client /\ req[q].uri \in Uri
      BY <1>t, <1>3 DEF ConsumeAuthCode, Knows
    <2>2. code'[k] = [code[k] EXCEPT !.status = "taken", !.ttl = 0]
      BY <1>t, <1>3, <2>1 DEF ConsumeAuthCode, Consumed, TypeOK
    <2>3. req'[q] = [req[q] EXCEPT !.pc = "mint", !.user = code[k].user]
      BY <1>t, <1>3, <2>1 DEF ConsumeAuthCode, Redeemed, TypeOK
    <2>4. code[k] \in CodeEntry /\ code[k].user \in User
      BY <1>t, <2>1 DEF Inv, CodesAreApprovals, TypeOK, Live
    <2>5. /\ code'[k].status = "taken" /\ code'[k].user = code[k].user
          /\ code'[k].client = code[k].client /\ code'[k].uri = code[k].uri
          /\ code'[k].challenge = code[k].challenge
      BY <2>2, <2>4 DEF CodeEntry
    <2>6. /\ req'[q].pc = "mint" /\ req'[q].code = k /\ req'[q].user = code[k].user
          /\ req'[q].client = req[q].client /\ req'[q].uri = req[q].uri
          /\ req'[q].secret = req[q].secret
      BY <1>t, <2>3 DEF Request
    <2>7. /\ VerifyPKCE(req[q].secret, code[k].challenge)
          /\ code[k].client = req[q].client /\ code[k].uri = req[q].uri
      BY <1>3 DEF Bound
    <2> HIDE DEF k
    <2>8. QED
      BY <2>1, <2>4, <2>5, <2>6, <2>7 DEF Knows, VerifyPKCE
  <1>4. CASE \/ StoreAuthCodeFails(q) \/ RecordGrant(q) \/ RecordGrantFails(q)
             \/ ConsumeAuthCode(q) /\ ~Bound(q, req[q].code)
             \/ ConsumeAuthCodeFails(q) \/ IssueToken(q) \/ IssueTokenFails(q)
    <2>1. req'[q] = Idle
      BY <1>t, <1>4 DEF StoreAuthCodeFails, RecordGrant, RecordGrantFails, ConsumeAuthCode,
                  ConsumeAuthCodeFails, IssueToken, IssueTokenFails, Finish, TypeOK
    <2>2. QED
      BY <2>1, <1>0
  <1>5. ASSUME NEW r \in Req, r # q, Arrival(r) \/ ServerStep(r)
        PROVE  Knows(q)'
    <2>1. ASSUME Arrival(r)
          PROVE  req'[q] = req[q]
      BY <1>t, <1>5, <2>1 DEF Arrival, Authorize, ValidateClient, TypeOK
    <2>2. ASSUME ConsumeAuthCode(r)
          PROVE  req'[q] = req[q]
      BY <1>t, <1>5, <2>2 DEF ConsumeAuthCode, Finish, TypeOK
    <2>3. ASSUME StoreAuthCode(r)
          PROVE  req'[q] = req[q]
      BY <1>t, <1>5, <2>3 DEF StoreAuthCode, TypeOK
    <2>4. ASSUME \/ StoreAuthCodeFails(r) \/ RecordGrant(r) \/ RecordGrantFails(r)
                 \/ ConsumeAuthCodeFails(r) \/ IssueToken(r) \/ IssueTokenFails(r)
          PROVE  req'[q] = req[q]
      BY <1>t, <1>5, <2>4 DEF StoreAuthCodeFails, RecordGrant, RecordGrantFails,
                       ConsumeAuthCodeFails, IssueToken, IssueTokenFails, Finish, TypeOK
    <2>5. QED
      BY <1>5, <1>0, <2>1, <2>2, <2>3, <2>4 DEF ServerStep
  <1>6. CASE \/ \E c \in Client : Admin(c)
             \/ \E u \in User, c \in Client : RevokeGrant(u, c)
             \/ Tick \/ UNCHANGED vars
    <2>1. req' = req
      BY <1>6 DEF Admin, CreateClient, DeleteClient, UpdateClient, RevokeGrant, Tick, vars
    <2>2. QED
      BY <2>1, <1>0
  <1>7. QED
    BY <1>1, <1>2, <1>3, <1>4, <1>5, <1>6 DEF Next, ServerStep

\* A request that mints a token did so before the step, or has just taken the
\* code from Redis while nobody else moved.
LEMMA Minting ==
    ASSUME Inv, [Next]_vars, NEW q \in Req, req'[q].pc = "mint"
    PROVE  \/ req'[q] = req[q]
           \/ /\ req[q].code \in Code /\ Live(req[q].code)
              /\ req'[q].code = req[q].code
              /\ \A r \in Req : r # q => req'[r] = req[r]
  <1>t. TypeOK /\ Knows(q) /\ req[q] \in Request
    BY DEF Inv, TypeOK
  <1>1. ASSUME NEW r \in Req, Arrival(r)
        PROVE  req'[q] = req[q]
    BY <1>t, <1>1 DEF Arrival, Authorize, ValidateClient, TypeOK
  <1>2. ASSUME NEW r \in Req, StoreAuthCode(r)
        PROVE  req'[q] = req[q]
    <2>1. PICK k \in Code : req' = [req EXCEPT ![r].pc = "grant", ![r].code = k]
      BY <1>2 DEF StoreAuthCode
    <2>2. q = r => req'[q] = [req[q] EXCEPT !.pc = "grant", !.code = k]
      BY <1>t, <2>1 DEF TypeOK
    <2>3. q = r => req'[q].pc = "grant"
      BY <1>t, <2>2 DEF Request
    <2>4. QED
      BY <1>t, <2>1, <2>3 DEF TypeOK
  <1>3. ASSUME NEW r \in Req, ConsumeAuthCode(r), Bound(r, req[r].code)
        PROVE  \/ req'[q] = req[q]
               \/ /\ req[q].code \in Code /\ Live(req[q].code)
                  /\ req'[q].code = req[q].code
                  /\ \A o \in Req : o # q => req'[o] = req[o]
    <2>1. req' = [req EXCEPT ![r] = [req[r] EXCEPT !.pc = "mint",
                                                   !.user = code[req[r].code].user]]
      BY <1>3 DEF ConsumeAuthCode, Redeemed
    <2>2. CASE r # q
      BY <1>t, <2>1, <2>2 DEF TypeOK
    <2>3. CASE r = q
      <3>1. req'[q] = [req[q] EXCEPT !.pc = "mint", !.user = code[req[q].code].user]
        BY <1>t, <2>1, <2>3 DEF TypeOK
      <3>2. req'[q].code = req[q].code
        BY <1>t, <3>1 DEF Request
      <3>3. req[q].code \in Code /\ Live(req[q].code)
        BY <1>t, <1>3, <2>3 DEF ConsumeAuthCode, Knows
      <3>4. \A o \in Req : o # q => req'[o] = req[o]
        BY <1>t, <2>1, <2>3 DEF TypeOK
      <3>5. QED
        BY <3>2, <3>3, <3>4
    <2>4. QED
      BY <2>2, <2>3
  <1>4. ASSUME NEW r \in Req,
               \/ StoreAuthCodeFails(r) \/ RecordGrant(r) \/ RecordGrantFails(r)
               \/ ConsumeAuthCode(r) /\ ~Bound(r, req[r].code)
               \/ ConsumeAuthCodeFails(r) \/ IssueToken(r) \/ IssueTokenFails(r)
        PROVE  req'[q] = req[q]
    <2>1. req' = [req EXCEPT ![r] = Idle]
      BY <1>4 DEF StoreAuthCodeFails, RecordGrant, RecordGrantFails, ConsumeAuthCode,
                  ConsumeAuthCodeFails, IssueToken, IssueTokenFails, Finish
    <2>2. Idle.pc # "mint"
      BY DEF Idle
    <2>3. QED
      BY <1>t, <2>1, <2>2 DEF TypeOK
  <1>5. CASE \/ \E c \in Client : Admin(c)
             \/ \E u \in User, c \in Client : RevokeGrant(u, c)
             \/ Tick \/ UNCHANGED vars
    BY <1>5 DEF Admin, CreateClient, DeleteClient, UpdateClient, RevokeGrant, Tick, vars
  <1>6. QED
    BY <1>1, <1>2, <1>3, <1>4, <1>5 DEF Next, ServerStep

LEMMA ExchangeStep == Inv /\ [Next]_vars => OneExchange'
  <1> SUFFICES ASSUME Inv, [Next]_vars, NEW r \in Req, NEW q \in Req,
                      req'[r].pc = "mint", req'[q].pc = "mint",
                      req'[r].code = req'[q].code, r # q
               PROVE  FALSE
    BY DEF OneExchange
  <1>1. Knows(r) /\ Knows(q) /\ OneExchange
    BY DEF Inv
  <1>2. CASE req'[r] = req[r] /\ req'[q] = req[q]
    BY <1>1, <1>2 DEF OneExchange
  <1>3. CASE req'[r] # req[r]
    <2>1. /\ Live(req[r].code) /\ req'[r].code = req[r].code /\ req'[q] = req[q]
      BY <1>3, Minting
    <2>2. QED
      BY <1>1, <2>1 DEF Knows, Live
  <1>4. CASE req'[q] # req[q]
    <2>1. /\ Live(req[q].code) /\ req'[q].code = req[q].code /\ req'[r] = req[r]
      BY <1>4, Minting
    <2>2. QED
      BY <1>1, <2>1 DEF Knows, Live
  <1>5. QED
    BY <1>2, <1>3, <1>4

-----------------------------------------------------------------------------
(* Tokens.                                                                 *)

\* A token is one that was there before, older perhaps, or the answer to a
\* request that has its code's user, client and URI.
LEMMA TokenOrigin ==
    ASSUME Inv, [Next]_vars, NEW t \in minted'
    PROVE  \/ \E o \in minted :
                /\ t.user = o.user /\ t.aud = o.aud /\ t.code = o.code
                /\ t.uri = o.uri /\ t.verifier = o.verifier
           \/ \E r \in Req :
                /\ req[r].pc = "mint"
                /\ t.user = req[r].user /\ t.aud = req[r].client
                /\ t.code = req[r].code /\ t.uri = req[r].uri
                /\ t.verifier = req[r].secret
  <1>1. ASSUME NEW r \in Req, IssueToken(r), t \notin minted
        PROVE  /\ req[r].pc = "mint"
               /\ t.user = req[r].user /\ t.aud = req[r].client
               /\ t.code = req[r].code /\ t.uri = req[r].uri
               /\ t.verifier = req[r].secret
    <2>1. t = [user |-> req[r].user, aud |-> req[r].client, code |-> req[r].code,
               uri |-> req[r].uri, verifier |-> req[r].secret, ttl |-> TokenTTL]
      BY <1>1 DEF IssueToken
    <2>2. QED
      BY <1>1, <2>1 DEF IssueToken
  <1>2. CASE Tick
    <2>1. PICK o \in minted : t = [o EXCEPT !.ttl = Left(@)]
      BY <1>2 DEF Tick, Aged
    <2>2. o \in ThirdPartyToken
      BY DEF Inv, TypeOK
    <2>3. /\ t.user = o.user /\ t.aud = o.aud /\ t.code = o.code
          /\ t.uri = o.uri /\ t.verifier = o.verifier
      BY <2>1, <2>2 DEF ThirdPartyToken
    <2>4. QED
      BY <2>3
  <1>3. Tick \/ minted' = minted \/ \E r \in Req : IssueToken(r)
    BY DEF Next, Admin, CreateClient, DeleteClient, UpdateClient, Arrival, Authorize,
           ValidateClient, ServerStep, StoreAuthCode, StoreAuthCodeFails, RecordGrant,
           RecordGrantFails, ConsumeAuthCode, ConsumeAuthCodeFails, IssueTokenFails,
           RevokeGrant, vars
  <1>4. QED
    BY <1>1, <1>2, <1>3

LEMMA TokenStep == Inv /\ [Next]_vars => TokensHaveCodes' /\ RedeemedAsBound'
  <1> SUFFICES ASSUME Inv, [Next]_vars, NEW t \in minted'
               PROVE  /\ code'[t.code].status = "taken"
                      /\ <<t.user, t.aud>> = <<code'[t.code].user, code'[t.code].client>>
                      /\ t.uri = code'[t.code].uri
                      /\ code'[t.code].challenge # None =>
                            t.verifier = code'[t.code].challenge
    BY DEF TokensHaveCodes, RedeemedAsBound
  <1>k. \A k \in Code : Kept(k)
    BY CodeSteps, CodesKept DEF Inv
  <1>1. ASSUME NEW k \in Code, t.code = k, code[k].status = "taken",
               t.user = code[k].user, t.aud = code[k].client, t.uri = code[k].uri,
               code[k].challenge # None => t.verifier = code[k].challenge
        PROVE  /\ code'[k].status = "taken"
               /\ <<t.user, t.aud>> = <<code'[k].user, code'[k].client>>
               /\ t.uri = code'[k].uri
               /\ code'[k].challenge # None => t.verifier = code'[k].challenge
    BY <1>k, <1>1 DEF Kept
  <1>2. ASSUME NEW o \in minted,
               t.user = o.user, t.aud = o.aud, t.code = o.code, t.uri = o.uri,
               t.verifier = o.verifier
        PROVE  /\ t.code \in Code /\ code[t.code].status = "taken"
               /\ t.user = code[t.code].user /\ t.aud = code[t.code].client
               /\ t.uri = code[t.code].uri
               /\ code[t.code].challenge # None => t.verifier = code[t.code].challenge
    BY <1>2 DEF Inv, TypeOK, ThirdPartyToken, TokensHaveCodes, RedeemedAsBound
  <1>3. ASSUME NEW r \in Req, req[r].pc = "mint",
               t.user = req[r].user, t.aud = req[r].client, t.code = req[r].code,
               t.uri = req[r].uri, t.verifier = req[r].secret
        PROVE  /\ t.code \in Code /\ code[t.code].status = "taken"
               /\ t.user = code[t.code].user /\ t.aud = code[t.code].client
               /\ t.uri = code[t.code].uri
               /\ code[t.code].challenge # None => t.verifier = code[t.code].challenge
    <2>1. Knows(r)
      BY DEF Inv
    <2>2. QED
      BY <1>3, <2>1 DEF Knows, VerifyPKCE
  <1>4. QED
    BY <1>1, <1>2, <1>3, TokenOrigin

-----------------------------------------------------------------------------
(* Grants.                                                                 *)

LEMMA GrantStep == Inv /\ [Next]_vars => GrantsAreListed'
  <1> SUFFICES ASSUME Inv, [Next]_vars, NEW k \in Code,
                      code'[k].listed, ~code'[k].withdrawn
               PROVE  grant'[<<code'[k].user, code'[k].client>>] = "active"
    BY DEF GrantsAreListed
  <1>t. TypeOK /\ GrantsAreListed /\ code[k] \in CodeEntry /\ CodesAreApprovals
    BY DEF Inv, TypeOK
  <1>1. CASE UNCHANGED <<code, grant>>
    BY <1>t, <1>1 DEF GrantsAreListed
  <1>2. ASSUME NEW r \in Req, StoreAuthCode(r)
        PROVE  grant'[<<code'[k].user, code'[k].client>>] = "active"
    BY <1>t, <1>2 DEF StoreAuthCode, TypeOK, GrantsAreListed
  <1>3. ASSUME NEW r \in Req, RecordGrant(r)
        PROVE  grant'[<<code'[k].user, code'[k].client>>] = "active"
    <2>1. /\ req[r].code \in Code
          /\ req[r].user = code[req[r].code].user
          /\ req[r].client = code[req[r].code].client
          /\ <<req[r].user, req[r].client>> \in Pairs
      BY <1>3 DEF Inv, RecordGrant, Knows, Pairs
    <2>2. grant' = [grant EXCEPT ![<<req[r].user, req[r].client>>] = "active"]
      BY <1>3 DEF RecordGrant, CreateOrUpdateGrant
    <2>3. /\ code'[k].user = code[k].user /\ code'[k].client = code[k].client
          /\ code'[k].withdrawn = code[k].withdrawn
          /\ k # req[r].code => code'[k].listed = code[k].listed
      BY <1>t, <1>3, <2>1 DEF RecordGrant, TypeOK, CodeEntry
    <2>4. CASE k = req[r].code
      BY <1>t, <2>1, <2>2, <2>3, <2>4 DEF TypeOK
    <2>5. CASE k # req[r].code
      <3>1. grant[<<code[k].user, code[k].client>>] = "active"
        BY <1>t, <2>3, <2>5 DEF GrantsAreListed
      <3>2. <<code[k].user, code[k].client>> \in Pairs
        BY <1>t, <2>3, <2>5 DEF CodesAreApprovals, Pairs
      <3>3. QED
        BY <1>t, <2>2, <2>3, <3>1, <3>2 DEF TypeOK
    <2>6. QED
      BY <2>4, <2>5
  <1>4. ASSUME NEW r \in Req, RecordGrantFails(r)
        PROVE  grant'[<<code'[k].user, code'[k].client>>] = "active"
    <2>1. code' = [code EXCEPT ![req[r].code].sent = TRUE] /\ grant' = grant
      BY <1>4 DEF RecordGrantFails
    <2>2. /\ code'[k].user = code[k].user /\ code'[k].client = code[k].client
          /\ code'[k].withdrawn = code[k].withdrawn
          /\ code'[k].listed = code[k].listed
      BY <1>t, <2>1 DEF TypeOK, CodeEntry
    <2>3. QED
      BY <1>t, <2>1, <2>2 DEF GrantsAreListed
  <1>5. ASSUME NEW r \in Req, ConsumeAuthCode(r) \/ ConsumeAuthCodeFails(r)
        PROVE  grant'[<<code'[k].user, code'[k].client>>] = "active"
    <2>1. /\ code' = code \/ Consumed(req[r].code)
          /\ grant' = grant
      BY <1>5 DEF ConsumeAuthCode, ConsumeAuthCodeFails
    <2>e. \/ code'[k] = code[k]
          \/ code'[k] = [code[k] EXCEPT !.status = "taken", !.ttl = 0]
      BY <1>t, <2>1 DEF TypeOK, Consumed
    <2>2. /\ code'[k].user = code[k].user /\ code'[k].client = code[k].client
          /\ code'[k].withdrawn = code[k].withdrawn
          /\ code'[k].listed = code[k].listed
      BY <1>t, <2>e DEF CodeEntry
    <2>3. QED
      BY <1>t, <2>1, <2>2 DEF GrantsAreListed
  <1>6. ASSUME NEW u \in User, NEW c \in Client, RevokeGrant(u, c)
        PROVE  grant'[<<code'[k].user, code'[k].client>>] = "active"
    <2>1. ~(code[k].sent /\ code[k].user = u /\ code[k].client = c)
      BY <1>t, <1>6 DEF RevokeGrant, CodeEntry
    <2>2. code'[k] = code[k]
      BY <1>6, <2>1 DEF RevokeGrant
    <2>3. /\ code[k].sent /\ <<code[k].user, code[k].client>> # <<u, c>>
          /\ <<code[k].user, code[k].client>> \in Pairs
      BY <1>t, <2>1, <2>2 DEF CodesAreApprovals, Pairs
    <2>4. grant[<<code[k].user, code[k].client>>] = "active"
      BY <1>t, <2>2 DEF GrantsAreListed
    <2>5. QED
      BY <1>t, <1>6, <2>2, <2>3, <2>4 DEF RevokeGrant, TypeOK
  <1>7. CASE Tick
    <2>1. code'[k] = [code[k] EXCEPT !.ttl = Left(@)] /\ grant' = grant
      BY <1>7 DEF Tick
    <2>2. /\ code'[k].user = code[k].user /\ code'[k].client = code[k].client
          /\ code'[k].withdrawn = code[k].withdrawn
          /\ code'[k].listed = code[k].listed
      BY <1>t, <2>1 DEF CodeEntry
    <2>3. QED
      BY <1>t, <2>1, <2>2 DEF GrantsAreListed
  <1>8. \/ UNCHANGED <<code, grant>>
        \/ \E r \in Req : \/ StoreAuthCode(r) \/ RecordGrant(r) \/ RecordGrantFails(r)
                          \/ ConsumeAuthCode(r) \/ ConsumeAuthCodeFails(r)
        \/ \E u \in User, c \in Client : RevokeGrant(u, c)
        \/ Tick
    BY DEF Next, Admin, CreateClient, DeleteClient, UpdateClient, Arrival, Authorize,
           ValidateClient, ServerStep, StoreAuthCodeFails, IssueToken, IssueTokenFails,
           vars
  <1>9. QED
    BY <1>1, <1>2, <1>3, <1>4, <1>5, <1>6, <1>7, <1>8

-----------------------------------------------------------------------------
(* The invariant, and what follows from it.                                *)

LEMMA InitInv == Init => Inv
  <1> SUFFICES ASSUME Init
               PROVE  Inv
    OBVIOUS
  <1>1. TypeOK
    BY EmptyTypes DEF Init, TypeOK, Row
  <1>2. \A r \in Req : req[r].pc = "idle"
    BY DEF Init, Idle
  <1>3. (\A r \in Req : Knows(r)) /\ OneExchange
    BY <1>2 DEF Knows, OneExchange
  <1>4. CodesAreApprovals /\ GrantsAreListed
    BY DEF Init, CodesAreApprovals, GrantsAreListed, Fresh
  <1>5. TokensHaveCodes /\ RedeemedAsBound
    BY DEF Init, TokensHaveCodes, RedeemedAsBound
  <1>6. QED
    BY <1>1, <1>3, <1>4, <1>5 DEF Inv

LEMMA InvStep == Inv /\ [Next]_vars => Inv'
  BY TypeStep, ApprovalsStep, KnowsStep, ExchangeStep, TokenStep, GrantStep DEF Inv

LEMMA ProviderInvariant == Spec => []Inv
  BY InitInv, InvStep, PTL DEF Spec

\* The provider's variables keep their types.
THEOREM ProviderTypeCorrect == Spec => []TypeOK
  <1>1. Inv => TypeOK
    BY DEF Inv
  <1>2. QED
    BY <1>1, ProviderInvariant, PTL

\* A token goes to the client the user approved, with the redirect URI and the
\* verifier of that approval, however many clients present the code at once.
THEOREM ProviderRedeemsAsBound == Spec => []RedeemedAsBound
  <1>1. Inv => RedeemedAsBound
    BY DEF Inv
  <1>2. QED
    BY <1>1, ProviderInvariant, PTL

\* An application that can still act for a user is in the user's list, unless
\* the grant was revoked or could not be recorded.
THEOREM ProviderListsApps == Spec => []AppsAreListed
  <1>1. Inv => AppsAreListed
    BY DEF Inv, GrantsAreListed, AppsAreListed
  <1>2. QED
    BY <1>1, ProviderInvariant, PTL

-----------------------------------------------------------------------------
(* Authorization codes are single-use tickets.                             *)

\* A request that is not about to answer, before and after its step, takes no
\* part in an exchange.
LEMMA ExchangesKept ==
    ASSUME NEW r \in Req, req[r].pc # "mint", req'[r].pc # "mint",
           \A q \in Req : q # r => req'[q] = req[q], NEW k \in Code
    PROVE  InExchange(k)' <=> InExchange(k)
  BY DEF InExchange

\* A step that issues a code, or lapses some, and answers nobody is a Turnover.
LEMMA CodeIssued ==
    ASSUME NEW k \in Code, answers' = answers,
           Worth(k) = "unissued", Worth(k)' = "live",
           \A l \in Code : l # k => Worth(l)' = Worth(l)
    PROVE  [Tickets!Next]_(Tickets!vars)
  <1>1. \A l \in Code : Worth(l)' = CASE l \in {k} -> "live"
                                      [] l \in {} -> "spent"
                                      [] OTHER -> Worth(l)
    OBVIOUS
  <1>2. Tickets!Turnover({k}, {})
    BY <1>1 DEF Tickets!Turnover
  <1>3. {k} \in SUBSET Code /\ {} \in SUBSET Code
    OBVIOUS
  <1>4. QED
    BY <1>2, <1>3 DEF Tickets!Next

LEMMA CodesLapse ==
    ASSUME NEW L \in SUBSET Code, answers' = answers,
           \A k \in L : Worth(k) = "live" /\ Worth(k)' = "spent",
           \A k \in Code : k \notin L => Worth(k)' = Worth(k)
    PROVE  [Tickets!Next]_(Tickets!vars)
  <1>1. \A k \in Code : Worth(k)' = CASE k \in {} -> "live"
                                      [] k \in L -> "spent"
                                      [] OTHER -> Worth(k)
    OBVIOUS
  <1>2. Tickets!Turnover({}, L)
    BY <1>1 DEF Tickets!Turnover
  <1>3. {} \in SUBSET Code
    OBVIOUS
  <1>4. QED
    BY <1>2, <1>3 DEF Tickets!Next

\* The same, when one code lapses.
LEMMA CodeLapses ==
    ASSUME NEW k \in Code, answers' = answers,
           Worth(k) = "live", Worth(k)' = "spent",
           \A l \in Code : l # k => Worth(l)' = Worth(l)
    PROVE  [Tickets!Next]_(Tickets!vars)
  <1> DEFINE L == {k}
  <1>1. /\ L \in SUBSET Code
        /\ \A l \in L : Worth(l) = "live" /\ Worth(l)' = "spent"
        /\ \A l \in Code : l \notin L => Worth(l)' = Worth(l)
    OBVIOUS
  <1> HIDE DEF L
  <1>2. QED
    BY <1>1, CodesLapse

\* A step that leaves every code as it was is no step of the tickets.
LEMMA CodesStay ==
    ASSUME answers' = answers, \A k \in Code : Worth(k)' = Worth(k)
    PROVE  [Tickets!Next]_(Tickets!vars)
  BY DEF Tickets!vars

\* What a code is worth depends on its status, on whether its time is up, and
\* on the exchange that it is in.
LEMMA WorthStays ==
    ASSUME NEW k \in Code, code'[k].status = code[k].status,
           code'[k].ttl > 0 <=> code[k].ttl > 0, InExchange(k)' <=> InExchange(k)
    PROVE  Worth(k)' = Worth(k)
  BY DEF Worth, CodeStatus, Live

\* The code of an exchange is gone from Redis.
LEMMA ExchangedIsTaken ==
    ASSUME Inv, NEW k \in Code, InExchange(k)
    PROVE  code[k].status = "taken"
  BY DEF InExchange, Inv, Knows

\* Every step of the provider is a step of the abstract ticket, or none.
LEMMA TicketStep == Inv /\ [Next]_vars => [Tickets!Next]_(Tickets!vars)
  <1> SUFFICES ASSUME Inv, [Next]_vars
               PROVE  [Tickets!Next]_(Tickets!vars)
    OBVIOUS
  <1>t. TypeOK /\ OneExchange /\ CodesAreApprovals
    BY DEF Inv
  <1>1. ASSUME NEW r \in Req, StoreAuthCode(r)
        PROVE  [Tickets!Next]_(Tickets!vars)
    <2>1. PICK k \in Code :
            /\ code[k] = Fresh
            /\ code' = [code EXCEPT ![k] =
                  [status |-> "stored", ttl |-> CodeTTL, user |-> req[r].user,
                   client |-> req[r].client, uri |-> req[r].uri,
                   challenge |-> req[r].secret,
                   sent |-> FALSE, listed |-> FALSE, withdrawn |-> FALSE]]
            /\ req' = [req EXCEPT ![r].pc = "grant", ![r].code = k]
      BY <1>1 DEF StoreAuthCode
    <2>2. /\ req[r].pc = "store" /\ answers' = answers
          /\ \A q \in Req : q # r => req'[q] = req[q]
      BY <1>t, <1>1, <2>1 DEF StoreAuthCode, TypeOK
    <2>3. req'[r] = [req[r] EXCEPT !.pc = "grant", !.code = k] /\ req[r] \in Request
      BY <1>t, <2>1 DEF TypeOK
    <2>4. req'[r].pc = "grant"
      BY <2>3 DEF Request
    <2>5. \A l \in Code : InExchange(l)' <=> InExchange(l)
      BY <2>2, <2>4, ExchangesKept
    <2>6. code[k].status = "fresh" /\ code'[k].status = "stored" /\ code'[k].ttl > 0
      BY <1>t, <2>1, Lifetimes DEF TypeOK, Fresh
    <2>7. ~InExchange(k)
      BY <2>6, ExchangedIsTaken
    <2>8. Worth(k) = "unissued" /\ Worth(k)' = "live"
      BY <2>5, <2>6, <2>7 DEF Worth, CodeStatus, Live
    <2>9. ASSUME NEW l \in Code, l # k
          PROVE  Worth(l)' = Worth(l)
      <3>1. code'[l] = code[l]
        BY <1>t, <2>1, <2>9 DEF TypeOK
      <3>2. QED
        BY <2>5, <3>1, WorthStays
    <2>10. QED
      BY <2>2, <2>8, <2>9, CodeIssued
  <1>2. ASSUME NEW r \in Req, ConsumeAuthCode(r) \/ ConsumeAuthCodeFails(r)
        PROVE  [Tickets!Next]_(Tickets!vars)
    <2>1. PICK k \in Code : k = req[r].code
      BY <1>2 DEF Inv, Knows, ConsumeAuthCode, ConsumeAuthCodeFails
    <2>2. /\ req[r].pc = "consume" /\ answers' = answers
          /\ \A q \in Req : q # r => req'[q] = req[q]
      BY <1>t, <1>2 DEF ConsumeAuthCode, ConsumeAuthCodeFails, Finish, TypeOK
    <2>3. Live(k) => ~InExchange(k) /\ Worth(k) = "live"
      BY ExchangedIsTaken DEF Live, Worth, CodeStatus
    <2>4. CASE code' = code /\ req'[r] = Idle
      <3>1. \A l \in Code : InExchange(l)' <=> InExchange(l)
        BY <2>2, <2>4, ExchangesKept DEF Idle
      <3>2. \A l \in Code : Worth(l)' = Worth(l)
        BY <2>4, <3>1, WorthStays
      <3>3. QED
        BY <2>2, <3>2, CodesStay
    <2>5. ASSUME Live(k), Consumed(k)
          PROVE  /\ code'[k].status = "taken"
                 /\ \A l \in Code : l # k => code'[l] = code[l]
      BY <1>t, <2>5 DEF Consumed, TypeOK, CodeEntry
    <2>6. CASE Live(k) /\ Consumed(k) /\ req'[r] = Idle
      <3>1. \A l \in Code : InExchange(l)' <=> InExchange(l)
        BY <2>2, <2>6, ExchangesKept DEF Idle
      <3>2. Worth(k) = "live" /\ Worth(k)' = "spent"
        BY <2>3, <2>5, <2>6, <3>1 DEF Worth, CodeStatus, Live
      <3>3. \A l \in Code : l # k => Worth(l)' = Worth(l)
        BY <2>5, <2>6, <3>1, WorthStays
      <3>4. QED
        BY <2>2, <3>2, <3>3, CodeLapses
    <2>7. CASE Live(k) /\ Consumed(k) /\ req'[r] = Redeemed(r, k)
      <3>1. req'[r].pc = "mint" /\ req'[r].code = k
        BY <1>t, <2>1, <2>7 DEF Redeemed, TypeOK, Request
      <3>2. InExchange(k)' /\ \A l \in Code : l # k => (InExchange(l)' <=> InExchange(l))
        BY <2>2, <3>1 DEF InExchange
      <3>3. Worth(k)' = Worth(k)
        BY <2>3, <2>7, <3>2 DEF Worth
      <3>4. \A l \in Code : l # k => Worth(l)' = Worth(l)
        BY <2>5, <2>7, <3>2, WorthStays
      <3>5. QED
        BY <2>2, <3>3, <3>4, CodesStay
    <2>8. \/ code' = code /\ req'[r] = Idle
          \/ Live(k) /\ Consumed(k) /\ (req'[r] = Idle \/ req'[r] = Redeemed(r, k))
      BY <1>t, <1>2, <2>1 DEF ConsumeAuthCode, ConsumeAuthCodeFails, Finish, TypeOK
    <2>9. QED
      BY <2>4, <2>6, <2>7, <2>8
  <1>3. ASSUME NEW r \in Req, IssueToken(r) \/ IssueTokenFails(r)
        PROVE  [Tickets!Next]_(Tickets!vars)
    <2>1. PICK k \in Code : k = req[r].code
      BY <1>3 DEF Inv, Knows, IssueToken, IssueTokenFails
    <2>2. /\ req[r].pc = "mint" /\ req'[r] = Idle /\ code' = code
          /\ \A q \in Req : q # r => req'[q] = req[q]
      BY <1>t, <1>3 DEF IssueToken, IssueTokenFails, Finish, TypeOK
    <2>3. InExchange(k) /\ ~InExchange(k)'
      BY <1>t, <2>1, <2>2 DEF InExchange, OneExchange, Idle
    <2>4. \A l \in Code : l # k => (InExchange(l)' <=> InExchange(l))
      BY <2>1, <2>2 DEF InExchange, Idle
    <2>5. code[k].status = "taken"
      BY <2>3, ExchangedIsTaken
    <2>6. Worth(k) = "live" /\ Worth(k)' = "spent"
      BY <2>2, <2>3, <2>5 DEF Worth, CodeStatus, Live
    <2>7. \A l \in Code : l # k => Worth(l)' = Worth(l)
      BY <2>2, <2>4, WorthStays
    <2>8. CASE IssueTokenFails(r)
      <3>1. answers' = answers
        BY <2>8 DEF IssueTokenFails
      <3>2. QED
        BY <2>6, <2>7, <3>1, CodeLapses
    <2>9. CASE IssueToken(r)
      <3>1. answers' = [answers EXCEPT ![k] = @ + 1]
        BY <2>1, <2>9 DEF IssueToken
      <3>2. [l \in Code |-> Worth(l)]' = [[l \in Code |-> Worth(l)] EXCEPT ![k] = "spent"]
        BY <2>6, <2>7
      <3>3. Tickets!Use(k)
        BY <2>6, <3>1, <3>2 DEF Tickets!Use
      <3>4. QED
        BY <3>3 DEF Tickets!Next
    <2>10. QED
      BY <1>3, <2>8, <2>9
  <1>4. CASE Tick
    <2> DEFINE L == {k \in Code : Live(k) /\ code[k].ttl = 1}
    <2>1. ASSUME NEW k \in Code
          PROVE  /\ code'[k].status = code[k].status
                 /\ code'[k].ttl = Left(code[k].ttl)
                 /\ code[k].ttl \in Nat
                 /\ InExchange(k)' <=> InExchange(k)
      BY <1>t, <1>4, Lifetimes DEF Tick, TypeOK, CodeEntry, InExchange
    <2>2. ASSUME NEW k \in L
          PROVE  Worth(k) = "live" /\ Worth(k)' = "spent"
      <3>1. ~InExchange(k) /\ Live(k) /\ k \in Code /\ code'[k].ttl = 0
        BY <2>1, ExchangedIsTaken DEF Live, Left
      <3>2. QED
        BY <2>1, <3>1 DEF Worth, CodeStatus, Live
    <2>3. ASSUME NEW k \in Code, k \notin L
          PROVE  Worth(k)' = Worth(k)
      <3>1. CASE code[k].status = "stored"
        <4>1. code'[k].ttl > 0 <=> code[k].ttl > 0
          BY <2>1, <2>3, <3>1 DEF Live, Left
        <4>2. QED
          BY <2>1, <4>1, WorthStays
      <3>2. CASE code[k].status # "stored"
        BY <2>1, <3>2 DEF Worth, CodeStatus, Live
      <3>3. QED
        BY <3>1, <3>2
    <2>4. answers' = answers
      BY <1>4 DEF Tick
    <2>5. L \in SUBSET Code
      OBVIOUS
    <2> HIDE DEF L
    <2>6. QED
      BY <2>2, <2>3, <2>4, <2>5, CodesLapse
  <1>5. ASSUME NEW r \in Req, \/ Arrival(r) \/ StoreAuthCodeFails(r)
                              \/ RecordGrant(r) \/ RecordGrantFails(r)
        PROVE  [Tickets!Next]_(Tickets!vars)
    <2>1. /\ req[r].pc # "mint" /\ req'[r].pc # "mint" /\ answers' = answers
          /\ \A q \in Req : q # r => req'[q] = req[q]
      <3>1. CASE Arrival(r)
        BY <1>t, <3>1 DEF Arrival, Authorize, ValidateClient, TypeOK
      <3>2. CASE StoreAuthCodeFails(r) \/ RecordGrant(r) \/ RecordGrantFails(r)
        BY <1>t, <3>2 DEF StoreAuthCodeFails, RecordGrant, RecordGrantFails, Finish,
                          TypeOK, Idle
      <3>3. QED
        BY <1>5, <3>1, <3>2
    <2>2. \A k \in Code : InExchange(k)' <=> InExchange(k)
      BY <2>1, ExchangesKept
    <2>3. \A k \in Code : code'[k].status = code[k].status /\ code'[k].ttl = code[k].ttl
      <3>1. CASE Arrival(r) \/ StoreAuthCodeFails(r)
        BY <3>1 DEF Arrival, Authorize, ValidateClient, StoreAuthCodeFails
      <3>2. CASE RecordGrant(r)
        BY <1>t, <3>2 DEF RecordGrant, TypeOK, CodeEntry
      <3>3. CASE RecordGrantFails(r)
        BY <1>t, <3>3 DEF RecordGrantFails, TypeOK, CodeEntry
      <3>4. QED
        BY <1>5, <3>1, <3>2, <3>3
    <2>4. \A k \in Code : Worth(k)' = Worth(k)
      BY <2>2, <2>3, WorthStays
    <2>5. QED
      BY <2>1, <2>4, CodesStay
  <1>6. CASE \/ \E c \in Client : Admin(c)
             \/ \E u \in User, c \in Client : RevokeGrant(u, c)
             \/ UNCHANGED vars
    <2>1. req' = req /\ answers' = answers
      BY <1>6 DEF Admin, CreateClient, DeleteClient, UpdateClient, RevokeGrant, vars
    <2>2. \A k \in Code : code'[k].status = code[k].status /\ code'[k].ttl = code[k].ttl
      <3>1. code' = code \/ \E u \in User, c \in Client : RevokeGrant(u, c)
        BY <1>6 DEF Admin, CreateClient, DeleteClient, UpdateClient, vars
      <3>2. \A k \in Code : \/ code'[k] = code[k]
                            \/ code'[k] = [code[k] EXCEPT !.withdrawn = TRUE]
        BY <3>1 DEF RevokeGrant
      <3>3. \A k \in Code : code[k] \in CodeEntry
        BY <1>t DEF TypeOK
      <3>4. \A e \in CodeEntry : /\ [e EXCEPT !.withdrawn = TRUE].status = e.status
                                 /\ [e EXCEPT !.withdrawn = TRUE].ttl = e.ttl
        BY DEF CodeEntry
      <3>5. QED
        BY <3>2, <3>3, <3>4
    <2>3. \A k \in Code : InExchange(k)' <=> InExchange(k)
      BY <2>1 DEF InExchange
    <2>4. \A k \in Code : Worth(k)' = Worth(k)
      BY <2>2, <2>3, WorthStays
    <2>5. QED
      BY <2>1, <2>4, CodesStay
  <1>7. QED
    BY <1>1, <1>2, <1>3, <1>4, <1>5, <1>6 DEF Next, ServerStep

\* Authorization codes implement the abstract single-use ticket, requests that
\* fail after Redis deleted the key included.
THEOREM AuthorizationCodesAreTickets == Spec => AuthorizationCodesSingleUse
  <1>1. Init => Tickets!Init
    <2> SUFFICES ASSUME Init
                 PROVE  Tickets!Init
      OBVIOUS
    <2>1. \A k \in Code : ~InExchange(k)
      BY DEF Init, InExchange, Idle
    <2>2. \A k \in Code : Worth(k) = "unissued"
      BY <2>1 DEF Init, Worth, CodeStatus, Fresh, Live
    <2>3. QED
      BY <2>2 DEF Init, Tickets!Init
  <1>2. Inv /\ [Next]_vars => [Tickets!Next]_(Tickets!vars)
    BY TicketStep
  <1>3. QED
    BY <1>1, <1>2, ProviderInvariant, PTL
       DEF Spec, AuthorizationCodesSingleUse, Tickets!Spec

-----------------------------------------------------------------------------
(***************************************************************************)
(* The promise of the abstract ticket, told of the codes themselves.       *)
(***************************************************************************)
UnusedWhileLive ==
    \A k \in Code : IF Worth(k) = "spent" THEN answers[k] \in {0, 1} ELSE answers[k] = 0

LEMMA UnusedNext ==
    ASSUME TypeOK, UnusedWhileLive, [Tickets!Next]_(Tickets!vars)
    PROVE  UnusedWhileLive'
  <1> USE DEF UnusedWhileLive
  <1>1. answers \in [Code -> Nat]
    BY DEF TypeOK
  <1>2. ASSUME NEW k \in Code, Tickets!Use(k)
        PROVE  UnusedWhileLive'
    <2>1. /\ Worth(k) = "live" /\ answers' = [answers EXCEPT ![k] = @ + 1]
          /\ [l \in Code |-> Worth(l)]' = [[l \in Code |-> Worth(l)] EXCEPT ![k] = "spent"]
      BY <1>2 DEF Tickets!Use
    <2>2. \A l \in Code : Worth(l)' = [j \in Code |-> Worth(j)]'[l]
      OBVIOUS
    <2>3. Worth(k)' = "spent" /\ \A l \in Code : l # k => Worth(l)' = Worth(l)
      BY <2>1, <2>2
    <2>4. answers[k] = 0 /\ answers'[k] = 1 /\ \A l \in Code : l # k => answers'[l] = answers[l]
      BY <1>1, <2>1
    <2>5. QED
      BY <2>3, <2>4
  <1>3. ASSUME NEW Out \in SUBSET Code, NEW Gone \in SUBSET Code,
               Tickets!Turnover(Out, Gone)
        PROVE  UnusedWhileLive'
    <2>1. /\ \A l \in Out : Worth(l) = "unissued"
          /\ \A l \in Gone : Worth(l) = "live"
          /\ answers' = answers
      BY <1>3 DEF Tickets!Turnover
    <2>2. [l \in Code |-> Worth(l)]' =
             [l \in Code |-> CASE l \in Out -> "live"
                                [] l \in Gone -> "spent"
                                [] OTHER -> Worth(l)]
      BY <1>3 DEF Tickets!Turnover
    <2>3. ASSUME NEW l \in Code
          PROVE  Worth(l)' = CASE l \in Out -> "live"
                               [] l \in Gone -> "spent"
                               [] OTHER -> Worth(l)
      BY <2>2
    <2>4. QED
      BY <2>1, <2>3
  <1>4. CASE UNCHANGED Tickets!vars
    <2>1. answers' = answers /\ [l \in Code |-> Worth(l)]' = [l \in Code |-> Worth(l)]
      BY <1>4 DEF Tickets!vars
    <2>2. \A l \in Code : Worth(l)' = Worth(l)
      BY <2>1
    <2>3. QED
      BY <2>1, <2>2
  <1>5. QED
    BY <1>2, <1>3, <1>4 DEF Tickets!Next

\* No authorization code is worth two tokens, whoever presents it and however
\* often it is presented.
THEOREM AuthorizationCodesAnswerOnce == Spec => []Tickets!UsedAtMostOnce
  <1>1. Init => UnusedWhileLive
    <2> SUFFICES ASSUME Init
                 PROVE  UnusedWhileLive
      OBVIOUS
    <2>1. \A k \in Code : ~InExchange(k)
      BY DEF Init, InExchange, Idle
    <2>2. \A k \in Code : Worth(k) = "unissued" /\ answers[k] = 0
      BY <2>1 DEF Init, Worth, CodeStatus, Fresh, Live
    <2>3. QED
      BY <2>2 DEF UnusedWhileLive
  <1>2. UnusedWhileLive => Tickets!UsedAtMostOnce
    BY DEF UnusedWhileLive, Tickets!UsedAtMostOnce
  <1>3. TypeOK /\ UnusedWhileLive /\ [Tickets!Next]_(Tickets!vars) => UnusedWhileLive'
    BY UnusedNext
  <1>4. QED
    BY <1>1, <1>2, <1>3, ProviderTypeCorrect, AuthorizationCodesAreTickets, PTL
       DEF Spec, AuthorizationCodesSingleUse, Tickets!Spec

=============================================================================
