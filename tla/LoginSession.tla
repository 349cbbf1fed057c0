---------------------------- MODULE LoginSession ----------------------------
(***************************************************************************)
(* The life of a first-party session: a login reads the user's row and     *)
(* mints a JWT (a full one, or a temporary one when the row says MFA is    *)
(* on), hides it behind an exchange code in Redis, the browser redeems the *)
(* code, a temporary token is upgraded by an MFA challenge, every          *)
(* protected request passes the JWT middleware, and a logout puts the      *)
(* token on the Redis blacklist for the rest of its life.                  *)
(*                                                                         *)
(* A request is a goroutine: each call it makes to PostgreSQL or Redis is  *)
(* a step of its own and anything may happen between two steps, the clock  *)
(* included.  Time is kept as remaining lifetimes, so that a JWT is valid, *)
(* and a Redis key present, while its lifetime is positive.                *)
(***************************************************************************)
EXTENDS Naturals

CONSTANTS
    User,        \* users.id
    Req,         \* requests that can be in progress at the same time
    Token,       \* JWTs, each with a jti of its own
    Code,        \* login exchange codes (32 random bytes, never repeated)
    NoUser, NoToken,
    FullTTL,     \* lifetime of a full JWT (24 h)
    TempTTL,     \* lifetime of an MFA-pending JWT (5 min)
    CodeTTL,     \* lifetime of an exchange code (60 s)
    RedisFails   \* may a Redis call return an error?

ASSUME LoginAssumption ==
    /\ NoUser \notin User
    /\ NoToken \notin Token
    /\ {FullTTL, TempTTL, CodeTTL} \subseteq Nat \ {0}
    /\ CodeTTL <= TempTTL
    /\ TempTTL <= FullTTL
    /\ RedisFails \in BOOLEAN

VARIABLES
    mfaEnabled,  \* users.mfa_enabled
    token,       \* every JWT minted so far
    code,        \* token_exchange:<code>
    blacklist,   \* jwt_blacklist:<jti>, as the key's remaining TTL
    req,         \* requests in progress
    held,        \* tokens a client was sent, with what it was told of each
    answers,     \* history: responses that carried the token of each code
    revoked      \* history: tokens whose blacklisting Redis acknowledged to a
                 \* logout, which was then answered

vars == <<mfaEnabled, token, code, blacklist, req, held, answers, revoked>>

-----------------------------------------------------------------------------
Unissued ==
    [user |-> NoUser, pending |-> FALSE, ttl |-> 0, direct |-> FALSE,
     sawOff |-> FALSE]

Jwt == [user : User \cup {NoUser}, pending : BOOLEAN, ttl : 0..FullTTL,
        direct : BOOLEAN, sawOff : BOOLEAN]

CodeEntry == [status : {"fresh", "stored", "taken"},
              tok : Token \cup {NoToken}, ttl : 0..CodeTTL]

\* Routes behind JWTAuth, by what the handler does with the session.
Routes == {"me", "logout", "challenge"}
\* Of these, the ones also behind RequireFullJWT.
FullRoutes == {"me", "logout"}

Idle == [pc |-> "idle", route |-> "me", user |-> NoUser, tok |-> NoToken,
         mfa |-> FALSE, ttl |-> 0, sawOff |-> FALSE, late |-> FALSE]

\* sawOff and late are history: MFA was seen off for the user at some moment
\* of this login; the token had already been logged out when this request
\* arrived, and no error has kept Redis from saying so.
Request == [pc : {"idle", "issue", "blacklist", "handler", "upgrade", "revoke"},
            route : Routes, user : User \cup {NoUser},
            tok : Token \cup {NoToken}, mfa : BOOLEAN, ttl : 0..FullTTL,
            sawOff : BOOLEAN, late : BOOLEAN]

TypeOK ==
    /\ mfaEnabled \in [User -> BOOLEAN]
    /\ token \in [Token -> Jwt]
    /\ code \in [Code -> CodeEntry]
    /\ blacklist \in [Token -> 0..FullTTL]
    /\ req \in [Req -> Request]
    /\ held \subseteq [tok : Token, mfaRequired : BOOLEAN]
    /\ answers \in [Code -> Nat]
    /\ revoked \subseteq Token

Init ==
    /\ mfaEnabled \in [User -> BOOLEAN]
    /\ token = [t \in Token |-> Unissued]
    /\ code = [c \in Code |-> [status |-> "fresh", tok |-> NoToken, ttl |-> 0]]
    /\ blacklist = [t \in Token |-> 0]
    /\ req = [r \in Req |-> Idle]
    /\ held = {}
    /\ answers = [c \in Code |-> 0]
    /\ revoked = {}

-----------------------------------------------------------------------------
Valid(t) == token[t].user # NoUser /\ token[t].ttl > 0

\* GenerateToken and GenerateTempToken differ in the flag and the lifetime.
Mint(u, pending, direct, sawOff) ==
    [user |-> u, pending |-> pending,
     ttl |-> IF pending THEN TempTTL ELSE FullTTL,
     direct |-> direct, sawOff |-> sawOff]

Finish(r) == req' = [req EXCEPT ![r] = Idle]

-----------------------------------------------------------------------------
\* Login, first half: the social callbacks, the unified callback and the
\* e-mail OTP login all end up with a row of users read at this moment.
FindUser(r, u) ==
    /\ req[r].pc = "idle"
    /\ req' = [req EXCEPT ![r] = [Idle EXCEPT !.pc = "issue", !.user = u,
                                              !.mfa = mfaEnabled[u],
                                              !.sawOff = ~mfaEnabled[u]]]
    /\ UNCHANGED <<mfaEnabled, token, code, blacklist, held, answers, revoked>>

\* Mutant: the flag in the row is forgotten.
MfaAwareToken_FlagForgotten(r) ==
    Mint(req[r].user, FALSE, FALSE, req[r].sawOff)

\* generateMFAAwareToken: the row read earlier decides.
MfaAwareToken(r) ==
    Mint(req[r].user, req[r].mfa, FALSE, req[r].sawOff)

\* Login, second half: mint the token and store it behind an exchange code.
IssueLogin(r) ==
    /\ req[r].pc = "issue"
    /\ \E t \in Token, c \in Code :
          /\ token[t] = Unissued
          /\ code[c].status = "fresh"
          /\ token' = [token EXCEPT ![t] = MfaAwareToken(r)]
          /\ code' = [code EXCEPT ![c] = [status |-> "stored", tok |-> t,
                                          ttl |-> CodeTTL]]
    /\ Finish(r)
    /\ UNCHANGED <<mfaEnabled, blacklist, held, answers, revoked>>

\* No randomness for the jti or the code, or the Set fails: the browser is
\* redirected with an error and the token, which nobody has seen, is dropped.
IssueLoginFails(r) ==
    /\ req[r].pc = "issue"
    /\ Finish(r)
    /\ UNCHANGED <<mfaEnabled, token, code, blacklist, held, answers, revoked>>

\* Mutant: the user's row is asked instead of the token.
TellsMfaRequired_FromRow(t) == mfaEnabled[token[t].user]

\* What the response says of the token: MFA is still to come when the token
\* can be parsed, hence is unexpired, and is pending.
TellsMfaRequired(t) == Valid(t) /\ token[t].pending

\* Mutant: a plain GET, the key is left to its TTL.
ExchangeToken_GetOnly(c) ==
    /\ code[c].status = "stored" /\ code[c].ttl > 0
    /\ held' = held \cup {[tok |-> code[c].tok, mfaRequired |-> TellsMfaRequired(code[c].tok)]}
    /\ answers' = [answers EXCEPT ![c] = @ + 1]
    /\ UNCHANGED <<mfaEnabled, token, code, blacklist, req, revoked>>

\* GETDEL on the exchange code, atomic in Redis.
ExchangeToken(c) ==
    /\ code[c].status = "stored" /\ code[c].ttl > 0
    /\ code' = [code EXCEPT ![c].status = "taken", ![c].ttl = 0]
    /\ held' = held \cup {[tok |-> code[c].tok,
                           mfaRequired |-> TellsMfaRequired(code[c].tok)]}
    /\ answers' = [answers EXCEPT ![c] = @ + 1]
    /\ UNCHANGED <<mfaEnabled, token, blacklist, req, revoked>>

\* The reply of the GETDEL is lost: the key is gone and nobody got the token.
ExchangeReplyLost(c) ==
    /\ RedisFails
    /\ code[c].status = "stored" /\ code[c].ttl > 0
    /\ code' = [code EXCEPT ![c].status = "taken", ![c].ttl = 0]
    /\ UNCHANGED <<mfaEnabled, token, blacklist, req, held, answers, revoked>>

\* The logins that never ask generateMFAAwareToken: the full token goes
\* straight into the response.  A passkey assertion, or an approval on the
\* phone, is itself the second factor; the identity link relies on the register
\* number.  A push approval mints for the user in the challenge, whoever polls.
DirectLogin(u) ==
    /\ \E t \in Token :
          /\ token[t] = Unissued
          /\ token' = [token EXCEPT ![t] = Mint(u, FALSE, TRUE, FALSE)]
          /\ held' = held \cup {[tok |-> t, mfaRequired |-> FALSE]}
    /\ UNCHANGED <<mfaEnabled, code, blacklist, req, answers, revoked>>

PasskeyLoginFinish(u) == DirectLogin(u)
ConfirmIdentityLink(u) == DirectLogin(u)
GetQRStatus(u) == DirectLogin(u)
GetPushChallengeStatus(u) == DirectLogin(u)

-----------------------------------------------------------------------------
\* JWTAuth, up to ValidateToken: signature and expiry of a token the client
\* was sent.  An expired one is refused and changes nothing.
Authenticate(r, t, route) ==
    /\ req[r].pc = "idle"
    /\ \E h \in held : h.tok = t
    /\ Valid(t)
    /\ req' = [req EXCEPT ![r] = [Idle EXCEPT !.pc = "blacklist", !.tok = t,
                                              !.route = route,
                                              !.late = t \in revoked]]
    /\ UNCHANGED <<mfaEnabled, token, code, blacklist, held, answers, revoked>>

\* Mutant: the middleware stops at ValidateToken.
Admissible_Unchecked(r) == TRUE

\* IsBlacklisted, when Redis answers: the key is there or it is not.
Admissible(r) == blacklist[req[r].tok] = 0

Refusable(r) == blacklist[req[r].tok] > 0

\* RequireFullJWT, on the routes that have it.
FullEnough(r) == req[r].route \in FullRoutes => ~token[req[r].tok].pending

\* The rest of JWTAuth, then RequireFullJWT.
Admit(r) ==
    /\ req[r].pc = "blacklist"
    /\ Admissible(r)
    /\ FullEnough(r)
    /\ req' = [req EXCEPT ![r].pc = "handler"]
    /\ UNCHANGED <<mfaEnabled, token, code, blacklist, held, answers, revoked>>

\* The lookup of the blacklist fails: an error counts as "not blacklisted".
AdmitUnchecked(r) ==
    /\ RedisFails
    /\ req[r].pc = "blacklist"
    /\ FullEnough(r)
    /\ req' = [req EXCEPT ![r].pc = "handler", ![r].late = FALSE]
    /\ UNCHANGED <<mfaEnabled, token, code, blacklist, held, answers, revoked>>

Refuse(r) ==
    /\ req[r].pc = "blacklist"
    /\ Refusable(r) \/ ~FullEnough(r)
    /\ Finish(r)
    /\ UNCHANGED <<mfaEnabled, token, code, blacklist, held, answers, revoked>>

\* A handler that only uses the session (Me stands for all of them).
Serve(r) ==
    /\ req[r].pc = "handler" /\ req[r].route = "me"
    /\ Finish(r)
    /\ UNCHANGED <<mfaEnabled, token, code, blacklist, held, answers, revoked>>

-----------------------------------------------------------------------------
\* The MFA challenge endpoints (TOTP, passkey, recovery code): either
\* the factor is refused, or the handler goes on to mint a full token.
FactorRefused(r) ==
    /\ req[r].pc = "handler" /\ req[r].route = "challenge"
    /\ Finish(r)
    /\ UNCHANGED <<mfaEnabled, token, code, blacklist, held, answers, revoked>>

FactorAccepted(r) ==
    /\ req[r].pc = "handler" /\ req[r].route = "challenge"
    /\ req' = [req EXCEPT ![r].pc = "upgrade"]
    /\ UNCHANGED <<mfaEnabled, token, code, blacklist, held, answers, revoked>>

\* GenerateToken for the claims' subject.  The temporary token stays valid.
Upgrade(r) ==
    /\ req[r].pc = "upgrade"
    /\ \E t \in Token :
          /\ token[t] = Unissued
          /\ token' = [token EXCEPT ![t] =
                          Mint(token[req[r].tok].user, FALSE, TRUE, FALSE)]
          /\ held' = held \cup {[tok |-> t, mfaRequired |-> FALSE]}
    /\ Finish(r)
    /\ UNCHANGED <<mfaEnabled, code, blacklist, answers, revoked>>

UpgradeFails(r) ==
    /\ req[r].pc = "upgrade"
    /\ Finish(r)
    /\ UNCHANGED <<mfaEnabled, token, code, blacklist, held, answers, revoked>>

-----------------------------------------------------------------------------
\* Logout: BlacklistToken computes the TTL from the clock ...
BeginLogout(r) ==
    /\ req[r].pc = "handler" /\ req[r].route = "logout"
    /\ req' = [req EXCEPT ![r].pc = "revoke", ![r].ttl = token[req[r].tok].ttl]
    /\ UNCHANGED <<mfaEnabled, token, code, blacklist, held, answers, revoked>>

\* Mutant: the TTL loses a unit to rounding.
BlacklistToken_RoundedDown(r) ==
    blacklist' = IF req[r].ttl = 0 THEN blacklist
                 ELSE [blacklist EXCEPT ![req[r].tok] = req[r].ttl - 1]

\* Mutant: the TTL is rounded up past the longest lifetime.
BlacklistToken_RoundedUp(r) ==
    blacklist' = IF req[r].ttl = 0 THEN blacklist
                 ELSE [blacklist EXCEPT ![req[r].tok] = req[r].ttl + 1]

\* ... and sets the key with it, unless the token expired meanwhile.
BlacklistToken(r) ==
    blacklist' = IF req[r].ttl = 0 THEN blacklist
                 ELSE [blacklist EXCEPT ![req[r].tok] = req[r].ttl]

EndLogout(r) ==
    /\ req[r].pc = "revoke"
    /\ BlacklistToken(r)
    /\ revoked' = revoked \cup {req[r].tok}
    /\ Finish(r)
    /\ UNCHANGED <<mfaEnabled, token, code, held, answers>>

\* The Set fails, before or after Redis stored the key: the error is logged
\* and the client is told the same.
EndLogoutFails(r) ==
    /\ RedisFails
    /\ req[r].pc = "revoke"
    /\ BlacklistToken(r) \/ UNCHANGED blacklist
    /\ Finish(r)
    /\ UNCHANGED <<mfaEnabled, token, code, held, answers, revoked>>

-----------------------------------------------------------------------------
\* The MFA handlers switch users.mfa_enabled; logins in progress may notice.
SetMfaEnabled(u, b) ==
    /\ mfaEnabled[u] # b
    /\ mfaEnabled' = [mfaEnabled EXCEPT ![u] = b]
    /\ req' = [r \in Req |->
                  IF req[r].pc = "issue" /\ req[r].user = u /\ ~b
                  THEN [req[r] EXCEPT !.sawOff = TRUE]
                  ELSE req[r]]
    /\ UNCHANGED <<token, code, blacklist, held, answers, revoked>>

Left(n) == IF n = 0 THEN 0 ELSE n - 1

\* One unit of time passes; Redis drops the keys whose TTL runs out.
Tick ==
    /\ \/ \E t \in Token : token[t].ttl > 0 \/ blacklist[t] > 0
       \/ \E c \in Code : code[c].ttl > 0
    /\ token' = [t \in Token |-> [token[t] EXCEPT !.ttl = Left(@)]]
    /\ code' = [c \in Code |-> [code[c] EXCEPT !.ttl = Left(@)]]
    /\ blacklist' = [t \in Token |-> Left(blacklist[t])]
    /\ UNCHANGED <<mfaEnabled, req, held, answers, revoked>>

ServerStep(r) ==
    \/ IssueLogin(r) \/ IssueLoginFails(r)
    \/ Admit(r) \/ AdmitUnchecked(r) \/ Refuse(r) \/ Serve(r)
    \/ FactorRefused(r) \/ FactorAccepted(r)
    \/ Upgrade(r) \/ UpgradeFails(r)
    \/ BeginLogout(r) \/ EndLogout(r) \/ EndLogoutFails(r)

Next ==
    \/ \E r \in Req, u \in User : FindUser(r, u)
    \/ \E r \in Req, t \in Token, route \in Routes : Authenticate(r, t, route)
    \/ \E r \in Req : ServerStep(r)
    \/ \E c \in Code : ExchangeToken(c) \/ ExchangeReplyLost(c)
    \/ \E u \in User :
          \/ PasskeyLoginFinish(u) \/ ConfirmIdentityLink(u)
          \/ GetQRStatus(u) \/ GetPushChallengeStatus(u)
    \/ \E u \in User, b \in BOOLEAN : SetMfaEnabled(u, b)
    \/ Tick

Spec == Init /\ [][Next]_vars

-----------------------------------------------------------------------------
\* A token whose logout reached Redis stays on the blacklist for as long as it
\* would otherwise be accepted (BlacklistToken's TTL is the token's own),
\* whatever later logouts of the same token do to the key, failing ones too.
RevokedStaysOut ==
    \A t \in revoked : token[t].ttl > 0 => blacklist[t] > 0

\* A request that arrives after its token's logout reached Redis gets to a
\* handler in two cases only, however the steps of the two requests interleave
\* with the clock: its own lookup of the blacklist failed; or the token, and
\* the key with it, ran out between ValidateToken and IsBlacklisted.
NoLateAdmission ==
    \A r \in Req :
        /\ req[r].late
        /\ req[r].pc \notin {"idle", "blacklist"}
        => token[req[r].tok].ttl = 0

\* What exchange-token told the client about a token is what the token is:
\* the code cannot outlive the temporary token it hides.
MfaRequiredTruthful ==
    \A h \in held : h.mfaRequired <=> token[h.tok].pending

\* A full token that generateMFAAwareToken minted belongs to a login during
\* which MFA really was off for that user: the row it decides on may be stale
\* by the time the token exists, but it was right once in this very login.
MfaHonoured ==
    \A t \in Token :
        /\ token[t] # Unissued
        /\ ~token[t].pending
        /\ ~token[t].direct
        => token[t].sawOff

\* The exchange codes are single-use.
CodeStatus(c) ==
    CASE code[c].status = "fresh" -> "unissued"
      [] code[c].status = "stored" /\ code[c].ttl > 0 -> "live"
      [] OTHER -> "spent"

Tickets == INSTANCE SingleUse WITH
    Ticket <- Code, status <- [c \in Code |-> CodeStatus(c)], uses <- answers

ExchangeCodesSingleUse == Tickets!Spec

-----------------------------------------------------------------------------
(***************************************************************************)
(* What makes the invariants above inductive.                              *)
(***************************************************************************)
Issued(t) == token[t].user # NoUser

\* Every reference to a token is to one that has been minted, and an entry
\* of token that has not been minted is blank.
Referenced ==
    /\ \A t \in Token : Issued(t) \/ token[t] = Unissued
    /\ \A r \in Req :
          /\ req[r].pc = "issue" => req[r].user \in User
          /\ req[r].pc \in {"blacklist", "handler", "upgrade", "revoke"}
             => req[r].tok \in Token /\ Issued(req[r].tok)
    /\ \A c \in Code : code[c].status = "stored"
                         => code[c].tok \in Token /\ Issued(code[c].tok)
    /\ \A h \in held : Issued(h.tok)
    /\ \A t \in revoked : Issued(t)

\* A code's key never outlives the token behind it.
CodesWithinTokens ==
    \A c \in Code : code[c].status = "stored"
                    => code[c].ttl <= token[code[c].tok].ttl

\* The TTL a logout is about to use, and the one it used, cover what is left
\* of the token.
BlacklistCovers ==
    /\ \A t \in revoked : token[t].ttl <= blacklist[t]
    /\ \A r \in Req : req[r].pc = "revoke"
                       => token[req[r].tok].ttl <= req[r].ttl

LateAreKnown ==
    \A r \in Req : /\ req[r].late
                   /\ req[r].pc # "idle"
                   => req[r].tok \in revoked

\* A login that will mint a full token has seen MFA off.
FullLoginSawOff ==
    \A r \in Req : req[r].pc = "issue" /\ ~req[r].mfa => req[r].sawOff

=============================================================================
