# A TLA+ model of Gerege SSO

Gerege SSO is a single-sign-on service: a Go backend (`src/backend`, gin, PostgreSQL, Redis), a
Next.js front end, and the deployment around them. Users sign in with Google, Apple, Facebook, X,
an e-mailed one-time password, a passkey, a QR code or a push approval; MFA upgrades a temporary
token; third-party applications sign users in through an OAuth 2.0 provider; documents are signed
in signing sessions.

Every request is a goroutine that makes a handful of calls to PostgreSQL and Redis, almost never
inside a transaction. Between two of its calls any other request may run, the clock may move, a
key may expire, the process may die. That is where this code is hard to test, and it is what the
modules here model: **one step per call, one module per component**.

## 1. Inventory

| Component | Source (`src/backend/`) | State | Operations | Module |
|---|---|---|---|---|
| First-party session | `handlers/auth.go`, `services/jwt.go`, `middleware/jwt.go` | JWTs, `token_exchange:<code>`, `jwt_blacklist:<jti>`, `users.mfa_enabled` | login callbacks, exchange, middleware, MFA upgrade, logout | `LoginSession` |
| Second factors | `services/totp.go`, `passkey.go`, `push_auth.go`, `mfa_settings.go`, `handlers/mfa.go` | `user_totp`, `webauthn_credentials`, `user_devices`, `user_mfa_settings`, `users.mfa_enabled`, `webauthn_reg`, `webauthn_auth` and `webauthn_login` keys | set up, verify and disable TOTP; enrol and remove passkeys and devices; begin and finish the three passkey ceremonies | `MfaFactors`, `Passkeys` |
| Recovery codes | `services/recovery.go` | `mfa_recovery_codes` | regenerate, validate | `RecoveryCodes`, `RecoveryGate` |
| One-time passwords | `handlers/auth.go` | `email_otp`, `phone_otp` and their cooldown keys | send, verify (e-mail login, phone check) | `OneTimePassword` |
| OAuth 2.0 provider | `handlers/oauth_provider.go`, `services/client.go`, `grant.go`, `jwt.go` | `oauth_clients`, `oauth_code:<code>`, `user_grants`, third-party tokens | authorize, token, revoke, client administration | `OAuthProvider` |
| Push challenges | `services/push_auth.go`, `handlers/mfa.go` | `push_challenge:<id>` | send, approve, deny, poll | `PushChallenge` |
| QR login | `services/qr_login.go`, `handlers/mfa.go` | `qr_session:<uuid>`, `qr_login_sessions` | generate, scan, approve, poll | `QrLogin` |
| Digital signing | `services/gesign.go`, `handlers/sign.go` | `signing_sessions`, `sign_session:<id>`, `signing_logs` | create, approve, deny, complete, status | `SignSession` |
| WebSocket hub | `services/ws_hub.go`, `handlers/sign.go` | connections by session | register, unregister, broadcast | in `SignSession` |
| Social login | `handlers/auth.go`, `services/{oauth,apple,facebook,twitter}.go` | `oauth_state:<state>`, `pending_link:<gen_id>` | login, callback, confirm link | `Accounts` |
| Users and citizens | `services/user.go`, `identity.go`, `genid.go`, `gerege_core.go` | `users` with unique provider columns, `citizens`, verification level | find, create, link provider, `LinkCitizen`, DAN, raise level | `Accounts` |
| e-ID cards | `services/eid.go`, `handlers/eid.go` | `eid_cards`, `eid_audit_log`, e-ID columns of `citizens`, verification level | verify, register, revoke, status, history | `EidCards` |
| Rate limiter | `middleware/ratelimit.go` | sorted set per route and address | one pipeline per request | `RateLimit` |
| Logging, metrics, audit, health, CORS, security headers, admin check | `middleware/*`, `services/{audit,mfa_audit,apilog}.go` | append-only tables | write or read only | not modelled: nothing else reads it back |
| Mail, configuration, start-up | `services/email.go`, `config/`, `main.go` | none | pure I/O | not modelled |
| Front end | `src/frontend` | browser storage | any request at any time | environment |
| Deployment, generated docs | `src/nginx`, `src/monitoring`, `docs/` | none | | not modelled |

**Interaction.** The components meet in these places. `users.mfa_enabled` is written by
`MfaFactors` and read by the login of `LoginSession` (there it may change at any moment). The
tokens minted by a push approval, a QR approval, a passkey or a confirmed link are the
`DirectLogin` actions of `LoginSession`. The OAuth provider's Authorize accepts a valid
first-party token; from the code on it has no further connection with that session. A card
verification (`EidCards`) writes the rows of `Accounts`, and is modelled on top of them. A login of
`Accounts` ends where a login of `LoginSession` begins: with the users row it found. The rate
limiter stands in front of every `/auth` route; it is composed with the route for which it is the
only bound on guesses, the validation of recovery codes. The hub carries what a signing session
publishes and is modelled with it. Pollers (the
front end polls a QR session every two seconds for up to five minutes) are requests like any
other.

**Hard behaviours and what correctness means** are in `PROJECT.json` under `hazards`, each at its
line with the properties that watch it. In short:

* *read, then write*: a status, a code or a row is read by one call and acted on by a later one
  (one-time passwords, recovery codes, QR, push and signing sessions, TOTP verification);
* *single use*: exchange codes, authorization codes, one-time passwords, recovery codes;
* *two stores*: key and row, cache and row, flag and tables must end up agreeing;
* *expiry*: a token, a blacklist entry, a code, a hash runs out between two calls, and a Redis
  `HSET` brings back a hash that has gone;
* *partial failure*: Redis or PostgreSQL returns an error half way, sometimes ignored by the code;
* *draining*: what is already running when a token is logged out or a client deactivated.

## 2. Modules and how they correspond to the code

Conventions, the same everywhere. A request is an element of `Req` (or `Sender`, `Verifier`) with
a program counter `pc` and the local variables later calls use. Each action is one call to
PostgreSQL or Redis together with the code around it that touches nothing shared. Checks that
refuse a request and change nothing are the guards: a refused request is the absence of a step.
Time is a count of remaining lifetime; `Tick` takes one unit from every lifetime and drops keys
that reach zero. Identifiers with 128 or more random bits are model values that are never
repeated. Variables marked *history* in a module are written, never read, by the actions; only
properties look at them. Definitions whose name ends in `_Something` are variants of the
definition after them with a plausible bug; they are not part of the specification and serve to
show that the properties notice it.

**SingleUse** — the abstract specification: a ticket is issued once, then used by at most one
request or lapses. `LoginSession`, `OAuthProvider` and `RecoveryCodes` instantiate it with a
refinement mapping from their own keys and rows.

**LoginSession** — `FindUser` is the moment a callback reads the users row; `IssueLogin` mints
(`generateMFAAwareToken`) and stores the exchange code; `ExchangeToken` is the GETDEL;
`Authenticate` and `Admit`/`Refuse` are the two halves of `JWTAuth` plus `RequireFullJWT`; the
challenge route stands for the TOTP, passkey and recovery-code challenges, whose own state is in
other modules; `BeginLogout` computes the TTL and `EndLogout` sets the blacklist key. With
`RedisFails`, replies are lost, writes fail, and `IsBlacklisted` answers "no" to an error, as the
code does.

**MfaFactors** — one user, one action per SQL statement of `SetupTOTP`, `VerifyTOTPSetup`,
`DisableTOTP`, `FinishRegistration`, `DeletePasskey`, `RegisterDevice`, `RemoveDevice` and the
generation of recovery codes that follows a verification, any number of requests at a time. The
recovery codes are none, some left, or all used: `UseLastCode` is the validation that marks the last
one (the whole of it is in `RecoveryCodes`), `RegenerateCodes` draws new ones. `Abort` is an error the
handler returns or the death of the request, `Ignore` an error it drops. Three histories record what the
properties except: `failed`, `raced` (a removal has met another request), `overtaken` (secrets a set-up
stored while a verification was between its check and its UPDATE).

**Passkeys** — extends `MfaFactors` with the ceremonies: the begin (for a second factor, a look at
the credentials, then the SET), the GET and the DEL of a finish, the verdict on the credentials as
they are then, the token. A finished registration is the enrolment of `MfaFactors`. The WebAuthn
library is external: it accepts only an answer to the challenge it is handed, with a credential it
is handed, and may refuse any. `Loads` lists which operations meet in one behaviour.

**RecoveryCodes** — `BeginGenerate`/`CommitGenerate` are the DELETE and the COMMIT of a READ
COMMITTED transaction (rows locked in between); several may be open at once, and `met` records the pairs
that were. `SelectCode` and `MarkUsed` are the two statements of a validation.

**RateLimit** — the clock is read, then ZREMRANGEBYSCORE, ZCARD, ZADD and EXPIRE, each a step of
its own because the pipeline is no transaction; the count before the ZADD decides. The sorted set is
a set of moments: the time is the score, and a second number the nanoseconds that make every member
another one. An emptied set loses its key and its time to live. `LimitSpec` is the middleware in front
of a handler it cannot look into. **RecoveryGate** composes it with `RecoveryCodes`: a validation
goes through the limiter first, a wrong guess leaves nothing else behind.

**OneTimePassword** — cooldown lookup, store, cooldown set, delivery of the message; read, count, delete
or write back, answer. `flow`, chosen in `Init` and never changed, selects the e-mail or the phone
handler, which delete an accepted code before and after the step it protects; a login, or a raise of the
level, is counted when it is made. Every call to Redis may fail, which no handler notices: a SET, a DEL
or a TTL that fails is a write that never happens (`lost` counts them by code), a failing GET of the
cooldown an absent key (`lax` records it). `Deliver` is the SMTP call, which takes time of its own (the
phone handler has no such call yet; there it is the answer). A request may die after any step.

**OAuthProvider** — Authorize (client check, `StoreAuthCode`, `CreateOrUpdateGrant`), Token
(`ValidateClient`, `ConsumeAuthCode` as GETDEL, redirect URI and PKCE, token), `RevokeGrant`, and
the administration of clients. The userinfo endpoint reads the token only and is left out. That
Authorize requires a session is not repeated here.

**PushChallenge** — the hash and its commands: HSET and EXPIRE of a new challenge, check and HSET
of an answer, HGETALL of a poll. An HSET on a missing hash creates one with a single field and no
TTL, as Redis does. Every write may fail (`Write`), and the request goes on and answers as if it had
not: a denial that was not written leaves the challenge pending.

**QrLogin** — row, then key; GET and SET of an approval; GET, TTL and SET of a scan; the row
after each. The approval lasts two minutes, as `ApprovedTTL`.

**SignSession** — row, cache and log; SELECT, UPDATE by ID and HSET of each decision, and the
four calls of a completion. An HSET may fail, which is not noticed, and a request may die between the
UPDATE, the HSET and the broadcast (`RequestDies`); `uncached` are the sessions whose last update never
reached the cache. `expires_at` is the row's `ttl`. After the HSET the status is broadcast to
the connections of the session; a connection registers, reads the status, writes it, and waits.
A broadcast that meets a connection whose handler is writing panics (`BroadcastPanics`: the
WebSocket library bears one writer at a time) with some connections served. The certificate check is a read of a
table nothing in the backend writes here, so only completions that pass it appear.

**Accounts** — four social logins with the state they check (GET, then DEL) and the user they find,
match by e-mail, or create; the login by e-mail; `ConfirmIdentityLink`, which ties a waiting
account to a user who names the citizen; `LinkCitizen` as one transaction whose locks hold until
its COMMIT; DAN; and the guarded raise of the verification level. A row of `users` is in use once
it has an e-mail; its provider columns are a set of accounts, one of each provider, each in one row
(the unique indices). `tied` records by which right an account belongs to a user: it was made from it, or
a confirmation named the citizen the user has, or gave the user a first one. A confirmation whose
`LinkCitizen` replaces another citizen (`users.citizen_id` is written without a condition) ties nothing and
is recorded in `relinked`.

**EidCards** — extends `Accounts` with the statements of a card verification (citizen, level,
metadata), the registration and revocation of cards, and the audit entry each writes afterwards,
whose error is ignored.

`MC<Module>` adds the symmetry sets for TLC; each `.cfg` is one question.

## 3. Runs

`CHECK_DEADLOCK FALSE` in every configuration: the sets of tokens, codes and sessions are finite
and once they are used up and everything has expired the model has nothing left to do. The
program never stops on that account. Symmetry sets are used in runs without liveness; where such a run
checks a refinement (`login`), the refinement mapping and the abstract specification treat the permuted
values alike.

| Run | Instance | Shows |
|---|---|---|
| `login` | 1 user, 2 requests, 2 tokens, 2 codes, Redis failing | a logged-out token is on the blacklist as long as it lives (`RevokedStaysOut`); a request that arrives after the logout is let into no handler by a blacklist that answers (`NoLateAdmission`); what the client is told is what the token is (`MfaRequiredTruthful`); a full token belongs to a login during which MFA was off (`MfaHonoured`); exchange codes implement `SingleUse` |
| `mfa_factors` | 2 requests that change factors, 2 secrets, 2 items, 2 tabs, 2 challenges, failing statements, codes used up and regenerated | a secret that is on was proved, or stored by a set-up that overtook a verification (`ProvenUnlessOvertaken`), failures or not; until a statement fails or a removal meets another request, flag, summary row and tables agree between requests and a user asked for a factor has a way in (`WayIn`), unless she has used up her codes and begun the set-up anew; a passkey removed before a finish completes no ceremony begun earlier (`RemovedPasskeyStaysOut`); a challenge is answered once (`ChallengeAnsweredOnce`) |
| `recovery` | 2 requests, 2 batches of 1, a limiter of 2 per window whose pipelines may fail | codes of two batches are usable together only if their regenerations overlapped (`OneBatch`); a code that let somebody in is spent (`AcceptedIsSpent`); the guesses that the count lets through in a window exceed the limit by overlapping requests only (`GuessesLimited`), those let through by a failing pipeline are not counted |
| `otp` | 2 senders, 2 verifiers, 2 codes, both flows, failing calls, dying requests | a code no two verifications held at once is good for one login or raise, and one more for each deletion that was lost (`OtpUsedOnce`); its guesses are bounded, likewise (`GuessesBounded`); two messages of sends that do not overlap lie the cooldown apart, less what the first took to go out (`CooldownHolds`) |
| `oauth_clients` | 2 clients, 2 URIs, 2 requests | a token goes only to the client, URI and verifier the approval named (`RedeemedAsBound`) |
| `oauth_grants` | 1 client, 2 codes, failing calls, fair handlers | codes implement `SingleUse`; a recorded grant is listed while its code or token is good (`AppsAreListed`); requests of a client deactivated for good drain (`DeactivationTakesHold`) |
| `push` | 3 requests, 2 challenges, failing writes, dying requests | a token comes from a challenge whose number somebody named while it was pending; a hash that comes back after its expiry admits nobody; a denial that was written stands, unless an approval was past its check by then (`DenialStands`) |
| `qr` | 3 requests, 2 users, failing writes | the page is signed in only as a user who approved that session; undisturbed sessions have one approver, keep their approval, and key and row agree |
| `sign` | 2 requests, 2 connections, 1 session, 2 users, failing statements, cache writes and broadcasts, dying requests | a signature is logged only in a session its owner approved; an undisturbed session is decided once, signed once while approved, and reports the status of its row, or, while its last update is missing from the cache, one it had before (`StatusIsTrue`); a browser that stays connected has been told it (`NobodyMissesTheStatus`) |
| `accounts` | 2 requests, 2 users, 4 accounts, 2 citizens, 2 states, 1 card, 8 mixes of operations, failing calls | nobody enters by an identity that is not theirs, except by a confirmation that replaced a citizen linked after its check (`LoginsAreTied`); a used state or another provider's admits no callback (`StatesGuardCallbacks`); the verified are those with a citizen (`VerifiedHasCitizen`); the level is that of the best check passed (`LevelIsBestProof`); an e-ID answer stands for all its statements (`EidAnswerHolds`); a card is revoked once (`RevokedOnce`) |
| `recovery_replay` | 2 requests, 1 code | *violation* of `CodesSingleUse`: two validations select the same unused row (`recovery.go:130`) |
| `mfa_secret_race` | 2 requests, 2 secrets | *violation* of `EnabledSecretProven`: a set-up during a verification (`totp.go:167`) |

Every module states its type invariant, `TypeOK` (with a prefix where two modules are extended together). The run `login` checks it, and section 4 proves it of
`LoginSession`, `PushChallenge`, `QrLogin`, `SignSession`, `RecoveryCodes`, `RateLimit`, `OAuthProvider`, `Accounts`,
`EidCards`, `MfaFactors`, `Passkeys` and `OneTimePassword`.

### Conditional properties

Several promises of the code hold for any sequence of calls and fail when two requests overlap on
the same object or a statement fails half way. They are stated so that both facts are visible: a
history variable records that the object was overlapped on or a write lost, and the property
speaks about the objects to which that has not happened, while everything else in the instance
(other objects, the clock, dying requests) interleaves freely.

| History variable | Records | Conditions |
|---|---|---|
| `MfaFactors!failed` | a statement failed, its error was dropped, or the request died | `FlagFollowsSettings`, `SettingsFollowTables`, `WayIn` |
| `MfaFactors!raced` | a removal and another request were at work at once | the same three |
| `MfaFactors!overtaken` | secrets stored while a verification was between check and UPDATE | `ProvenUnlessOvertaken` |
| `RecoveryCodes!met` | pairs of regenerations that overlapped | `OneBatch` |
| `OneTimePassword!contested` | codes two verifications worked on at once | `OtpUsedOnce`, `GuessesBounded` |
| `OneTimePassword!lost` | counts and deletions never written, by code: each allows one more | `OtpUsedOnce`, `GuessesBounded` |
| `OneTimePassword!lax` | a GET or SET of the cooldown failed | `CooldownHolds` |
| `PushChallenge!crossed` | challenges with an approval past its check when the denial was written | `DenialStands` |
| `OAuthProvider!code[..].listed`, `.withdrawn` | the grant was recorded; was revoked since | `AppsAreListed` |
| `QrLogin!disturbed` | sessions two requests changed at once, or a write of which failed | `OneApprover`, `ApprovalSticks`, `RowFollowsKey` |
| `SignSession!disturbed` | likewise | `DecidedOnce`, `SignedWhileApproved`, `StatusIsTrue`, `NobodyMissesTheStatus` |
| `SignSession!uncached` | sessions whose last update never reached the cache | `StatusIsTrue` (says which older status may be shown), `NobodyMissesTheStatus` |
| `SignSession!unheard` | sessions of which a broadcast panicked or never came, or a status could not be read | `NobodyMissesTheStatus` |
| `Passkeys!disturbed` | challenges two finishes got before either deleted them, or whose deletion failed | `ChallengeAnsweredOnce` |
| `RateLimit!slow` | time passed during a pipeline | `GuessesLimited` (which counts nobody that a failing pipeline let through) |
| `Accounts!relinked` | confirmations that replaced another citizen of the user | `LoginsAreTied` |
| `Accounts!spent`, `.faulty` | states whose deletion was acknowledged; users whose level was not written after a check | `StatesGuardCallbacks`; `LevelIsBestProof` |

`WayIn` also excepts one state by name, `BeganAnewWithoutCodes`: all codes are used and the TOTP set-up has
been begun anew. `TokensWereMatched`, `ExpiredNeverAdmits`, `TokensWereApproved`, `SignedWasApproved`,
`RedeemedAsBound`, `MfaHonoured`, `AcceptedIsSpent`, `VerifiedHasCitizen`, `EidAnswerHolds`, `RevokedOnce` and
`RemovedPasskeyStaysOut` carry no such condition.

### Where the unconditional promise stops holding

The first two rows are the violation runs. Of the others, those whose property has a condition in
the table above come back as counterexamples when the condition is dropped; the rest are visible as
steps of the models, which take them as the code does.

| Promise | What happens | Where |
|---|---|---|
| "single-use" recovery codes (`recovery.go:105`) | SELECT and an UPDATE without a condition: two validations accept one code | `services/recovery.go:130` |
| "validates the code, sets is_enabled" (`totp.go:127`) | the UPDATE enables the secret the row holds by then | `services/totp.go:167` |
| logout blacklists the token (`handlers/auth.go:531`) | a failing Redis write is logged and answered as a success, and a failing read counts as "not blacklisted" (`AdmitUnchecked`) | `handlers/auth.go:545`, `services/jwt.go:259` |
| MFA is looked up at the exchange (`gerege_sso_architect.mmd:703-706`) | it is looked up at login; the exchange only reports what the token says | `handlers/auth.go:222`, `298` |
| `users.mfa_enabled` follows the factors (`passkey.go:264`, `totp.go:242-244`) | a removal meets another request: an enrolment's own UPDATE runs after the recomputation (`raced`) | `services/passkey.go:174`, `totp.go:268-287` |
| a set-up is kept apart until verified (`gerege_sso_architect.mmd:795-809`) | `SetupTOTP` switches off the authenticator in use at once; a user whose recovery codes are all used has no way in until she finishes it (`BeganAnewWithoutCodes`) | `services/totp.go:106`, `recovery.go:128-132` |
| "replacing any existing codes" (`recovery.go:54`) | two regenerations' DELETEs miss each other's INSERTs (`met`) | `services/recovery.go:63` |
| one-time passwords: single use, five guesses, 60 s apart (`auth.go:1769`, `gerege_sso_architect.mmd:1267`, `auth.go:1663`) | GET and a later DEL, SET, SET (two verifiers on one code; two senders at once) | `handlers/auth.go:1770`, `1760`, `1665` |
| the same | the level is raised before the DEL: a death in between, or a DEL that fails, leaves the code good (`lost`) | `handlers/auth.go:1623-1630`, `1770` |
| 60 s between messages | the key is set before the SMTP call, which may take its time (`send[s].age`) | `handlers/auth.go:1683-1692` |
| revoked access lasts "1 hour max" (`sso_connect.md:446-450`) | a code stored before the revocation is redeemed after it and its hour starts then | `services/grant.go:84` |
| users can view the access they granted (`sso_connect.md:444`) | an upsert that fails is logged and the code handed out | `handlers/oauth_provider.go:191` |
| a denied challenge "already denied" (`push_auth.go:112-113`) | HGETALL and a later HSET: an approval that passed its check before the denial overwrites it (`crossed`) | `services/push_auth.go:123` |
| the same | a denial whose HSET fails is answered as if written, and the challenge can still be approved | `services/push_auth.go:140` |
| "returns the current status" (`gesign.go:79`) | an HSET that fails, or a request that dies after the UPDATE, leaves the status before in the cache until it expires (`uncached`) | `services/gesign.go:125`, `156`, `215` |
| "Verify reg_no matches existing citizen" (`auth.go:1331`) | a confirmation checked while the user has no citizen replaces the one another request links meanwhile (`relinked`) | `handlers/auth.go:1320-1321`, `services/user.go:470-473` |
| "5 minute TTL" (`push_auth.go:80`), "10min TTL" (`gesign.go:59`) | HSET after the expiry creates a hash without a TTL | `services/push_auth.go:140`, `gesign.go:215` |
| "session already ..." (`qr_login.go:95`, `147`) | GET and a later SET: two approvers; a scan over an approval | `services/qr_login.go:99`, `152` |
| "must be approved before signing" (`gesign.go:177`) | SELECT and a later INSERT: two completions log two signatures | `services/gesign.go:194` |
| "Delete used state" (`auth.go:143`) | GET and a later DEL: two callbacks with one state both pass | `handlers/auth.go:137` |
| a pending link is "single-use" (`auth.go:1298`) | GET and a later DEL: two confirmations use it, and the second writes the same account again | `handlers/auth.go:1300` |
| a passkey challenge is deleted when it is read (no doc says more) | GET and a later DEL, by a key a later begin may have filled: two finishes pass, and a late finish deletes a newer challenge | `handlers/mfa.go:357` |
| "sliding window" of 20 a minute (`ratelimit.go:13`) | a pipeline that fails lets its request through uncounted | `middleware/ratelimit.go:37-42` |
| the same | a request whose pipeline is delayed counts with a time that has passed, after the key or its entries have gone | `middleware/ratelimit.go:20` |
| "Send current status immediately" (`sign.go:279`) | the status is read, then written: a broadcast in between is followed by the older status, or panics | `handlers/sign.go:280` |

### Bounds

Lifetimes are one to three units. They keep the order of the real ones where the code depends on
it (exchange code 60 s <= temporary token 5 min <= full token 24 h; an approval 2 min <= a QR
session 5 min) and are long enough for something to be read with one unit left and used with
none. Two concurrent requests are what each race needs; three are used where the state space
allows. `MaxAttempts` is 2 for the program's 5: a guess that is written back and a last one; the theorems hold for
every number. `MaxLost` is 1: a write of each code may be lost once, and the bound be exceeded by one.
`PerBatch` is 1 for 10: the batches race, not the codes of one. A limiter of 2 per window of 2 units
for 20 per minute: one request below the limit, at it, and over it, in one window or across two;
`MaxCalls` and `MaxTime` stop the clients and the clock; `MaxEntries` is 2 for the audit log of a card,
the entry and one too many. `Loads` (in `MCPasskeys` and `MCEidCards`)
lists the operations that may meet in one behaviour: each load puts together operations that contend
for a key, a column or a row; all of them at once is more than TLC finishes. `SessionTTL` is 2 in
`sign`, so that a cache entry created later than its row outlives it, and one that an HSET brings back
outlives both. `MaxLogs` is 2: the first signature and one
too many. Two batches, codes or challenges let one be replaced while the other is in use.

Three runs have a CONSTRAINT, `Explored` in their MC module, that stops where the properties say nothing
any more: `mfa_factors` where a removal has met another request (`raced`), and, beside ceremonies, where
two requests change factors at once; `otp` where two verifications hold one code (`contested`); `sign`
leaves out the connections of disturbed sessions. What lies beyond is covered by the theorems of section 4, which
know no constraint.

### Fairness

`OAuthProvider!FairSpec` (run `oauth_grants`) states weak fairness of the steps of each request that
has started, and of nothing else: a Go handler runs in a goroutine of its own to its return, and
none of these calls is cancelled. Clients need never send a request, administrators need never act,
and the clock need not move. Fairness does not change the safety properties of this run.

## 4. Proofs

Checked by the TLA+ proof system for all values of the constants that satisfy the `ASSUME` of the
module.

* `LoginSession_proofs!LoginTypeCorrect` — `TypeOK`, together with `Referenced`: every token a
  request, a code, a client or the list of logouts refers to has been minted. `TypeOK` alone is
  not inductive, because a request mints for the subject of the token it carries, and that is a
  user only when the token was minted.
* `LoginSession_proofs!LogoutHolds` — `RevokedStaysOut`, Redis failing or not. The
  strengthening is `BlacklistCovers`: a logout in progress carries a TTL of at least what is left
  of its token, and every logged-out token has no more left than its blacklist entry. The clock
  only shortens a token's life (`TokenKept`) and takes the same unit from both.
* `LoginSession_proofs!LateRequestsStayOut` — `NoLateAdmission`, Redis failing or not. It rests on
  `BlacklistCovers` and on `LateAreKnown` (a request that came late carries a logged-out token):
  when such a request finds no blacklist key, its token has nothing left either.
* `LoginSession_proofs!MfaIsHonoured` — `MfaHonoured`, Redis failing or not. The strengthening,
  `FullLoginSawOff`, speaks of the login in progress: one that is going to mint a full token has
  already seen MFA off. `NewToken` says where a token can come from at all.
* `LoginSession_proofs!ClientsAreToldTheTruth` — `MfaRequiredTruthful`, Redis failing or not, from
  `CodesWithinTokens`: a stored code's TTL is at most what is left of its token. The
  configured order `CodeTTL <= TempTTL <= FullTTL` is what makes it true of a new code.
* `LoginSession_proofs!ExchangeCodesAreTickets` — `Spec => Tickets!Spec`: an exchange is a `Use`, a
  lost reply and the clock are `Turnover`s that lapse codes, a login one that issues a code, and
  every other step stutters. `ExchangeCodesAnswerOnce` draws the conclusion, no code is worth two
  answers, from the steps of the abstract specification alone: a ticket that is not spent has not been
  used (`UnusedWhileLive`).

* `PushChallenge_proofs` — `PushTypeCorrect`, `PushTokensWereMatched`, `PushExpiredNeverAdmits` and
  `PushDenialsStand`, with writes failing and requests dying or not. The types need `Fresh` (between the HSET and the EXPIRE
  of a challenge one request is at work on it, and its key, if it was written, has no lifetime yet). The promises need what the
  commands leave behind: an approved hash, and a request about to write or to mint, belongs to a
  matched challenge (`Vouched`); a hash brought back after its expiry has no user (`Orphaned`); a
  denial that was written and crossed no approval leaves the challenge neither pending nor approved and no
  approval past its check (`Settled`): `DenialStands` alone is not inductive, because it does not say that
  nobody is about to write an approval.
* `RecoveryGate_proofs` — `GateImplementsCodes`: `GateSpec => Spec`, so what is proved of
  `RecoveryCodes` holds behind the limiter. `RecoveryTypeCorrect` and `RecoveryAcceptedIsSpent` rest on
  `Held`: requests work on rows that exist, and a batch being inserted is not yet visible, so the
  COMMIT cannot revive a code. `RecoveryOneBatch` adds `HoldsAll`: a regeneration has locked every code
  that can be used, but for those of regenerations it has overlapped, and regenerations under way at the
  same time are on record (`met`). It holds for any number of regenerations at once.
* `RecoveryReuseBounded` and `RecoveryNoLateReuse` of the same module say how far the double use goes
  that the run `recovery_replay` finds. Answers given on a code and validations that have read it as
  unused (`Marking`) are together never more than the requests in progress: a SELECT needs an unused row,
  and by `AcceptedIsSpent` an unused row has not been accepted yet. For the same reason nobody reads
  a code as unused after it has let somebody in (`NobodyReads`): the validations that may yet be let in
  with it can only become fewer. This is an action property of every behaviour, overlaps and failures
  included.
* `GuessesLimited`: `GateImplementsLimit` reduces the composition to the limiter alone, and
  `RecoveryGuessesLimited` counts. `Recent` are the requests let through that a window ending now contains,
  `Granted` those that have passed the ZCARD and have not got through. While no pipeline takes time
  (`Prompt`), everybody in the pipeline came just now, all `Recent` are still in the sorted set, and its
  time to live outlasts them. So whoever is newly granted has counted all of `Recent`, and
  `|Recent| + |Granted|` stays below `MaxRequests + |Req|` (`Few`): letting a granted request through moves it
  from one set to the other, refusals, failures and the clock only take away. A window that lies in
  the past gets nobody new. The bound on windows alone is not inductive: it says nothing of the
  requests that are granted and still to come. Requests that a failing pipeline lets through are in neither set: nothing
  bounds those, and the theorem is not about them. A window counted with a fold, as the model
  had it first, could not be reasoned about; as a set its size is `Cardinality`.
* `QrLogin_proofs` — `QrTypeCorrect` and `QrTokensWereApproved`, writes failing or not. `Traced` follows the
  user of a session from the check of the approval through key and request to the token. The promises
  about undisturbed sessions (`QrOneApprover`, `QrApprovalSticks`, `QrRowFollowsKey`) are not inductive one
  by one: that no second user approves depends on what the key says, and what the key says on how far
  the request that changes it has got. The invariant therefore speaks of one session as a whole, `Calm`:
  at most one request is at work on it, `Stage` says what key, row and approvals are at each statement of
  that request, and `Settled` what they are when there is none. A step that is about another session
  leaves it calm (`Apart`).
* `SignSession_proofs` — `SignSignedWasApproved`, from `Backed`: a row that says "approved", a request about
  to write that, and a request about to log a signature go back to a decision of the owner, who
  never changes. Nothing else a broadcast, a socket or the cache does can disturb it (`Elsewhere`).
  `SignTypeCorrect` holds of everything. `SignDecidedOnce`, `SignSignsWhileApproved`, `SignStatusIsTrue` and
  `SignNobodyMissesTheStatus` share one invariant of an undisturbed session, again called `Calm`: where its
  request stands (`Stage`), that the cache has nothing, or what the row has, or, after a lost write or with
  one under way, a status the row had before (`InStep`, `Trailing`), and that either a broadcast is still to come (`Coming`) or every connection has been told
  the row's status or is about to write it (`Informed`), unless that status was never cached or never sent
  (`Missed`). This last disjunction is what the race between
  register, read and broadcast comes down to.
* `EidCards_proofs` — about `Accounts` and `EidCards` together, since a card verification writes the rows of
  both. `Sound` and `EidSound` say what each request may rely on at its next statement: a request that
  is about to let a user in holds an account tied to that user or the row's own address
  (`AccountsLoginsAreTied`); one about to write a level has the check on record. `RowsAreUsed` keeps a row
  that is not in use empty, without which a new account could inherit a citizen or a level
  (`AccountsVerifiedHasCitizen`). `LevelsAreOwed` is the argument of `AccountsLevelIsBestProof`: a check on
  record is at most the row's level, or a request still owes it, or its write was lost; the guarded
  UPDATE never lowers a level (`Grows`), so no payment is undone. `EidAnswersHold` needs that levels,
  verified users and citizens' e-ID marks only grow, and that each statement of a verification leaves the
  fact the next one counts on. `CardsRevokedOnce` rests on `EntriesAreOwed`: an entry in a card's log and
  a request about to write it exclude each other. `CallbacksAreGuarded` is an action property, from
  `StatesAreSpent`.
* `OAuthProvider_proofs` — `ProviderTypeCorrect`, `ProviderRedeemsAsBound` and `ProviderListsApps`, with
  failing calls and overlapping exchanges. `CodesAreApprovals` says what a code has of its approval,
  `Knows` what a request about to mint has checked against the code it consumed, and `OneExchange`, which
  the GETDEL gives, makes that request the only one. `GrantsAreListed` drops the lifetimes from
  `AppsAreListed`, since a grant does not expire. `AuthorizationCodesAreTickets` is the refinement
  `Spec => Tickets!Spec` in the manner of `ExchangeCodesAreTickets`: the GETDEL takes a code out of the
  store and only the token, a step later, answers for it, so a code whose exchange has passed its checks
  counts as live until then (`Worth`). `AuthorizationCodesAnswerOnce` follows from it as for the login.
* `Factors_proofs` — about `MfaFactors`, `Passkeys` and `OneTimePassword`, which shares no variable
  with the others.

  `PasskeyTypeCorrect`, `RemovedPasskeysStayOut` and `ChallengesAreAnsweredOnce` hold for any number of
  requests, tabs and challenges. `Sound` says what a finish holds: a challenge, a passkey, and, when that
  passkey had been removed by the time the finish came in (`gone`), one that is still not in the table.
  `AnsweredOnce` speaks of a challenge nobody disturbed: what is in a key, in a finish under way and already accepted adds up to one answer.
  `CeremoniesKeepFactors` is the refinement `PasskeySpec => Spec`: a finished registration is an enrolment,
  and no other step of a ceremony touches the factors.

  `EnabledSecretsAreProven`, `FlagIsInStep`, `SettingsAreInStep` and `UsersHaveAWayIn` come from one
  invariant, `FactorInv`, of `Spec` with any number of requests. `SecretsProven`: a request about to enable the stored secret
  has proved it, or it was stored by a set-up that overtook the request. `Stage`, until a statement fails or
  a removal meets another request: a removal is alone (`Lone`); where flag and settings differ some request is
  at a statement that will mend it (`FlagStage`); so with the summary and the tables (`ItemStage`); and a
  user whose TOTP is on in the summary has it, has begun anew, or a request is at work on it
  (`TotpStage`). That several verifications and enrolments may be under way is why each part says that
  *some* request is at such a point (`At`), and not where *the* request is.

  `OtpTypeCorrect`, `OtpIsUsedOnce` and `OtpGuessesAreBounded` rest on what an uncontested code and its one
  verifier agree on: `OnceOnly` counts a use, a wrong guess or a write-back as either done, lost, or still in
  the hands of that verifier (`Holds`), whose copy of the count is the one in the key. `OtpCooldownHolds`
  is an action property: what is left of the cooldown, together with the time a message has been on its way, or
  with the time since a sender's last message, makes up the spacing (`Spaced`), until a GET or SET of the
  key fails. Sends overlap as they like.

The theorems whose property has a condition in the table of section 3 state that condition and no other:
the invariants behind them hold in every behaviour, with disturbed and undisturbed sessions side by
side. `RowsTyped`, `Held`, `Vouched`, `Traced`, `Backed`, `Knows`, `Sound` and the other strengthenings without
the word "undisturbed" carry no condition on overlaps at all. No theorem
has a hypothesis beyond the `ASSUME`s of the modules. `GateAssumption` asks that `Req` be finite, without which nothing could be
counted: a server has no more requests than goroutines.

The proofs corrected earlier versions of the model twice. An Apple account without an e-mail was matched by `Accounts`
against rows not in use, which `services/user.go:252` cannot do, because such rows do not exist. `Owner`
now asks for a row in use; `RowsAreUsed` was false until it did. And `PasskeyNext`, in a
load of `"factors"` with a ceremony, removed a passkey or enrolled it again without recording that for
the finishes under way (`gone`). No load of the run mixes the two; for arbitrary `Loads` the proof of
`RemovedPasskeysStayOut` failed. All the operations of `MfaFactors` now run in the load `{"factors"}` alone,
and beside the ceremonies only removals and the statements of requests under way.

Only model-checked, and why:

* `DeactivationTakesHold`: liveness under fairness.

The two properties the violation runs refute are, of course, not proved either; `RecoveryNoLateReuse`,
`RecoveryReuseBounded` and `EnabledSecretsAreProven` say how far each refutation goes.

No module has a `RECURSIVE` operator.

## 5. Not modelled, and the plan

Not modelled, and why:

* the exchange with an identity provider, with DAN and with the core system, and WebAuthn and TOTP
  cryptography: external, an answer or an error; `DanLogin` keeps no state;
* dead code: `generateState`, `validateState` and `handleOAuthCallback` of `oauth_callback.go` and
  `WSHub.CleanupSession` are called by nothing;
* the WebSocket of a QR session: like that of a signing session, but sent no first status, so the
  page has to poll, which `QrLogin` models;
* a generated ID that is drawn twice (`genid.go:31`): looked up, then inserted by the caller, and
  `gen_id` has no unique index; two equal draws in the same moment are needed;
* the contents of rows that nothing decides on: names, pictures, addresses, certificates, logs.

Facts the models take over from the code and a reader may not expect: the route that answers a push
challenge asks for no session (`main.go:315`), so an approval comes from somebody who has the challenge's
ID and its number, not provably from a phone; a card verification never
looks at `eid_cards`; the entries a card verification writes name no card, so no card's history
shows them; a user linked to another citizen keeps the level reached with the first; the sign count
of a passkey is stored and compared by nobody; the tables of the e-ID service are not in the
repository's schema.

Left to do: the validation of TOTP codes at login with its replay window, the WebSocket of the QR
page.

To prove next: that the tokens of `PushChallenge` and `QrLogin` are the `DirectLogin`s of `LoginSession`.

## 6. Running

    tlc -workers 2 -config LoginSession.cfg MCLoginSession
    tlapm LoginSession_proofs.tla

`PROJECT.json` lists the runs with their configurations, the variants each property must catch,
the lines each definition models, the findings and the theorems.
