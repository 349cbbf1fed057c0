---------------------------- MODULE OAuthProvider ----------------------------
(***************************************************************************)
(* The OAuth 2.0 provider.  A signed-in user approves an application: the  *)
(* authorize request checks the client's row, stores an authorization code *)
(* in Redis and records the grant; the application redeems the code for a  *)
(* third-party token; the user may revoke the grant, and an administrator  *)
(* may register, change or deactivate the client, at any moment of this.   *)
(*                                                                         *)
(* Only approved, authenticated requests appear: without approve=true, or  *)
(* without a session, Authorize redirects and changes nothing.             *)
(***************************************************************************)
EXTENDS Naturals

CONSTANTS
    User,       \* users, by gen_id
    Client,     \* oauth_clients.client_id
    Uri,        \* redirect URIs
    Secret,     \* PKCE verifiers
    Code,       \* authorization codes (32 random bytes, never repeated)
    Req,        \* authorize and token requests in progress at the same time
    None,
    CodeTTL,    \* lifetime of a code (5 min)
    TokenTTL,   \* lifetime of a third-party token (1 h)
    Fails       \* may a call to Redis or PostgreSQL return an error?

ASSUME ProviderAssumption ==
    /\ None \notin User \cup Client \cup Uri \cup Secret \cup Code
    /\ CodeTTL \in Nat \ {0}
    /\ TokenTTL \in Nat \ {0}
    /\ Fails \in BOOLEAN

VARIABLES
    client,     \* oauth_clients
    code,       \* oauth_code:<code>
    grant,      \* user_grants, by (user, client)
    req,        \* requests in progress
    minted,     \* history: third-party tokens, with what they were asked with
    answers     \* history: tokens handed out for each code

vars == <<client, code, grant, req, minted, answers>>

-----------------------------------------------------------------------------
Pairs == User \X Client

Row == [known : BOOLEAN, active : BOOLEAN, uris : SUBSET Uri]

\* sent, listed and withdrawn are history: the code has left for its redirect
\* URI; the grant was recorded before; the user has revoked it since then.
CodeEntry ==
    [status : {"fresh", "stored", "taken"}, ttl : 0..CodeTTL,
     user : User \cup {None}, client : Client \cup {None},
     uri : Uri \cup {None}, challenge : Secret \cup {None},
     sent : BOOLEAN, listed : BOOLEAN, withdrawn : BOOLEAN]

Fresh == [status |-> "fresh", ttl |-> 0, user |-> None, client |-> None,
          uri |-> None, challenge |-> None, sent |-> FALSE, listed |-> FALSE,
          withdrawn |-> FALSE]

\* secret is the challenge of an authorize request, or the verifier of a
\* token request.
Request ==
    [pc : {"idle", "store", "grant", "consume", "mint"},
     user : User \cup {None}, client : Client \cup {None},
     uri : Uri \cup {None}, secret : Secret \cup {None},
     code : Code \cup {None}]

Idle == [pc |-> "idle", user |-> None, client |-> None, uri |-> None,
         secret |-> None, code |-> None]

ThirdPartyToken ==
    [user : User, aud : Client, code : Code, uri : Uri,
     verifier : Secret \cup {None}, ttl : 0..TokenTTL]

TypeOK ==
    /\ client \in [Client -> Row]
    /\ code \in [Code -> CodeEntry]
    /\ grant \in [Pairs -> {"none", "active", "revoked"}]
    /\ req \in [Req -> Request]
    /\ minted \subseteq ThirdPartyToken
    /\ answers \in [Code -> Nat]

Init ==
    /\ client = [c \in Client |->
                    [known |-> FALSE, active |-> FALSE, uris |-> {}]]
    /\ code = [k \in Code |-> Fresh]
    /\ grant = [p \in Pairs |-> "none"]
    /\ req = [r \in Req |-> Idle]
    /\ minted = {}
    /\ answers = [k \in Code |-> 0]

Live(k) == code[k].status = "stored" /\ code[k].ttl > 0

Finish(r) == req' = [req EXCEPT ![r] = Idle]

-----------------------------------------------------------------------------
\* Administration: each operation is one statement on one row.
CreateClient(c, uris) ==
    /\ ~client[c].known
    /\ client' = [client EXCEPT ![c] = [known |-> TRUE, active |-> TRUE,
                                        uris |-> uris]]
    /\ UNCHANGED <<code, grant, req, minted, answers>>

\* The row is kept, for the grants that refer to it.
DeleteClient(c) ==
    /\ client[c].known
    /\ client' = [client EXCEPT ![c].active = FALSE]
    /\ UNCHANGED <<code, grant, req, minted, answers>>

\* Fields left out of the request keep their value; an empty list of URIs
\* counts as left out.
UpdateClient(c, uris, active) ==
    /\ client[c].known
    /\ uris # {} \/ uris = client[c].uris
    /\ client' = [client EXCEPT ![c].uris = uris, ![c].active = active]
    /\ UNCHANGED <<code, grant, req, minted, answers>>

-----------------------------------------------------------------------------
\* FindByClientID, and the checks on the row it returns.
Authorize(r, u, c, uri, challenge) ==
    /\ req[r].pc = "idle"
    /\ client[c].known /\ client[c].active
    /\ uri \in client[c].uris
    /\ req' = [req EXCEPT ![r] = [pc |-> "store", user |-> u, client |-> c,
                                  uri |-> uri, secret |-> challenge,
                                  code |-> None]]
    /\ UNCHANGED <<client, code, grant, minted, answers>>

StoreAuthCode(r) ==
    /\ req[r].pc = "store"
    /\ \E k \in Code :
          /\ code[k] = Fresh
          /\ code' = [code EXCEPT ![k] =
                [status |-> "stored", ttl |-> CodeTTL, user |-> req[r].user,
                 client |-> req[r].client, uri |-> req[r].uri,
                 challenge |-> req[r].secret,
                 sent |-> FALSE, listed |-> FALSE, withdrawn |-> FALSE]]
          /\ req' = [req EXCEPT ![r].pc = "grant", ![r].code = k]
    /\ UNCHANGED <<client, grant, minted, answers>>

StoreAuthCodeFails(r) ==
    /\ Fails
    /\ req[r].pc = "store"
    /\ Finish(r)
    /\ UNCHANGED <<client, code, grant, minted, answers>>

\* Mutant: ON CONFLICT DO NOTHING.
CreateOrUpdateGrant_FirstOnly(p) ==
    grant' = [grant EXCEPT ![p] = IF @ = "none" THEN "active" ELSE @]

\* An upsert: a revoked grant comes back.
CreateOrUpdateGrant(p) == grant' = [grant EXCEPT ![p] = "active"]

\* The grant is recorded and the browser takes the code to the client.
RecordGrant(r) ==
    /\ req[r].pc = "grant"
    /\ CreateOrUpdateGrant(<<req[r].user, req[r].client>>)
    /\ code' = [code EXCEPT ![req[r].code].sent = TRUE,
                            ![req[r].code].listed = TRUE]
    /\ Finish(r)
    /\ UNCHANGED <<client, minted, answers>>

\* The user is not found, or the upsert fails: at most a line in the log, and
\* the code leaves all the same.
RecordGrantFails(r) ==
    /\ Fails
    /\ req[r].pc = "grant"
    /\ code' = [code EXCEPT ![req[r].code].sent = TRUE]
    /\ Finish(r)
    /\ UNCHANGED <<client, grant, minted, answers>>

-----------------------------------------------------------------------------
\* Mutant: a deactivated client may still sign in.
MaySignIn_AnyRow(c) == client[c].known

MaySignIn(c) == client[c].known /\ client[c].active

\* Token: the client proves itself with its secret and presents any code that
\* was ever sent to a client.
ValidateClient(r, c, k, uri, verifier) ==
    /\ req[r].pc = "idle"
    /\ code[k].sent
    /\ MaySignIn(c)
    /\ req' = [req EXCEPT ![r] = [pc |-> "consume", user |-> None, client |-> c,
                                  uri |-> uri, secret |-> verifier, code |-> k]]
    /\ UNCHANGED <<client, code, grant, minted, answers>>

\* "S256" and "plain" both accept exactly the verifier the challenge was made
\* from, and a code stored without a challenge accepts any.
VerifyPKCE(verifier, challenge) == challenge = None \/ verifier = challenge

\* Mutant: the code's client is not compared.
Bound_AnyClient(r, k) ==
    /\ VerifyPKCE(req[r].secret, code[k].challenge)
    /\ code[k].uri = req[r].uri

\* The three checks on the payload, made once the code is gone from Redis.
Bound(r, k) ==
    /\ VerifyPKCE(req[r].secret, code[k].challenge)
    /\ code[k].client = req[r].client
    /\ code[k].uri = req[r].uri

\* Mutant: GET, and DEL once the token is out.
Consumed_Later(k) == UNCHANGED code

\* GETDEL.
Consumed(k) == code' = [code EXCEPT ![k].status = "taken", ![k].ttl = 0]

\* The request goes on with the user from the payload.
Redeemed(r, k) == [req[r] EXCEPT !.pc = "mint", !.user = code[k].user]

ConsumeAuthCode(r) ==
    /\ req[r].pc = "consume"
    /\ Live(req[r].code)
    /\ Consumed(req[r].code)
    /\ IF Bound(r, req[r].code)
       THEN req' = [req EXCEPT ![r] = Redeemed(r, req[r].code)]
       ELSE Finish(r)
    /\ UNCHANGED <<client, grant, minted, answers>>

\* No such key any more; or an error, before or after Redis deleted the key.
ConsumeAuthCodeFails(r) ==
    /\ req[r].pc = "consume"
    /\ \/ ~Live(req[r].code) /\ UNCHANGED code
       \/ Fails /\ Live(req[r].code) /\ UNCHANGED code
       \/ Fails /\ Live(req[r].code) /\ Consumed(req[r].code)
    /\ Finish(r)
    /\ UNCHANGED <<client, grant, minted, answers>>

\* FindByGenID, GenerateThirdPartyToken, and the answer.
IssueToken(r) ==
    /\ req[r].pc = "mint"
    /\ minted' = minted \cup
          {[user |-> req[r].user, aud |-> req[r].client, code |-> req[r].code,
            uri |-> req[r].uri, verifier |-> req[r].secret, ttl |-> TokenTTL]}
    /\ answers' = [answers EXCEPT ![req[r].code] = @ + 1]
    /\ Finish(r)
    /\ UNCHANGED <<client, code, grant>>

IssueTokenFails(r) ==
    /\ Fails
    /\ req[r].pc = "mint"
    /\ Finish(r)
    /\ UNCHANGED <<client, code, grant, minted, answers>>

-----------------------------------------------------------------------------
\* One guarded UPDATE; codes and tokens are left alone.
RevokeGrant(u, c) ==
    /\ grant[<<u, c>>] = "active"
    /\ grant' = [grant EXCEPT ![<<u, c>>] = "revoked"]
    /\ code' = [k \in Code |->
                  IF code[k].sent /\ code[k].user = u /\ code[k].client = c
                  THEN [code[k] EXCEPT !.withdrawn = TRUE]
                  ELSE code[k]]
    /\ UNCHANGED <<client, req, minted, answers>>

Left(n) == IF n = 0 THEN 0 ELSE n - 1

Aged(t) == [t EXCEPT !.ttl = Left(@)]

Tick ==
    /\ \/ \E k \in Code : code[k].ttl > 0
       \/ \E t \in minted : t.ttl > 0
    /\ code' = [k \in Code |-> [code[k] EXCEPT !.ttl = Left(@)]]
    /\ minted' = {Aged(t) : t \in minted}
    /\ UNCHANGED <<client, grant, req, answers>>

ServerStep(r) ==
    \/ StoreAuthCode(r) \/ StoreAuthCodeFails(r)
    \/ RecordGrant(r) \/ RecordGrantFails(r)
    \/ ConsumeAuthCode(r) \/ ConsumeAuthCodeFails(r)
    \/ IssueToken(r) \/ IssueTokenFails(r)

Arrival(r) ==
    \E c \in Client, uri \in Uri, s \in Secret \cup {None} :
        \/ \E u \in User : Authorize(r, u, c, uri, s)
        \/ \E k \in Code : ValidateClient(r, c, k, uri, s)

Admin(c) ==
    \/ \E uris \in SUBSET Uri : CreateClient(c, uris)
    \/ DeleteClient(c)
    \/ \E uris \in SUBSET Uri, active \in BOOLEAN : UpdateClient(c, uris, active)

Next ==
    \/ \E c \in Client : Admin(c)
    \/ \E r \in Req : Arrival(r) \/ ServerStep(r)
    \/ \E u \in User, c \in Client : RevokeGrant(u, c)
    \/ Tick

Spec == Init /\ [][Next]_vars

\* A handler that has started runs to its end.  Clients, users, the
\* administrator and the clock owe nothing.
FairSpec == Spec /\ \A r \in Req : WF_vars(ServerStep(r))

-----------------------------------------------------------------------------
\* A token goes to the client the user approved, asked for with the redirect
\* URI and, when there was a challenge, the verifier of that approval, even
\* while several clients present the same code.
RedeemedAsBound ==
    \A t \in minted :
        /\ <<t.user, t.aud>> = <<code[t.code].user, code[t.code].client>>
        /\ t.uri = code[t.code].uri
        /\ code[t.code].challenge # None => t.verifier = code[t.code].challenge

\* An application that can redeem a code, or holds a token that is still good,
\* is in the list of connected applications of the user who approved it,
\* unless the user has revoked it since the approval or the approval could not
\* be recorded.
AppsAreListed ==
    \A k \in Code :
        /\ code[k].listed /\ ~code[k].withdrawn
        /\ Live(k) \/ \E t \in minted : t.code = k /\ t.ttl > 0
        => grant[<<code[k].user, code[k].client>>] = "active"

\* The authorization codes are single-use, and a failed exchange uses one up.
CodeStatus(k) ==
    CASE code[k].status = "fresh" -> "unissued"
      [] Live(k) -> "live"
      [] OTHER -> "spent"

InExchange(k) == \E r \in Req : req[r].pc = "mint" /\ req[r].code = k

\* A code that a request has consumed and not answered yet counts as live.
Worth(k) == IF InExchange(k) THEN "live" ELSE CodeStatus(k)

Tickets == INSTANCE SingleUse WITH
    Ticket <- Code,
    status <- [k \in Code |-> Worth(k)],
    uses <- answers

AuthorizationCodesSingleUse == Tickets!Spec

\* A client that is deactivated for good is served a last time: the requests
\* that passed ValidateClient before drain, and none passes it again.
DeactivationTakesHold ==
    \A c \in Client :
        <>[](~client[c].active)
        => <>[](\A r \in Req : req[r].client = c => req[r].pc = "idle")

=============================================================================
