------------------------------- MODULE Passkeys -------------------------------
(***************************************************************************)
(* The WebAuthn ceremonies of the user whose factors MfaFactors keeps:     *)
(* registering a passkey, using one as second factor, and logging in with  *)
(* nothing else.  Each has a begin, which leaves its challenge in Redis,   *)
(* and a finish, which gets the key, deletes it, reads the user's          *)
(* credentials and judges the browser's answer.  Begins and finishes of    *)
(* two tabs overlap each other and the enrolments and removals of          *)
(* MfaFactors.                                                             *)
(*                                                                         *)
(* The WebAuthn library is external: it accepts nothing but an answer to   *)
(* the challenge it is handed, signed with one of the credentials it is    *)
(* handed, and may refuse any.                                             *)
(***************************************************************************)
EXTENDS MfaFactors

CONSTANTS
    Tab,        \* ceremony requests in progress at the same time
    Challenge,  \* a challenge of which no trace is left is drawn again
    Loads,      \* bound: sets of operations that meet in one behaviour
    NoChallenge, NoItem

ASSUME PasskeyAssumption ==
    /\ NoChallenge \notin Challenge
    /\ NoItem \notin Item
    /\ Loads \subseteq SUBSET {"factors", "register", "authenticate", "login"}

VARIABLES
    load,      \* the operations of this behaviour
    session,   \* webauthn_reg:<genid>, webauthn_auth:<genid>, webauthn_login:<random>
    tab,       \* ceremony requests in progress
    answered,  \* history: accepted answers to each challenge, counted to two
    disturbed  \* history: challenges that two finishes got at the same time,
               \* or whose deletion failed

ceremony == <<load, session, tab, answered, disturbed>>
passkeyVars == <<vars, ceremony>>

Ceremony == {"register", "authenticate", "login"}

NoTab == [pc |-> "idle", of |-> "login", challenge |-> NoChallenge,
          item |-> NoItem, gone |-> FALSE]

\* gone: the passkey has not been enrolled at any time since the request came.
PasskeyTypeOK ==
    /\ load \in Loads
    /\ session \in [Ceremony -> SUBSET Challenge]
    /\ tab \in [Tab -> [pc : {"idle", "store", "drop", "check", "token"},
                        of : Ceremony, challenge : Challenge \cup {NoChallenge},
                        item : Item \cup {NoItem}, gone : BOOLEAN]]
    /\ answered \in [Challenge -> 0..2]
    /\ disturbed \subseteq Challenge

PasskeyInit ==
    /\ Init
    /\ load \in Loads
    /\ session = [k \in Ceremony |-> {}]
    /\ tab = [t \in Tab |-> NoTab]
    /\ answered = [c \in Challenge |-> 0]
    /\ disturbed = {}

Leave(t) == tab' = [tab EXCEPT ![t] = NoTab]

Held(c) == \/ \E k \in Ceremony : c \in session[k]
           \/ \E t \in Tab : tab[t].challenge = c

-----------------------------------------------------------------------------
\* BeginRegistration and BeginDiscoverableLogin need nothing of the tables;
\* BeginAuthentication wants the user to have a passkey when it looks.
Begin(t, k) ==
    /\ k \in load
    /\ tab[t].pc = "idle"
    /\ k = "authenticate" => items["passkey"] # {}
    /\ tab' = [tab EXCEPT ![t] = [NoTab EXCEPT !.pc = "store", !.of = k]]
    /\ UNCHANGED <<vars, load, session, answered, disturbed>>

PasskeyRegisterBegin(t) == Begin(t, "register")
PasskeyAuthBegin(t) == Begin(t, "authenticate")
PasskeyLoginBegin(t) == Begin(t, "login")

\* Two of the keys are named after the user: the challenge of an earlier begin
\* is replaced.  The third gets a random name of its own.
Stored(k, c) == IF k = "login" THEN session[k] \cup {c} ELSE {c}

StoreSession(t, c) ==
    LET k == tab[t].of IN
    /\ tab[t].pc = "store"
    /\ ~Held(c)
    /\ session' = [session EXCEPT ![k] = Stored(k, c)]
    /\ answered' = [answered EXCEPT ![c] = 0]
    /\ disturbed' = disturbed \ {c}
    /\ Leave(t)
    /\ UNCHANGED <<vars, load>>

\* The error of the SET is ignored: the browser gets a challenge nobody keeps.
StoreFails(t) ==
    /\ Statements = "may fail"
    /\ tab[t].pc = "store"
    /\ Leave(t)
    /\ UNCHANGED <<vars, load, session, answered, disturbed>>

\* GET.  The browser answers with passkey x, enrolled or not.
GetSession(t, k, c, x) ==
    /\ tab[t].pc = "idle"
    /\ c \in session[k]
    /\ tab' = [tab EXCEPT ![t] = [pc |-> "drop", of |-> k, challenge |-> c,
                                  item |-> x, gone |-> x \notin items["passkey"]]]
    /\ disturbed' = IF \E u \in Tab : tab[u].challenge = c
                      THEN disturbed \cup {c} ELSE disturbed
    /\ UNCHANGED <<vars, load, session, answered>>

PasskeyRegisterFinish(t, c, x) == GetSession(t, "register", c, x)
PasskeyAuthFinish(t, c, x) == GetSession(t, "authenticate", c, x)
PasskeyLoginFinish(t, c, x) == GetSession(t, "login", c, x)

\* Mutant: the challenge stays until it expires.
Dropped_Kept(k, c) == session[k]

\* DEL goes by the name of the key, not by what was read from it.
Dropped(k, c) == IF k = "login" THEN session[k] \ {c} ELSE {}

DropSession(t) ==
    LET k == tab[t].of IN
    /\ tab[t].pc = "drop"
    /\ session' = [session EXCEPT ![k] = Dropped(k, tab[t].challenge)]
    /\ tab' = [tab EXCEPT ![t].pc = "check"]
    /\ UNCHANGED <<vars, load, answered, disturbed>>

\* The error of the DEL is ignored.
DropFails(t) ==
    /\ Statements = "may fail"
    /\ tab[t].pc = "drop"
    /\ tab' = [tab EXCEPT ![t].pc = "check"]
    /\ disturbed' = disturbed \cup {tab[t].challenge}
    /\ UNCHANGED <<vars, load, session, answered>>

\* The key runs out after five minutes.
ExpireSession(k, c) ==
    /\ c \in session[k]
    /\ session' = [session EXCEPT ![k] = @ \ {c}]
    /\ UNCHANGED <<vars, load, tab, answered, disturbed>>

-----------------------------------------------------------------------------
Counted(c) == [answered EXCEPT ![c] = IF @ < 2 THEN @ + 1 ELSE 2]

\* CreateCredential, and the INSERT that begins the enrolment.
CreateCredential(t, r) ==
    LET x == tab[t].item IN
    /\ tab[t].pc = "check" /\ tab[t].of = "register"
    /\ FinishRegistration(r, x)
    /\ answered' = Counted(tab[t].challenge)
    /\ tab' = [u \in Tab |->
                 IF u = t THEN NoTab
                 ELSE [tab[u] EXCEPT !.gone = @ /\ tab[u].item # x]]
    /\ UNCHANGED <<load, session, disturbed>>

\* Mutant: the credentials are those of the begin; a removal since is missed.
Acceptable_AsBegun(x) == TRUE

\* The credentials are read again at the finish.
Acceptable(x) == x \in items["passkey"]

\* FinishAuthentication, FinishDiscoverableLogin.  The sign count they write
\* back is compared by nobody.
ValidateLogin(t) ==
    /\ tab[t].pc = "check" /\ tab[t].of # "register"
    /\ Acceptable(tab[t].item)
    /\ tab' = [tab EXCEPT ![t].pc = "token"]
    /\ UNCHANGED <<vars, load, session, answered, disturbed>>

GenerateToken(t) ==
    /\ tab[t].pc = "token"
    /\ answered' = Counted(tab[t].challenge)
    /\ Leave(t)
    /\ UNCHANGED <<vars, load, session, disturbed>>

\* The library refuses, a statement fails, or the process dies.
Refuse(t) ==
    /\ tab[t].pc \in {"check", "token"}
    /\ Leave(t)
    /\ UNCHANGED <<vars, load, session, answered, disturbed>>

\* Where no ceremony is in the load, passkeys are enrolled without one.
PasskeyNext ==
    \/ load = {"factors"} /\ Next /\ UNCHANGED ceremony
    \/ /\ load # {"factors"}
       /\ \E r \in Req : Statement(r) \/ \E x \in Item : DeletePasskey(r, x)
       /\ UNCHANGED ceremony
    \/ \E t \in Tab :
          \/ PasskeyRegisterBegin(t) \/ PasskeyAuthBegin(t) \/ PasskeyLoginBegin(t)
          \/ StoreFails(t)
          \/ DropSession(t) \/ DropFails(t)
          \/ ValidateLogin(t) \/ GenerateToken(t) \/ Refuse(t)
          \/ \E r \in Req : CreateCredential(t, r)
          \/ \E c \in Challenge :
                \/ StoreSession(t, c)
                \/ \E x \in Item :
                      \/ PasskeyRegisterFinish(t, c, x)
                      \/ PasskeyAuthFinish(t, c, x)
                      \/ PasskeyLoginFinish(t, c, x)
    \/ \E k \in Ceremony, c \in Challenge : ExpireSession(k, c)

PasskeySpec == PasskeyInit /\ [][PasskeyNext]_passkeyVars

-----------------------------------------------------------------------------
\* A passkey removed before a finish comes in admits nobody, even when the
\* ceremony was begun, and the challenge issued, while it was enrolled.
RemovedPasskeyStaysOut ==
    \A t \in Tab : tab[t].pc = "token" => ~tab[t].gone

\* A challenge is answered once, by a registration, a second factor or a
\* login, unless two finishes got it before either deleted it.
ChallengeAnsweredOnce ==
    \A c \in Challenge \ disturbed : answered[c] <= 1

=============================================================================
