------------------------------ MODULE Accounts ------------------------------
(***************************************************************************)
(* The users and citizens tables and everything that writes them: the      *)
(* callbacks of the social logins with the OAuth state they answer to, the *)
(* login by e-mail, the confirmation that ties a further provider account  *)
(* to a user, and the checks that link a user to a citizen and raise the   *)
(* verification level.                                                     *)
(*                                                                         *)
(* A user stands for a row and for its gen_id.  The token a login mints is *)
(* LoginSession's matter: here a login is the pair of the user and of the  *)
(* identity that was let in.                                               *)
(***************************************************************************)
EXTENDS Naturals

CONSTANTS
    User,         \* rows of users; a row is in use once it has an e-mail
    Email,        \* addresses
    Account,      \* accounts with the identity providers
    Provider,     \* provider of each account
    Address,      \* e-mail the provider tells of each account, or NoEmail
                  \* (Twitter tells none)
    Citizen,      \* registration numbers that can be named
    State,        \* OAuth states (32 random bytes, never repeated)
    Req,          \* requests in progress at the same time
    NoEmail, NoUser, NoCitizen, NoState, Nobody,
    Loads,        \* bound: sets of operations that meet in one behaviour
    Fails         \* may a call to Redis or to PostgreSQL fail?

Providers == {"google", "apple", "facebook", "twitter"}

ASSUME AccountsAssumption ==
    /\ Provider \in [Account -> Providers]
    /\ Address \in [Account -> Email \cup {NoEmail}]
    /\ \A a \in Account : Provider[a] = "twitter" => Address[a] = NoEmail
    /\ Email \cap Account = {}
    /\ NoEmail \notin Email \cup Account
    /\ Nobody \notin Email \cup Account
    /\ NoUser \notin User
    /\ NoCitizen \notin Citizen
    /\ NoState \notin State
    /\ Fails \in BOOLEAN

VARIABLES
    users,    \* users; the provider columns as a set of accounts
    citizens, \* citizens: who wrote the row of a number last
    oauth,    \* oauth_state:<state>, as the provider that may answer
    pending,  \* pending_link:<gen_id>, as the account that waits
    req,      \* requests in progress
    load,     \* the operations of this behaviour
    tied,     \* history: pairs of a user and an account shown to be theirs
    relinked, \* history: such pairs of a confirmation that replaced another
              \* citizen of the user
    logins,   \* history: pairs of a user and the identity that was let in
    spent,    \* history: states whose deletion Redis acknowledged
    proofs,   \* history: verification levels a user has passed the check for
    faulty    \* history: users whose level was not written after a check

accountVars == <<users, citizens, oauth, pending, req, load, tied, relinked,
                 logins, spent, proofs, faulty>>

-----------------------------------------------------------------------------
Identity == Account \cup Email

Row ==
    [email : Identity \cup {NoEmail}, accounts : SUBSET Account,
     citizen : Citizen \cup {NoCitizen}, verified : BOOLEAN, level : 1..4]

NoRow == [email |-> NoEmail, accounts |-> {}, citizen |-> NoCitizen,
          verified |-> FALSE, level |-> 1]

Exists(u) == users[u].email # NoEmail

\* The e-mail stored for a new user: the provider's or, without one, a
\* placeholder made of the account's own ID, written here as the account.
StoredEmail(i) ==
    IF i \in Account /\ Address[i] # NoEmail THEN Address[i] ELSE i

Operation == {"google", "apple", "facebook", "twitter", "email", "confirm",
              "verify", "dan", "phone"}

Request ==
    [pc : {"idle", "drop", "find", "match", "pend", "create", "enter",
           "check", "tie", "unpend", "select", "insert", "commit", "refresh",
           "level"},
     op : Operation \cup {"none"},
     who : Identity \cup {Nobody},
     user : User \cup {NoUser},
     citizen : Citizen \cup {NoCitizen},
     state : State \cup {NoState}]

Idle == [pc |-> "idle", op |-> "none", who |-> Nobody, user |-> NoUser,
         citizen |-> NoCitizen, state |-> NoState]

AccountsTypeOK ==
    /\ users \in [User -> Row]
    /\ citizens \in [Citizen -> {"absent", "core", "dan"}]
    /\ oauth \in [State -> Providers \cup {"unused", "gone"}]
    /\ pending \in [User -> Account \cup {Nobody}]
    /\ req \in [Req -> Request]
    /\ load \in Loads
    /\ tied \subseteq User \X Account
    /\ relinked \subseteq User \X Account
    /\ logins \subseteq User \X Identity
    /\ spent \subseteq State
    /\ proofs \subseteq User \X (2..4)
    /\ faulty \subseteq User

AccountsInit ==
    /\ users = [u \in User |-> NoRow]
    /\ citizens = [c \in Citizen |-> "absent"]
    /\ oauth = [s \in State |-> "unused"]
    /\ pending = [u \in User |-> Nobody]
    /\ req = [r \in Req |-> Idle]
    /\ load \in Loads
    /\ tied = {}
    /\ relinked = {}
    /\ logins = {}
    /\ spent = {}
    /\ proofs = {}
    /\ faulty = {}

Begin(r, request) ==
    /\ request.op \in load
    /\ req[r].pc = "idle"
    /\ req' = [req EXCEPT ![r] = request]

\* A request for user u about the citizen c, with the account or e-mail i.
About(op, pc, i, u, c) ==
    [pc |-> pc, op |-> op, who |-> i, user |-> u, citizen |-> c,
     state |-> NoState]

GoTo(r, pc) == req' = [req EXCEPT ![r].pc = pc]
Finish(r) == req' = [req EXCEPT ![r] = Idle]
At(r, pc) == req[r].pc = pc
-----------------------------------------------------------------------------
(* Social login.                                                           *)

\* The four login pages store a new state and send the browser away.
IssueState(p) ==
    /\ p \in load
    /\ \E s \in State :
          /\ oauth[s] = "unused"
          /\ oauth' = [oauth EXCEPT ![s] = p]
    /\ UNCHANGED <<users, citizens, pending, req, load, tied, relinked,
                   logins, spent, proofs, faulty>>

GoogleLogin == IssueState("google")
AppleLogin == IssueState("apple")
FacebookLogin == IssueState("facebook")
TwitterLogin == IssueState("twitter")

\* The value stored under the state names the provider.
Accepted(s, p) == oauth[s] = p

\* A callback for account a: the provider has signed its owner in.
Callback(r, p, s, a) ==
    /\ Provider[a] = p
    /\ Accepted(s, p)
    /\ Begin(r, [pc |-> "drop", op |-> p, who |-> a, user |-> NoUser,
                 citizen |-> NoCitizen, state |-> s])
    /\ UNCHANGED <<users, citizens, oauth, pending, load, tied, relinked,
                   logins, spent, proofs, faulty>>

GoogleCallback(r, s, a) == Callback(r, "google", s, a)
AppleCallback(r, s, a) == Callback(r, "apple", s, a)
FacebookCallback(r, s, a) == Callback(r, "facebook", s, a)
TwitterCallback(r, s, a) == Callback(r, "twitter", s, a)

\* Mutant: the state is deleted only where a login succeeds.
Deleted_Kept(s) == oauth

Deleted(s) == [oauth EXCEPT ![s] = "gone"]

\* DEL of the state.  Its error is not looked at; the key may be gone or not.
DropState(r) ==
    /\ At(r, "drop")
    /\ \/ /\ oauth' = Deleted(req[r].state)
          /\ spent' = spent \cup {req[r].state}
       \/ /\ Fails
          /\ oauth' \in {oauth, Deleted(req[r].state)}
          /\ UNCHANGED spent
    /\ req' = [req EXCEPT ![r].pc = "find", ![r].state = NoState]
    /\ UNCHANGED <<users, citizens, pending, load, tied, relinked, logins,
                   proofs, faulty>>

Holder(a) == {u \in User : a \in users[u].accounts}

\* FindByEmail.  No row that is in use is without an address, and nobody is
\* looked for by an empty one.
Owner(e) == {u \in User : Exists(u) /\ users[u].email = e}

\* FindByProviderID.  Twitter never looks for the e-mail.
FindUser(r) ==
    LET a == req[r].who IN
    /\ At(r, "find")
    /\ \/ \E u \in Holder(a) :
             req' = [req EXCEPT ![r].pc = "enter", ![r].user = u]
       \/ /\ Holder(a) = {}
          /\ GoTo(r, IF req[r].op = "twitter" THEN "create" ELSE "match")
    /\ UNCHANGED <<users, citizens, oauth, pending, load, tied, relinked,
                   logins, spent, proofs, faulty>>

\* FindExistingUserForProvider: a user with this e-mail has to confirm.  Its
\* error counts as nobody found.
MatchEmail(r) ==
    LET e == Address[req[r].who] IN
    /\ At(r, "match")
    /\ \/ \E u \in Owner(e) :
             req' = [req EXCEPT ![r].pc = "pend", ![r].user = u]
       \/ /\ Owner(e) = {} \/ Fails
          /\ GoTo(r, "create")
    /\ UNCHANGED <<users, citizens, oauth, pending, load, tied, relinked,
                   logins, spent, proofs, faulty>>

\* SET of the pending link, over what may wait there; its error is dropped.
StorePending(r) ==
    /\ At(r, "pend")
    /\ \/ pending' = [pending EXCEPT ![req[r].user] = req[r].who]
       \/ Fails /\ UNCHANGED pending
    /\ Finish(r)
    /\ UNCHANGED <<users, citizens, oauth, load, tied, relinked, logins,
                   spent, proofs, faulty>>

\* The gen_id that is drawn belongs to nobody.
Unused(u) == ~Exists(u)

\* The INSERT of CreateFromProvider and of FindOrCreateByEmail.  The e-mail
\* and the provider column are unique: it fails if another row has one.
CreateUser(r) ==
    LET i == req[r].who
        accounts == {i} \cap Account
    IN
    /\ At(r, "create")
    /\ Owner(StoredEmail(i)) = {}
    /\ i \in Account => Holder(i) = {}
    /\ \E u \in User :
          /\ Unused(u)
          /\ users' = [users EXCEPT ![u] = [NoRow EXCEPT
                         !.email = StoredEmail(i), !.accounts = accounts]]
          /\ req' = [req EXCEPT ![r].pc = "enter", ![r].user = u]
          /\ tied' = tied \cup ({u} \X accounts)
    /\ UNCHANGED <<citizens, oauth, pending, load, relinked, logins, spent,
                   proofs, faulty>>

\* The request is answered with a token of the user.
Enter(r) ==
    /\ At(r, "enter")
    /\ logins' = logins \cup {<<req[r].user, req[r].who>>}
    /\ Finish(r)
    /\ UNCHANGED <<users, citizens, oauth, pending, load, tied, relinked,
                   spent, proofs, faulty>>

\* FindOrCreateByEmail, for somebody who has read the code sent to e: SELECT.
VerifyEmailOTP(r, e) ==
    /\ \/ \E u \in Owner(e) :
             Begin(r, About("email", "enter", e, u, NoCitizen))
       \/ /\ Owner(e) = {}
          /\ Begin(r, About("email", "create", e, NoUser, NoCitizen))
    /\ UNCHANGED <<users, citizens, oauth, pending, load, tied, relinked,
                   logins, spent, proofs, faulty>>

-----------------------------------------------------------------------------
(* A provider account is tied to a user who exists.                        *)

\* GET of the pending link, by whoever names the user and a number.
ConfirmIdentityLink(r, u, c) ==
    /\ pending[u] # Nobody
    /\ Begin(r, About("confirm", "check", pending[u], u, c))
    /\ UNCHANGED <<users, citizens, oauth, pending, load, tied, relinked,
                   logins, spent, proofs, faulty>>

\* Mutant: any registered citizen will do for a user who is verified.
SameCitizen_Any(u, c) == citizens[c] # "absent"

SameCitizen(u, c) ==
    /\ citizens[c] # "absent"
    /\ users[u].citizen \in {c, NoCitizen}

\* FindByGenID: a user without a citizen is linked to the one named, a
\* verified user must have named their own.
CheckCitizen(r) ==
    LET u == req[r].user
        c == req[r].citizen
    IN
    /\ At(r, "check")
    /\ \/ /\ ~users[u].verified
          /\ GoTo(r, "select")
          /\ UNCHANGED tied
       \/ /\ users[u].verified
          /\ SameCitizen(u, c)
          /\ GoTo(r, "tie")
          /\ tied' = IF users[u].citizen = c
                        THEN tied \cup {<<u, req[r].who>>} ELSE tied
       \/ /\ users[u].verified
          /\ ~SameCitizen(u, c)
          /\ Finish(r)
          /\ UNCHANGED tied
    /\ UNCHANGED <<users, citizens, oauth, pending, load, relinked, logins,
                   spent, proofs, faulty>>

\* One column for each provider: the account replaces the one there.
WithAccount(u, a) ==
    {b \in users[u].accounts : Provider[b] # Provider[a]} \cup {a}

\* LinkProviderID: UPDATE of the column; it fails if another row has the
\* account.
LinkProviderID(r) ==
    LET u == req[r].user
        a == req[r].who
    IN
    /\ At(r, "tie")
    /\ \/ /\ Holder(a) \subseteq {u}
          /\ users' = [users EXCEPT ![u].accounts = WithAccount(u, a)]
          /\ GoTo(r, "unpend")
       \/ /\ ~(Holder(a) \subseteq {u})
          /\ Finish(r)
          /\ UNCHANGED users
    /\ UNCHANGED <<citizens, oauth, pending, load, tied, relinked, logins,
                   spent, proofs, faulty>>

\* DEL of the pending link, whatever is stored there by now; its error is
\* dropped.
DropPending(r) ==
    /\ At(r, "unpend")
    /\ \/ pending' = [pending EXCEPT ![req[r].user] = Nobody]
       \/ Fails /\ UNCHANGED pending
    /\ GoTo(r, "enter")
    /\ UNCHANGED <<users, citizens, oauth, load, tied, relinked, logins,
                   spent, proofs, faulty>>

-----------------------------------------------------------------------------
(* LinkCitizen: a transaction, entered from a confirmation, a verification *)
(* by number or a DAN login.                                               *)

\* The row of the citizen is locked, or its number is taken by an INSERT,
\* until the transaction ends.
Locked(c) == \E r \in Req : At(r, "commit") /\ req[r].citizen = c

VerifyIdentity(r, u, c) ==
    /\ Exists(u)
    /\ Begin(r, About("verify", "select", Nobody, u, c))
    /\ UNCHANGED <<users, citizens, oauth, pending, load, tied, relinked,
                   logins, spent, proofs, faulty>>

DanCallback(r, u, c) ==
    /\ Exists(u)
    /\ Begin(r, About("dan", "select", Nobody, u, c))
    /\ UNCHANGED <<users, citizens, oauth, pending, load, tied, relinked,
                   logins, spent, proofs, faulty>>

\* SELECT ... FOR UPDATE; without a row the identity is resolved elsewhere.
SelectCitizen(r) ==
    LET c == req[r].citizen IN
    /\ At(r, "select")
    /\ \/ citizens[c] = "absent" /\ GoTo(r, "insert")
       \/ citizens[c] # "absent" /\ ~Locked(c) /\ GoTo(r, "commit")
    /\ UNCHANGED <<users, citizens, oauth, pending, load, tied, relinked,
                   logins, spent, proofs, faulty>>

\* The INSERT waits for another of the same number, and fails once that has
\* committed.
InsertCitizen(r) ==
    LET c == req[r].citizen IN
    /\ At(r, "insert")
    /\ ~Locked(c)
    /\ \/ citizens[c] = "absent" /\ GoTo(r, "commit")
       \/ citizens[c] # "absent" /\ Finish(r)
    /\ UNCHANGED <<users, citizens, oauth, pending, load, tied, relinked,
                   logins, spent, proofs, faulty>>

Inserted(c) == IF citizens[c] = "absent" THEN "core" ELSE citizens[c]

\* What the transaction leaves of the citizens.
Kept(c) == [citizens EXCEPT ![c] = Inserted(c)]

\* The level each check is worth.
Level(op) ==
    CASE op = "verify" -> 2
      [] op = "phone" -> 3
      [] op = "dan" -> 4

AfterLink(op) ==
    CASE op = "confirm" -> "tie"
      [] op = "verify" -> "level"
      [] op = "dan" -> "refresh"

\* Mutant: the columns are written one after the other, outside a transaction.
CommitLink_Split(r) ==
    LET u == req[r].user
        c == req[r].citizen
    IN
    /\ At(r, "commit")
    /\ \/ /\ ~users[u].verified
          /\ users' = [users EXCEPT ![u].verified = TRUE]
          /\ UNCHANGED <<citizens, req>>
       \/ /\ users[u].verified
          /\ users' = [users EXCEPT ![u].citizen = c]
          /\ citizens' = Kept(c)
          /\ GoTo(r, AfterLink(req[r].op))
    /\ UNCHANGED <<oauth, pending, load, tied, relinked, logins, spent,
                   proofs, faulty>>

\* The UPDATE of the user, of its citizen whoever that was before, and COMMIT.
\* A confirmation shows the account to be the user's if the citizen it names
\* is the user's own, or the user had none.
CommitLink(r) ==
    LET u == req[r].user
        c == req[r].citizen
        own == users[u].citizen \in {c, NoCitizen}
    IN
    /\ At(r, "commit")
    /\ users' = [users EXCEPT ![u].citizen = c, ![u].verified = TRUE]
    /\ citizens' = Kept(c)
    /\ tied' = IF req[r].op = "confirm" /\ own
                  THEN tied \cup {<<u, req[r].who>>} ELSE tied
    /\ relinked' = IF req[r].op = "confirm" /\ ~own
                      THEN relinked \cup {<<u, req[r].who>>} ELSE relinked
    /\ proofs' = IF req[r].op = "confirm" THEN proofs
                    ELSE proofs \cup {<<u, Level(req[r].op)>>}
    /\ GoTo(r, AfterLink(req[r].op))
    /\ UNCHANGED <<oauth, pending, load, logins, spent, faulty>>

\* RefreshCitizenFromCore; its error is logged only.
RefreshCitizen(r) ==
    LET c == req[r].citizen IN
    /\ At(r, "refresh")
    /\ \/ ~Locked(c) /\ citizens' = [citizens EXCEPT ![c] = "core"]
       \/ Fails /\ UNCHANGED citizens
    /\ GoTo(r, "level")
    /\ UNCHANGED <<users, oauth, pending, load, tied, relinked, logins, spent,
                   proofs, faulty>>

\* UpdateCitizenFromDAN: a row that exists takes what is told; none is made.
UpdateCitizenFromDAN(c) ==
    /\ citizens[c] # "absent"
    /\ ~Locked(c)
    /\ citizens' = [citizens EXCEPT ![c] = "dan"]

\* DAN sends the browser here with what it knows of the citizen.
DanAuthorized(c) ==
    /\ "dan" \in load
    /\ UpdateCitizenFromDAN(c)
    /\ UNCHANGED <<users, oauth, pending, req, load, tied, relinked, logins,
                   spent, proofs, faulty>>

\* The code sent to the user's telephone was right.
VerifyPhoneOTP(r, u) ==
    /\ Exists(u)
    /\ Begin(r, About("phone", "level", Nobody, u, NoCitizen))
    /\ proofs' = proofs \cup {<<u, 3>>}
    /\ UNCHANGED <<users, citizens, oauth, pending, load, tied, relinked,
                   logins, spent, faulty>>

\* Mutant: the level is overwritten.
Raised_Set(level, to) == to

\* UPDATE ... WHERE verification_level < $1.
Raised(level, to) == IF level < to THEN to ELSE level

UpdateVerificationLevel(r) ==
    LET u == req[r].user IN
    /\ At(r, "level")
    /\ \/ /\ users' = [users EXCEPT ![u].level = Raised(@, Level(req[r].op))]
          /\ UNCHANGED faulty
       \/ /\ Fails
          /\ faulty' = faulty \cup {u}
          /\ UNCHANGED users
    /\ Finish(r)
    /\ UNCHANGED <<citizens, oauth, pending, load, tied, relinked, logins,
                   spent, proofs>>

-----------------------------------------------------------------------------
\* The provider, a statement or the process fails and the request ends; a
\* transaction is rolled back.
Fail(r) ==
    /\ ~At(r, "idle")
    /\ faulty' = IF At(r, "refresh") \/ At(r, "level")
                    THEN faulty \cup {req[r].user} ELSE faulty
    /\ Finish(r)
    /\ UNCHANGED <<users, citizens, oauth, pending, load, tied, relinked,
                   logins, spent, proofs>>

\* Ten minutes pass for a state or for a pending link.
Expire ==
    /\ \/ /\ \E s \in State :
                oauth[s] \in Providers /\ oauth' = [oauth EXCEPT ![s] = "gone"]
          /\ UNCHANGED pending
       \/ /\ \E u \in User :
                pending[u] # Nobody /\ pending' = [pending EXCEPT ![u] = Nobody]
          /\ UNCHANGED oauth
    /\ UNCHANGED <<users, citizens, req, load, tied, relinked, logins, spent,
                   proofs, faulty>>

LoginStep(r) ==
    \/ \E s \in State, a \in Account :
          \/ GoogleCallback(r, s, a) \/ AppleCallback(r, s, a)
          \/ FacebookCallback(r, s, a) \/ TwitterCallback(r, s, a)
    \/ \E e \in Email : VerifyEmailOTP(r, e)
    \/ DropState(r) \/ FindUser(r) \/ MatchEmail(r) \/ StorePending(r)
    \/ CreateUser(r) \/ Enter(r)

LinkStep(r) ==
    \/ \E u \in User, c \in Citizen :
          \/ ConfirmIdentityLink(r, u, c)
          \/ VerifyIdentity(r, u, c) \/ DanCallback(r, u, c)
    \/ CheckCitizen(r) \/ LinkProviderID(r) \/ DropPending(r)
    \/ SelectCitizen(r) \/ InsertCitizen(r) \/ CommitLink(r)

LevelStep(r) ==
    \/ \E u \in User : VerifyPhoneOTP(r, u)
    \/ RefreshCitizen(r) \/ UpdateVerificationLevel(r)

AccountsNext ==
    \/ GoogleLogin \/ AppleLogin \/ FacebookLogin \/ TwitterLogin
    \/ \E r \in Req : LoginStep(r) \/ LinkStep(r) \/ LevelStep(r) \/ Fail(r)
    \/ \E c \in Citizen : DanAuthorized(c)
    \/ Expire

-----------------------------------------------------------------------------
\* Nobody is let in as a user by an identity that is not that user's: the row
\* was made from it, or a confirmation named the user's own citizen, or the
\* first one.  An e-mail is enough for who has read a code sent there, not for
\* an account whose provider tells it.  Excepted by name, and alone, is an
\* account whose confirmation was checked before the user had a citizen and
\* then replaced the one another request had linked meanwhile.
LoginsAreTied ==
    \A l \in logins : l \in tied \cup relinked \/ users[l[1]].email = l[2]

\* A state whose deletion Redis acknowledged lets no further callback in,
\* and no callback passes with the state of another provider.
StatesGuardCallbacks ==
    [][\A r \in Req :
          At(r, "idle") /\ req'[r].pc = "drop" =>
             /\ req'[r].state \notin spent
             /\ oauth[req'[r].state] = Provider[req'[r].who]]_accountVars

\* However links race, are refused and rolled back, the users who are
\* verified are those with a citizen, and its row exists.
VerifiedHasCitizen ==
    \A u \in User :
        /\ users[u].verified <=> users[u].citizen # NoCitizen
        /\ users[u].verified => citizens[users[u].citizen] # "absent"

=============================================================================
