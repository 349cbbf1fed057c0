----------------------------- MODULE SignSession -----------------------------
(***************************************************************************)
(* Signing sessions: a row of signing_sessions in the signing database and *)
(* a Redis hash that caches it.  The owner approves or denies a pending    *)
(* session; an approved one is completed with a signature, which adds a    *)
(* row to signing_logs.  Each operation reads the row, updates it by its   *)
(* key alone, writes the hash, and broadcasts the status to the browsers   *)
(* connected to the WebSocket hub, which asks each newcomer's status after *)
(* it is registered.  An error of a write to the hash is ignored.          *)
(*                                                                         *)
(* The certificate a completion names is checked against a table nothing   *)
(* here writes: only completions with an active one appear.                *)
(***************************************************************************)
EXTENDS Naturals

CONSTANTS
    User,
    Session,      \* session IDs (32 random bytes, never repeated)
    Req,          \* requests in progress at the same time
    Socket,       \* WebSocket connections open at the same time
    NoUser, NoSession,
    SessionTTL,   \* lifetime of a session and of its cache entry (10 min)
    MaxLogs,      \* bound: signatures of one session that are counted
    Fails         \* may a call to PostgreSQL or Redis fail, or a request die?

ASSUME SignAssumption ==
    /\ NoUser \notin User
    /\ NoSession \notin Session
    /\ SessionTTL \in Nat \ {0}
    /\ MaxLogs \in Nat
    /\ Fails \in BOOLEAN

VARIABLES
    row,      \* signing_sessions; ttl is the time to expires_at
    cache,    \* sign_session:<id>; a key with ttl = 0 lasts for ever
    logs,     \* signing_logs, as the number of signatures of each session
    req,      \* requests in progress
    sock,     \* connections and how far their handlers are
    decided,  \* history: decisions that passed the check
    disturbed,\* history: sessions that two requests have worked on at once,
              \* or a statement of which has failed
    uncached, \* history: sessions the last update of which never reached the
              \* cache
    unheard,  \* history: sessions a browser of which has missed a message
    told      \* history: statuses each connection has received

vars == <<row, cache, logs, req, sock, decided, disturbed, uncached, unheard, told>>

missed == <<uncached, unheard>>


-----------------------------------------------------------------------------
Status == {"none", "pending", "approved", "denied", "completed"}

Request ==
    [pc : {"idle", "create", "expire", "update", "log", "complete", "publish",
           "broadcast"},
     session : Session \cup {NoSession}, to : Status]

Idle == [pc |-> "idle", session |-> NoSession, to |-> "none"]

Absent == [status |-> "none", ttl |-> 0]

Closed == [pc |-> "closed", session |-> NoSession, read |-> "none"]

TypeOK ==
    /\ row \in [Session -> [status : Status, owner : User \cup {NoUser},
                            ttl : 0..SessionTTL]]
    /\ cache \in [Session -> [status : Status, ttl : 0..SessionTTL]]
    /\ logs \in [Session -> 0..MaxLogs]
    /\ req \in [Req -> Request]
    /\ sock \in [Socket -> [pc : {"closed", "status", "write", "open", "dead"},
                            session : Session \cup {NoSession}, read : Status]]
    /\ decided \subseteq [session : Session, by : User,
                          to : {"approved", "denied"}]
    /\ disturbed \subseteq Session
    /\ uncached \subseteq Session
    /\ unheard \subseteq Session
    /\ told \in [Socket -> SUBSET Status]

Init ==
    /\ row = [s \in Session |-> [status |-> "none", owner |-> NoUser, ttl |-> 0]]
    /\ cache = [s \in Session |-> Absent]
    /\ logs = [s \in Session |-> 0]
    /\ req = [r \in Req |-> Idle]
    /\ sock = [w \in Socket |-> Closed]
    /\ decided = {}
    /\ disturbed = {}
    /\ uncached = {}
    /\ unheard = {}
    /\ told = [w \in Socket |-> {}]

AtWork(s) == \E r \in Req : req[r].session = s

Finish(r) == req' = [req EXCEPT ![r] = Idle]

Begin(r, pc, s, to) ==
    /\ req[r].pc = "idle"
    /\ req' = [req EXCEPT ![r] = [pc |-> pc, session |-> s, to |-> to]]
    /\ disturbed' = IF AtWork(s) THEN disturbed \cup {s} ELSE disturbed

-----------------------------------------------------------------------------
\* CreateSignRequest: INSERT, HSET, EXPIRE.  The hash SendSignChallenge writes
\* after that is never read.  A request that dies before it has answered is
\* one that stays where it is: nobody else can name the session.
CreateSignRequest(r, u) ==
    \E s \in Session :
        /\ row[s].status = "none"
        /\ Begin(r, "create", s, "pending")
        /\ row' = [row EXCEPT ![s] = [status |-> "pending", owner |-> u,
                                      ttl |-> SessionTTL]]
        /\ UNCHANGED <<cache, logs, decided, sock, told, missed>>

CacheNew(r) ==
    /\ req[r].pc = "create"
    /\ \/ cache' = [cache EXCEPT ![req[r].session].status = "pending"]
       \/ Fails /\ UNCHANGED cache
    /\ req' = [req EXCEPT ![r].pc = "expire"]
    /\ UNCHANGED <<row, logs, decided, disturbed, sock, told, missed>>

ExpireNew(r) ==
    /\ req[r].pc = "expire"
    /\ \/ /\ cache[req[r].session].status # "none"
          /\ cache' = [cache EXCEPT ![req[r].session].ttl = SessionTTL]
       \/ /\ Fails \/ cache[req[r].session].status = "none"
          /\ UNCHANGED cache
    /\ Finish(r)
    /\ UNCHANGED <<row, logs, decided, disturbed, sock, told, missed>>

\* The client learns the ID from the answer.
Known(s) ==
    /\ row[s].status # "none"
    /\ ~\E r \in Req : req[r].pc \in {"create", "expire"} /\ req[r].session = s

\* Mutant: any session of the user that has not expired.
MayDecide_AnyStatus(s, u) == row[s].ttl > 0 /\ row[s].owner = u

\* Mutant: the owner is not compared.
MayDecide_AnyUser(s, u) == row[s].status = "pending" /\ row[s].ttl > 0

\* The SELECT of ApproveSignRequest and DenySignRequest, and the owner check.
MayDecide(s, u) ==
    /\ row[s].status = "pending"
    /\ row[s].ttl > 0
    /\ row[s].owner = u

Decide(r, s, u, to) ==
    /\ Known(s)
    /\ MayDecide(s, u)
    /\ Begin(r, "update", s, to)
    /\ decided' = decided \cup {[session |-> s, by |-> u, to |-> to]}
    /\ UNCHANGED <<row, cache, logs, sock, told, missed>>

ApproveSignRequest(r, s, u) == Decide(r, s, u, "approved")
DenySignRequest(r, s, u) == Decide(r, s, u, "denied")

\* UPDATE ... WHERE session_id = $1.
UpdateRow(r) ==
    /\ req[r].pc = "update"
    /\ row' = [row EXCEPT ![req[r].session].status = req[r].to]
    /\ req' = [req EXCEPT ![r].pc = "publish"]
    /\ UNCHANGED <<cache, logs, decided, disturbed, sock, told, missed>>

\* Mutant: a completed session may be completed again.
MayComplete_Again(s) == row[s].status \in {"approved", "completed"}

\* The status check of CompleteSign; it looks at neither the owner nor the
\* expiry.
MayComplete(s) == row[s].status = "approved"

CompleteSign(r, s) ==
    /\ MayComplete(s)
    /\ Begin(r, "log", s, "completed")
    /\ UNCHANGED <<row, cache, logs, decided, sock, told, missed>>

InsertLog(r) ==
    /\ req[r].pc = "log"
    /\ logs[req[r].session] < MaxLogs
    /\ logs' = [logs EXCEPT ![req[r].session] = @ + 1]
    /\ req' = [req EXCEPT ![r].pc = "complete"]
    /\ UNCHANGED <<row, cache, decided, disturbed, sock, told, missed>>

CompleteRow(r) ==
    /\ req[r].pc = "complete"
    /\ row' = [row EXCEPT ![req[r].session].status = "completed"]
    /\ req' = [req EXCEPT ![r].pc = "publish"]
    /\ UNCHANGED <<cache, logs, decided, disturbed, sock, told, missed>>

\* Mutant: the page is told, the cache is not.
Published_Skipped(r, entry) == entry

\* HSET of one field.
Published(r, entry) == [entry EXCEPT !.status = req[r].to]

Publish(r) ==
    LET s == req[r].session IN
    /\ req[r].pc = "publish"
    /\ \/ /\ cache' = [cache EXCEPT ![s] = Published(r, @)]
          /\ uncached' = uncached \ {s}
       \/ /\ Fails
          /\ uncached' = uncached \cup {s}
          /\ UNCHANGED cache
    /\ req' = [req EXCEPT ![r].pc = "broadcast"]
    /\ UNCHANGED <<row, logs, decided, disturbed, sock, told, unheard>>

-----------------------------------------------------------------------------
(* The WebSocket hub.                                                      *)

\* Mutant: a connection is registered once it has been sent the status.
Registered_Late(w) == sock[w].pc \in {"open", "dead"}

\* From the upgrade on, until the handler's deferred Unregister.
Registered(w) == sock[w].pc # "closed"

\* The connections of the session in the hub's map.
clients(s) == {w \in Socket : Registered(w) /\ sock[w].session = s}

\* Broadcast, under the read lock.  A connection the message cannot be written
\* to is closed and stays in the map.
Broadcast(r) ==
    LET s == req[r].session IN
    /\ req[r].pc = "broadcast"
    /\ \E lost \in SUBSET clients(s) :
          /\ told' = [w \in Socket |->
                        IF w \in clients(s) \ lost /\ sock[w].pc # "dead"
                          THEN told[w] \cup {req[r].to} ELSE told[w]]
          /\ sock' = [w \in Socket |->
                        IF w \in lost THEN [sock[w] EXCEPT !.pc = "dead"] ELSE sock[w]]
    /\ unheard' = unheard \ {s}
    /\ Finish(r)
    /\ UNCHANGED <<row, cache, logs, decided, disturbed, uncached>>

\* A connection its own handler is writing to does not bear a second writer:
\* the library panics, here in the broadcast, with some connections served.
BroadcastPanics(r) ==
    LET s == req[r].session IN
    /\ req[r].pc = "broadcast"
    /\ \E w \in clients(s) : sock[w].pc = "write"
    /\ \E served \in SUBSET clients(s) :
          told' = [w \in Socket |->
                     IF w \in served /\ sock[w].pc = "open"
                       THEN told[w] \cup {req[r].to} ELSE told[w]]
    /\ unheard' = unheard \cup {s}
    /\ Finish(r)
    /\ UNCHANGED <<row, cache, logs, sock, decided, disturbed, uncached>>

\* GetSigningStatus: the cache first; without an entry the row.
GetSigningStatus(s) ==
    IF cache[s].status # "none" THEN cache[s].status ELSE row[s].status

\* Upgrade and Register.
SignWebSocket(w, s) ==
    /\ Known(s)
    /\ sock[w] = Closed
    /\ sock' = [sock EXCEPT ![w] = [pc |-> "status", session |-> s, read |-> "none"]]
    /\ UNCHANGED <<row, cache, logs, req, decided, disturbed, told, missed>>

\* The row is also read when the HGET fails.  After an error of both the
\* browser is sent "unknown", here "none".
ReadStatus(w) ==
    LET s == sock[w].session IN
    /\ sock[w].pc = "status"
    /\ \/ /\ sock' = [sock EXCEPT ![w].pc = "write", ![w].read = GetSigningStatus(s)]
          /\ UNCHANGED unheard
       \/ /\ Fails
          /\ sock' = [sock EXCEPT ![w].pc = "write", ![w].read = row[s].status]
          /\ UNCHANGED unheard
       \/ /\ Fails
          /\ sock' = [sock EXCEPT ![w].pc = "write"]
          /\ unheard' = unheard \cup {s}
    /\ UNCHANGED <<row, cache, logs, req, decided, disturbed, uncached, told>>

WriteStatus(w) ==
    /\ sock[w].pc = "write"
    /\ told' = [told EXCEPT ![w] = @ \cup {sock[w].read}]
    /\ sock' = [sock EXCEPT ![w].pc = "open", ![w].read = "none"]
    /\ UNCHANGED <<row, cache, logs, req, decided, disturbed, missed>>

\* The read fails: the browser has left, or sixty seconds are over; or the
\* handler has panicked.  Unregister and Close.
CloseSocket(w) ==
    /\ sock[w].pc # "closed"
    /\ sock' = [sock EXCEPT ![w] = Closed]
    /\ told' = [told EXCEPT ![w] = {}]
    /\ UNCHANGED <<row, cache, logs, req, decided, disturbed, missed>>

-----------------------------------------------------------------------------
\* The next statement fails, or the request dies before it.
StatementFails(r) ==
    /\ Fails
    /\ req[r].pc \in {"update", "log", "complete"}
    /\ Finish(r)
    /\ disturbed' = disturbed \cup {req[r].session}
    /\ UNCHANGED <<row, cache, logs, decided, sock, told, missed>>

\* The request dies with the row written and the cache not, or with the cache
\* written and nobody told.
RequestDies(r) ==
    /\ Fails
    /\ \/ /\ req[r].pc = "publish"
          /\ uncached' = uncached \cup {req[r].session}
          /\ UNCHANGED unheard
       \/ /\ req[r].pc = "broadcast"
          /\ unheard' = unheard \cup {req[r].session}
          /\ UNCHANGED uncached
    /\ Finish(r)
    /\ UNCHANGED <<row, cache, logs, decided, disturbed, sock, told>>

Tick ==
    /\ \E s \in Session : row[s].ttl > 0 \/ cache[s].ttl > 0
    /\ row' = [s \in Session |->
                  [row[s] EXCEPT !.ttl = IF @ = 0 THEN 0 ELSE @ - 1]]
    /\ cache' = [s \in Session |->
                  CASE cache[s].ttl = 0 -> cache[s]
                    [] cache[s].ttl = 1 -> Absent
                    [] OTHER -> [cache[s] EXCEPT !.ttl = @ - 1]]
    /\ UNCHANGED <<logs, req, decided, disturbed, sock, told, missed>>

Next ==
    \/ \E r \in Req :
          \/ \E u \in User : CreateSignRequest(r, u)
          \/ \E s \in Session, u \in User :
                ApproveSignRequest(r, s, u) \/ DenySignRequest(r, s, u)
          \/ \E s \in Session : CompleteSign(r, s)
          \/ CacheNew(r) \/ ExpireNew(r) \/ UpdateRow(r) \/ InsertLog(r)
          \/ CompleteRow(r) \/ Publish(r) \/ StatementFails(r) \/ RequestDies(r)
          \/ Broadcast(r) \/ BroadcastPanics(r)
    \/ \E w \in Socket :
          \/ \E s \in Session : SignWebSocket(w, s)
          \/ ReadStatus(w) \/ WriteStatus(w) \/ CloseSocket(w)
    \/ Tick

Spec == Init /\ [][Next]_vars

-----------------------------------------------------------------------------
\* A document is signed only in a session that its owner approved.
SignedWasApproved ==
    \A s \in Session :
        logs[s] > 0
        => [session |-> s, by |-> row[s].owner, to |-> "approved"] \in decided

\* The three that follow are about the sessions no two requests work on at
\* once and whose statements succeed; cache writes and broadcasts may fail.
Undisturbed == Session \ disturbed

\* Nobody decides a session twice.
DecidedOnce ==
    \A d, e \in decided :
        d.session = e.session /\ d.session \in Undisturbed => d = e

\* A signature is logged in a session that is approved at that moment: not in
\* one that was completed before, nor in one that was denied.
SignedWhileApproved ==
    [][\A s \in Undisturbed :
          logs'[s] # logs[s] => row[s].status = "approved"]_vars

\* Pairs of statuses the first of which a session has before the second.
Earlier ==
    {<<"approved", "completed">>}
    \cup {"pending"} \X {"approved", "denied", "completed"}

\* What a status request is told of a session nobody is working on is what
\* the row says; if the last update never reached the cache it may be a status
\* the session has left, but none it has not reached, and the next update that
\* reaches the cache mends it.
StatusIsTrue ==
    \A s \in Undisturbed : ~AtWork(s) =>
        \/ GetSigningStatus(s) = row[s].status
        \/ s \in uncached /\ <<GetSigningStatus(s), row[s].status>> \in Earlier

\* A browser that stays connected has been told the status the session is
\* left in, whether it came before the broadcast or after it, unless that
\* status was not cached or not sent.
NobodyMissesTheStatus ==
    \A w \in Socket :
        LET s == sock[w].session IN
        sock[w].pc = "open" /\ s \in Undisturbed /\ ~AtWork(s)
        => row[s].status \in told[w] \/ s \in uncached \cup unheard

=============================================================================
