-------------------------- MODULE SignSession_proofs --------------------------
(***************************************************************************)
(* A document is signed only in a session its owner approved: for any      *)
(* numbers of users, sessions, requests and connections, however requests  *)
(* overlap, and whatever statements and broadcasts fail.                   *)
(***************************************************************************)
EXTENDS SignSession, TLAPS

OwnerApproved(s) ==
    [session |-> s, by |-> row[s].owner, to |-> "approved"] \in decided

\* From the check of an approval to the signature, everything that says
\* "approved" or rests on it goes back to a decision of the owner.
Backed ==
    /\ \A r \in Req : req[r].pc # "idle" =>
          /\ req[r].session \in Session
          /\ row[req[r].session].status # "none"
    /\ \A r \in Req : req[r].pc = "update" =>
          /\ req[r].to # "none"
          /\ req[r].to = "approved" => OwnerApproved(req[r].session)
    /\ \A r \in Req : req[r].pc = "log" => OwnerApproved(req[r].session)
    /\ \A s \in Session : row[s].status = "none" => logs[s] = 0
    /\ \A s \in Session : row[s].status = "approved" => OwnerApproved(s)

\* The types that the argument needs.
RowsTyped ==
    /\ row \in [Session -> [status : Status, owner : User \cup {NoUser},
                            ttl : 0..SessionTTL]]
    /\ req \in [Req -> Request]
    /\ logs \in [Session -> 0..MaxLogs]

SignInv == RowsTyped /\ Backed /\ SignedWasApproved

LEMMA SignInvInit == Init => SignInv
  BY SignAssumption
  DEF Init, SignInv, RowsTyped, Backed, SignedWasApproved, Request, Idle, Status

LEMMA IdleType == Idle \in Request
  BY DEF Idle, Request, Status

\* A request moves on, and keeps its type.
LEMMA RequestMoves ==
    ASSUME NEW q \in Request,
           NEW p \in {"idle", "create", "expire", "update", "log", "complete",
                      "publish", "broadcast"}
    PROVE  [q EXCEPT !.pc = p] \in Request
  BY DEF Request

\* Whatever happens to the cache, to the connections and to the history of
\* disturbances, and wherever requests go from here except to an update or a
\* signature.
LEMMA Elsewhere ==
    ASSUME SignInv, UNCHANGED <<row, logs, decided>>,
           NEW r \in Req, NEW p \in {"idle", "expire", "publish", "broadcast"},
           \/ req' = [req EXCEPT ![r] = Idle]
           \/ req' = [req EXCEPT ![r].pc = p] /\ req[r].pc # "idle"
    PROVE  SignInv'
  <1> USE DEF SignInv, RowsTyped, Backed, SignedWasApproved, OwnerApproved
  <1>1. CASE req' = [req EXCEPT ![r] = Idle]
    BY <1>1, IdleType DEF Idle
  <1>2. CASE req' = [req EXCEPT ![r].pc = p] /\ req[r].pc # "idle"
    <2>1. req' = [req EXCEPT ![r] = [req[r] EXCEPT !.pc = p]]
      BY <1>2
    <2>2. [req[r] EXCEPT !.pc = p] \in Request
      BY RequestMoves
    <2>3. req' \in [Req -> Request]
      BY <2>1, <2>2
    <2>4. QED
      BY <1>2, <2>3 DEF Request
  <1>3. QED
    BY <1>1, <1>2

LEMMA SignInvNext == SignInv /\ [Next]_vars => SignInv'
  <1> SUFFICES ASSUME SignInv, [Next]_vars
               PROVE  SignInv'
    OBVIOUS
  <1>t. RowsTyped /\ Backed /\ SignedWasApproved
    BY DEF SignInv
  <1> USE SignAssumption, <1>t, IdleType
  <1> USE DEF RowsTyped, Backed, SignedWasApproved, OwnerApproved
  <1>1. ASSUME NEW r \in Req, NEW u \in User, CreateSignRequest(r, u)
        PROVE  SignInv'
    <2>1. PICK s \in Session :
              /\ row[s].status = "none"
              /\ Begin(r, "create", s, "pending")
              /\ row' = [row EXCEPT ![s] = [status |-> "pending", owner |-> u,
                                            ttl |-> SessionTTL]]
      BY <1>1 DEF CreateSignRequest
    <2>2. req' = [req EXCEPT ![r] = [pc |-> "create", session |-> s, to |-> "pending"]]
          /\ UNCHANGED <<logs, decided>>
      BY <1>1, <2>1 DEF Begin, CreateSignRequest
    <2>3. RowsTyped'
      BY <2>1, <2>2 DEF Request, Status
    <2>4. \A z \in Session : z # s => row'[z] = row[z]
      BY <2>1
    <2>5. \A q \in Req : q # r /\ req[q].pc # "idle" => req[q].session # s
      BY <2>1
    <2>6. row'[s].status = "pending" /\ logs[s] = 0
      BY <2>1
    <2>7. Backed'
      BY <2>2, <2>4, <2>5, <2>6
    <2>8. SignedWasApproved'
      BY <2>2, <2>4, <2>6
    <2>9. QED
      BY <2>3, <2>7, <2>8 DEF SignInv
  <1>2. ASSUME NEW r \in Req,
               \/ CacheNew(r) \/ ExpireNew(r) \/ Publish(r)
               \/ StatementFails(r) \/ Broadcast(r) \/ BroadcastPanics(r)
               \/ RequestDies(r)
        PROVE  SignInv'
    BY <1>2, Elsewhere
    DEF CacheNew, ExpireNew, Publish, StatementFails, RequestDies, Broadcast,
        BroadcastPanics, Finish
  <1>3. ASSUME NEW r \in Req, NEW s \in Session, NEW u \in User,
               NEW to \in {"approved", "denied"}, Decide(r, s, u, to)
        PROVE  SignInv'
    <2>1. /\ req' = [req EXCEPT ![r] = [pc |-> "update", session |-> s, to |-> to]]
          /\ decided' = decided \cup {[session |-> s, by |-> u, to |-> to]}
          /\ row[s].status = "pending" /\ row[s].owner = u
          /\ UNCHANGED <<row, logs>>
      BY <1>3 DEF Decide, Begin, MayDecide
    <2>2. RowsTyped'
      BY <2>1 DEF Request, Status
    <2>3. \A z \in Session : OwnerApproved(z) => OwnerApproved(z)'
      BY <2>1
    <2>4. to = "approved" => OwnerApproved(s)'
      BY <2>1
    <2> HIDE DEF OwnerApproved
    <2>5. Backed'
      BY <2>1, <2>3, <2>4
    <2>6. SignedWasApproved'
      BY <2>1, <2>3 DEF OwnerApproved
    <2>7. QED
      BY <2>2, <2>5, <2>6 DEF SignInv
  <1>4. ASSUME NEW r \in Req, UpdateRow(r) \/ CompleteRow(r)
        PROVE  SignInv'
    <2>1. PICK to \in Status \ {"none"} :
              /\ row' = [row EXCEPT ![req[r].session].status = to]
              /\ to = "approved" => OwnerApproved(req[r].session)
      BY <1>4 DEF UpdateRow, CompleteRow, Request, Status
    <2>2. /\ req' = [req EXCEPT ![r].pc = "publish"]
          /\ req[r].session \in Session /\ req[r].pc # "idle"
          /\ UNCHANGED <<logs, decided>>
      BY <1>4 DEF UpdateRow, CompleteRow
    <2>3. RowsTyped'
      <3>1. [req[r] EXCEPT !.pc = "publish"] \in Request
        BY RequestMoves
      <3>2. QED
        BY <2>1, <2>2, <3>1
    <2>4. \A z \in Session : row'[z].owner = row[z].owner
      BY <2>1, <2>2
    <2>5. \A z \in Session : row'[z].status = IF z = req[r].session THEN to ELSE row[z].status
      BY <2>1, <2>2
    <2>6. \A z \in Session : OwnerApproved(z)' <=> OwnerApproved(z)
      BY <2>2, <2>4
    <2>7. \A q \in Req : /\ req'[q].session = req[q].session
                         /\ req'[q].to = req[q].to
                         /\ req'[q].pc = IF q = r THEN "publish" ELSE req[q].pc
      BY <2>2 DEF Request
    <2> HIDE DEF OwnerApproved
    <2>8. Backed'
      BY <2>1, <2>2, <2>5, <2>6, <2>7
    <2>9. SignedWasApproved'
      BY <2>2, <2>6 DEF OwnerApproved
    <2>10. QED
      BY <2>3, <2>8, <2>9 DEF SignInv
  <1>5. ASSUME NEW r \in Req, NEW s \in Session, CompleteSign(r, s)
        PROVE  SignInv'
    <2>1. /\ req' = [req EXCEPT ![r] = [pc |-> "log", session |-> s, to |-> "completed"]]
          /\ row[s].status = "approved"
          /\ UNCHANGED <<row, logs, decided>>
      BY <1>5 DEF CompleteSign, Begin, MayComplete
    <2>2. RowsTyped'
      BY <2>1 DEF Request, Status
    <2>3. QED
      BY <2>1, <2>2 DEF SignInv
  <1>6. ASSUME NEW r \in Req, InsertLog(r)
        PROVE  SignInv'
    <2>1. /\ req[r].pc = "log"
          /\ logs[req[r].session] < MaxLogs
          /\ logs' = [logs EXCEPT ![req[r].session] = @ + 1]
          /\ req' = [req EXCEPT ![r].pc = "complete"]
          /\ UNCHANGED <<row, decided>>
      BY <1>6 DEF InsertLog
    <2>2. RowsTyped'
      <3>1. [req[r] EXCEPT !.pc = "complete"] \in Request
        BY RequestMoves
      <3>2. logs' \in [Session -> 0..MaxLogs]
        BY <2>1
      <3>3. QED
        BY <2>1, <3>1, <3>2
    <2>3. \A q \in Req : /\ req'[q].session = req[q].session
                         /\ req'[q].to = req[q].to
                         /\ req'[q].pc = IF q = r THEN "complete" ELSE req[q].pc
      BY <2>1 DEF Request
    <2>4. \A s \in Session : s # req[r].session => logs'[s] = logs[s]
      BY <2>1
    <2>5. Backed'
      BY <2>1, <2>3, <2>4
    <2>6. SignedWasApproved'
      BY <2>1, <2>4
    <2>7. QED
      BY <2>2, <2>5, <2>6 DEF SignInv
  <1>7. ASSUME NEW w \in Socket,
               \/ \E s \in Session : SignWebSocket(w, s)
               \/ ReadStatus(w) \/ WriteStatus(w) \/ CloseSocket(w)
        PROVE  SignInv'
    <2>1. UNCHANGED <<row, logs, req, decided>>
      BY <1>7 DEF SignWebSocket, ReadStatus, WriteStatus, CloseSocket
    <2>2. QED
      BY <2>1 DEF SignInv
  <1>8. CASE Tick
    <2>1. /\ row' = [s \in Session |->
                        [row[s] EXCEPT !.ttl = IF @ = 0 THEN 0 ELSE @ - 1]]
          /\ UNCHANGED <<logs, req, decided>>
      BY <1>8 DEF Tick
    <2>2. \A s \in Session : /\ row'[s].status = row[s].status
                             /\ row'[s].owner = row[s].owner
      BY <2>1
    <2>3. RowsTyped'
      <3>1. ASSUME NEW s \in Session
            PROVE  (IF row[s].ttl = 0 THEN 0 ELSE row[s].ttl - 1) \in 0..SessionTTL
        <4>1. row[s].ttl \in 0..SessionTTL
          OBVIOUS
        <4>2. QED
          BY <4>1
      <3>2. ASSUME NEW s \in Session, NEW n \in 0..SessionTTL
            PROVE  [row[s] EXCEPT !.ttl = n]
                     \in [status : Status, owner : User \cup {NoUser}, ttl : 0..SessionTTL]
        OBVIOUS
      <3>3. QED
        BY <2>1, <3>1, <3>2
    <2>4. QED
      BY <2>1, <2>2, <2>3 DEF SignInv
  <1>9. CASE UNCHANGED vars
    BY <1>9 DEF vars, SignInv
  <1>10. QED
    BY <1>1, <1>2, <1>3, <1>4, <1>5, <1>6, <1>7, <1>8, <1>9
    DEF Next, ApproveSignRequest, DenySignRequest

\* No signature is logged in a session its owner did not approve, although the
\* completion looks at neither the owner nor the expiry, and every UPDATE is by
\* the key alone.
THEOREM SignSignedWasApproved == Spec => []SignedWasApproved
  <1>1. SignInv => SignedWasApproved
    BY DEF SignInv
  <1>2. QED
    BY <1>1, SignInvInit, SignInvNext, PTL DEF Spec

-----------------------------------------------------------------------------
(* Sessions that no two requests work on at once, and whose statements      *)
(* succeed, whatever becomes of their cache writes and broadcasts.          *)

Works(r, s) == req[r].session = s

Undecided(s) == \A d \in decided : d.session # s

Unwatched(s) == \A w \in Socket : sock[w].session # s

\* Idle requests and closed connections are about no session.
Rested ==
    /\ \A r \in Req : req[r].pc = "idle" => req[r].session = NoSession
    /\ \A w \in Socket : sock[w].pc = "closed" <=> sock[w].session = NoSession

\* Nothing has happened to a session that has no row.
Grounded(s) ==
    row[s].status = "none" =>
        /\ cache[s].status = "none"
        /\ Undecided(s)
        /\ Unwatched(s)
        /\ \A r \in Req : ~Works(r, s)

\* The cache has nothing, or what the row had before.
Trailing(s) ==
    cache[s].status = "none" \/ <<cache[s].status, row[s].status>> \in Earlier

\* The cache has nothing, or what the row has; what the row had before only
\* after a lost write.
InStep(s) ==
    \/ cache[s].status \in {"none", row[s].status}
    \/ s \in uncached /\ Trailing(s)

\* A browser of the session may have missed the status.
Missed(s) == s \in uncached \cup unheard

\* What the request that works on session s relies on, at each statement.
Stage(r, s) ==
    /\ req[r].pc \in {"create", "expire"} =>
          row[s].status = "pending" /\ Undecided(s) /\ Unwatched(s)
    /\ req[r].pc = "create" => cache[s].status = "none"
    /\ req[r].pc = "update" =>
          row[s].status = "pending" /\ req[r].to \in {"approved", "denied"}
    /\ req[r].pc \in {"log", "complete"} =>
          row[s].status = "approved" /\ req[r].to = "completed"
    /\ req[r].pc \in {"publish", "broadcast"} =>
          row[s].status = req[r].to /\ req[r].to \notin {"none", "pending"}
    /\ req[r].pc = "publish" => Trailing(s)
    /\ req[r].pc # "publish" => InStep(s)

\* A status that is about to be broadcast.
Coming(s) == \E r \in Req : Works(r, s) /\ req[r].pc \in {"publish", "broadcast"}

\* A connection has been told the status, or is about to be.
Informed(w, s) ==
    sock[w].session = s /\ sock[w].pc \in {"write", "open"} =>
        \/ row[s].status \in told[w]
        \/ sock[w].pc = "write" /\ sock[w].read = row[s].status

Calm(s) ==
    /\ Grounded(s)
    /\ s \notin disturbed =>
          /\ \A r, q \in Req : Works(r, s) /\ Works(q, s) => r = q
          /\ \A r \in Req : Works(r, s) => Stage(r, s)
          /\ ~AtWork(s) => InStep(s)
          /\ row[s].status = "pending" /\ (\A r \in Req : Works(r, s) => req[r].pc # "update")
             => Undecided(s)
          /\ \A d, e \in decided : d.session = s /\ e.session = s => d = e
          /\ Missed(s) \/ Coming(s) \/ \A w \in Socket : Informed(w, s)

AllCalm == \A s \in Session : Calm(s)

SessInv == SignInv /\ TypeOK /\ Rested /\ AllCalm

-----------------------------------------------------------------------------
(* Types.                                                                  *)

SockType == [pc : {"closed", "status", "write", "open", "dead"},
             session : Session \cup {NoSession}, read : Status]

\* A connection moves on, and keeps its type.
LEMMA SockMoves ==
    ASSUME NEW c \in SockType, NEW n \in Status,
           NEW p \in {"closed", "status", "write", "open", "dead"}
    PROVE  /\ [c EXCEPT !.pc = p] \in SockType
           /\ [c EXCEPT !.pc = p, !.read = n] \in SockType
  BY DEF SockType

LEMMA TypeStep == SignInv /\ TypeOK /\ Rested /\ [Next]_vars => TypeOK'
  <1> SUFFICES ASSUME SignInv, TypeOK, Rested, [Next]_vars
               PROVE  TypeOK'
    OBVIOUS
  <1>0. SignInv'
    BY SignInvNext
  <1>1. /\ row' \in [Session -> [status : Status, owner : User \cup {NoUser},
                                 ttl : 0..SessionTTL]]
        /\ req' \in [Req -> Request]
        /\ logs' \in [Session -> 0..MaxLogs]
    BY <1>0 DEF SignInv, RowsTyped
  <1>t. /\ cache \in [Session -> [status : Status, ttl : 0..SessionTTL]]
        /\ row \in [Session -> [status : Status, owner : User \cup {NoUser},
                                ttl : 0..SessionTTL]]
        /\ sock \in [Socket -> SockType]
        /\ told \in [Socket -> SUBSET Status]
        /\ decided \subseteq [session : Session, by : User, to : {"approved", "denied"}]
        /\ disturbed \subseteq Session /\ uncached \subseteq Session
        /\ unheard \subseteq Session
        /\ req \in [Req -> Request]
        /\ \A r \in Req : req[r].pc # "idle" => req[r].session \in Session
        /\ \A r \in Req : req[r].to \in Status
        /\ SessionTTL \in Nat /\ SessionTTL > 0 /\ 0 \in 0..SessionTTL
        /\ "none" \in Status /\ "pending" \in Status
        /\ Closed \in SockType /\ NoSession \notin Session
    BY SignAssumption DEF SignInv, Backed, TypeOK, SockType, Request, Status, Closed
  <1>s. \A w \in Socket : sock[w].pc # "closed" => sock[w].session \in Session
    BY <1>t DEF Rested, SockType
  <1> DEFINE Rest == /\ cache \in [Session -> [status : Status, ttl : 0..SessionTTL]]
                     /\ sock \in [Socket -> SockType]
                     /\ decided \subseteq [session : Session, by : User,
                                           to : {"approved", "denied"}]
                     /\ disturbed \subseteq Session
                     /\ uncached \subseteq Session
                     /\ unheard \subseteq Session
                     /\ told \in [Socket -> SUBSET Status]
  <1>r. SUFFICES Rest'
    BY <1>1 DEF TypeOK, SockType
  <1>b. ASSUME NEW r \in Req, NEW p, NEW s \in Session, NEW to, Begin(r, p, s, to)
        PROVE  disturbed' \subseteq Session
    BY <1>t, <1>b DEF Begin
  <1>2. ASSUME NEW r \in Req, NEW u \in User, CreateSignRequest(r, u)
        PROVE  Rest'
    BY <1>t, <1>b, <1>2 DEF CreateSignRequest, missed
  <1>3. ASSUME NEW r \in Req, NEW s \in Session, NEW u \in User,
               NEW to \in {"approved", "denied"}, Decide(r, s, u, to)
        PROVE  Rest'
    BY <1>t, <1>b, <1>3 DEF Decide, missed
  <1>4. ASSUME NEW r \in Req, NEW s \in Session, CompleteSign(r, s)
        PROVE  Rest'
    BY <1>t, <1>b, <1>4 DEF CompleteSign, missed
  <1>5. ASSUME NEW r \in Req, CacheNew(r) \/ ExpireNew(r) \/ Publish(r)
        PROVE  Rest'
    <2>1. PICK s \in Session, n \in Status, t \in 0..SessionTTL :
             \/ cache' = [cache EXCEPT ![s].status = n]
             \/ cache' = [cache EXCEPT ![s].ttl = t]
             \/ cache' = cache
      <3>1. req[r].session \in Session /\ req[r].to \in Status
        BY <1>t, <1>5 DEF CacheNew, ExpireNew, Publish
      <3>2. SessionTTL \in 0..SessionTTL
        BY <1>t
      <3>3. CASE CacheNew(r)
        BY <1>t, <3>1, <3>3 DEF CacheNew
      <3>4. CASE ExpireNew(r)
        BY <1>t, <3>1, <3>2, <3>4 DEF ExpireNew
      <3>5. CASE Publish(r)
        <4>1. \/ cache' = [cache EXCEPT ![req[r].session].status = req[r].to]
              \/ cache' = cache
          BY <3>5 DEF Publish, Published
        <4>2. QED
          BY <1>t, <3>1, <4>1
      <3>6. QED
        BY <1>5, <3>3, <3>4, <3>5
    <2>2. cache' \in [Session -> [status : Status, ttl : 0..SessionTTL]]
      BY <1>t, <2>1
    <2>3. UNCHANGED <<sock, decided, disturbed, told, unheard>>
      BY <1>5 DEF CacheNew, ExpireNew, Publish, missed
    <2>4. uncached' \subseteq Session
      BY <1>t, <1>5 DEF CacheNew, ExpireNew, Publish, missed
    <2>5. QED
      BY <1>t, <2>2, <2>3, <2>4
  <1>6. ASSUME NEW r \in Req, UpdateRow(r) \/ InsertLog(r) \/ CompleteRow(r)
        PROVE  Rest'
    BY <1>t, <1>6 DEF UpdateRow, InsertLog, CompleteRow, missed
  <1>7. ASSUME NEW r \in Req, StatementFails(r) \/ RequestDies(r)
        PROVE  Rest'
    BY <1>t, <1>7 DEF StatementFails, RequestDies, missed
  <1>8. ASSUME NEW r \in Req, Broadcast(r) \/ BroadcastPanics(r)
        PROVE  Rest'
    <2>1. req[r].to \in Status /\ req[r].session \in Session
      BY <1>t, <1>8 DEF Broadcast, BroadcastPanics
    <2>2. told' \in [Socket -> SUBSET Status]
      BY <1>t, <1>8, <2>1 DEF Broadcast, BroadcastPanics
    <2>3. \A w \in Socket : [sock[w] EXCEPT !.pc = "dead"] \in SockType
      BY <1>t, SockMoves
    <2>4. sock' \in [Socket -> SockType]
      BY <1>t, <1>8, <2>3 DEF Broadcast, BroadcastPanics
    <2>5. QED
      BY <1>t, <1>8, <2>1, <2>2, <2>4 DEF Broadcast, BroadcastPanics
  <1>9. ASSUME NEW w \in Socket, NEW s \in Session, SignWebSocket(w, s)
        PROVE  Rest'
    <2>1. [pc |-> "status", session |-> s, read |-> "none"] \in SockType
      BY <1>t DEF SockType
    <2>2. QED
      BY <1>t, <1>9, <2>1 DEF SignWebSocket, missed
  <1>10. ASSUME NEW w \in Socket, ReadStatus(w)
         PROVE  Rest'
    <2>1. sock[w].session \in Session
      BY <1>s, <1>10 DEF ReadStatus
    <2>2. /\ GetSigningStatus(sock[w].session) \in Status
          /\ row[sock[w].session].status \in Status
      BY <1>t, <2>1 DEF GetSigningStatus
    <2>3. PICK n \in Status :
             \/ sock' = [sock EXCEPT ![w].pc = "write", ![w].read = n]
             \/ sock' = [sock EXCEPT ![w].pc = "write"]
      BY <1>10, <1>t, <2>2 DEF ReadStatus
    <2>4. /\ [sock[w] EXCEPT !.pc = "write"] \in SockType
          /\ [sock[w] EXCEPT !.pc = "write", !.read = n] \in SockType
      BY <1>t, SockMoves
    <2>5. sock' \in [Socket -> SockType]
      BY <1>t, <2>3, <2>4
    <2>6. QED
      BY <1>t, <1>10, <2>1, <2>5 DEF ReadStatus
  <1>11. ASSUME NEW w \in Socket, WriteStatus(w)
         PROVE  Rest'
    <2>1. [sock[w] EXCEPT !.pc = "open", !.read = "none"] \in SockType
      BY <1>t, SockMoves
    <2>2. sock' = [sock EXCEPT ![w] = [sock[w] EXCEPT !.pc = "open", !.read = "none"]]
      BY <1>11 DEF WriteStatus
    <2>3. sock' \in [Socket -> SockType]
      BY <1>t, <2>1, <2>2
    <2>4. sock[w].read \in Status
      BY <1>t DEF SockType
    <2>5. QED
      BY <1>t, <1>11, <2>3, <2>4 DEF WriteStatus, missed
  <1>12. ASSUME NEW w \in Socket, CloseSocket(w)
         PROVE  Rest'
    BY <1>t, <1>12 DEF CloseSocket, missed
  <1>13. CASE Tick
    <2>1. ASSUME NEW s \in Session
          PROVE  cache'[s] \in [status : Status, ttl : 0..SessionTTL]
      <3>1. cache[s].ttl \in 0..SessionTTL /\ Absent \in [status : Status, ttl : 0..SessionTTL]
        BY <1>t DEF Absent
      <3>e. \A n \in 0..SessionTTL : n # 0 => n - 1 \in 0..SessionTTL
        BY SignAssumption
      <3>2. cache[s].ttl # 0 => cache[s].ttl - 1 \in 0..SessionTTL
        BY <3>1, <3>e
      <3>3. \/ cache'[s] = cache[s] \/ cache'[s] = Absent
            \/ cache[s].ttl # 0 /\ cache'[s] = [cache[s] EXCEPT !.ttl = cache[s].ttl - 1]
        BY <1>13 DEF Tick
      <3>4. QED
        BY <1>t, <3>1, <3>2, <3>3
    <2>2. cache' \in [Session -> [status : Status, ttl : 0..SessionTTL]]
      <3>1. DOMAIN cache' = Session /\ cache' = [s \in Session |-> cache'[s]]
        BY <1>13 DEF Tick
      <3>2. QED
        BY <2>1, <3>1
    <2>3. QED
      BY <1>t, <1>13, <2>2 DEF Tick, missed
  <1>14. CASE UNCHANGED vars
    BY <1>t, <1>14 DEF vars
  <1>15. QED
    BY <1>2, <1>3, <1>4, <1>5, <1>6, <1>7, <1>8, <1>9, <1>10, <1>11, <1>12, <1>13, <1>14
       DEF Next, ApproveSignRequest, DenySignRequest

-----------------------------------------------------------------------------
\* Who is idle is about no session; so is a connection that is closed.
LEMMA RestedStep == SignInv /\ TypeOK /\ Rested /\ [Next]_vars => Rested'
  <1> SUFFICES ASSUME SignInv, TypeOK, Rested, [Next]_vars
               PROVE  Rested'
    OBVIOUS
  <1>t. /\ req \in [Req -> Request] /\ sock \in [Socket -> SockType]
        /\ NoSession \notin Session
    BY SignAssumption DEF TypeOK, SockType
  <1> DEFINE Quiet == \A q \in Req : req[q].pc = "idle" => req[q].session = NoSession
             Shut == \A w \in Socket : sock[w].pc = "closed" <=> sock[w].session = NoSession
  <1>q. Quiet /\ Shut
    BY DEF Rested
  <1>1. ASSUME NEW r \in Req,
               \/ Finish(r)
               \/ \E p, s, to : p # "idle" /\ req' = [req EXCEPT ![r] = [pc |-> p, session |-> s, to |-> to]]
               \/ \E p : p # "idle" /\ req' = [req EXCEPT ![r].pc = p]
        PROVE  Quiet'
    BY <1>t, <1>q, <1>1 DEF Finish, Idle, Request
  <1>2. \/ req' = req
        \/ \E r \in Req :
             \/ Finish(r)
             \/ \E p, s, to : p # "idle" /\ req' = [req EXCEPT ![r] = [pc |-> p, session |-> s, to |-> to]]
             \/ \E p : p # "idle" /\ req' = [req EXCEPT ![r].pc = p]
    <2>1. ASSUME NEW r \in Req, NEW u \in User, CreateSignRequest(r, u)
          PROVE  \E p, s, to : p # "idle" /\ req' = [req EXCEPT ![r] = [pc |-> p, session |-> s, to |-> to]]
      <3>1. PICK s \in Session : Begin(r, "create", s, "pending")
        BY <2>1 DEF CreateSignRequest
      <3>2. req' = [req EXCEPT ![r] = [pc |-> "create", session |-> s, to |-> "pending"]]
        BY <3>1 DEF Begin
      <3>3. "create" # "idle"
        OBVIOUS
      <3>4. QED
        BY <3>2, <3>3
    <2>2. ASSUME NEW r \in Req, NEW s \in Session, NEW u \in User,
                 NEW to \in {"approved", "denied"}, Decide(r, s, u, to)
          PROVE  \E p, z, o : p # "idle" /\ req' = [req EXCEPT ![r] = [pc |-> p, session |-> z, to |-> o]]
      BY <2>2 DEF Decide, Begin
    <2>3. ASSUME NEW r \in Req, NEW s \in Session, CompleteSign(r, s)
          PROVE  \E p, z, o : p # "idle" /\ req' = [req EXCEPT ![r] = [pc |-> p, session |-> z, to |-> o]]
      BY <2>3 DEF CompleteSign, Begin
    <2>4. ASSUME NEW r \in Req, CacheNew(r) \/ UpdateRow(r) \/ InsertLog(r)
                                 \/ CompleteRow(r) \/ Publish(r)
          PROVE  \E p : p # "idle" /\ req' = [req EXCEPT ![r].pc = p]
      BY <2>4 DEF CacheNew, UpdateRow, InsertLog, CompleteRow, Publish
    <2>5. ASSUME NEW r \in Req, ExpireNew(r) \/ StatementFails(r) \/ Broadcast(r)
                                 \/ BroadcastPanics(r) \/ RequestDies(r)
          PROVE  Finish(r)
      BY <2>5 DEF ExpireNew, StatementFails, Broadcast, BroadcastPanics, RequestDies
    <2>6. ASSUME NEW w \in Socket, NEW s \in Session, SignWebSocket(w, s)
          PROVE  req' = req
      BY <2>6 DEF SignWebSocket
    <2>7. ASSUME NEW w \in Socket, ReadStatus(w) \/ WriteStatus(w) \/ CloseSocket(w)
          PROVE  req' = req
      BY <2>7 DEF ReadStatus, WriteStatus, CloseSocket
    <2>8. CASE Tick \/ UNCHANGED vars
      BY <2>8 DEF Tick, vars
    <2>9. QED
      BY <2>1, <2>2, <2>3, <2>4, <2>5, <2>6, <2>7, <2>8
         DEF Next, ApproveSignRequest, DenySignRequest
  <1>3. Quiet'
    BY <1>1, <1>2, <1>q
  <1>4. ASSUME NEW w \in Socket, NEW s \in Session, SignWebSocket(w, s)
        PROVE  Shut'
    BY <1>t, <1>q, <1>4 DEF SignWebSocket
  <1>5. ASSUME NEW w \in Socket, ReadStatus(w) \/ WriteStatus(w)
        PROVE  Shut'
    <2>1. PICK p, n :
             /\ p \in {"write", "open"}
             /\ sock[w].pc # "closed"
             /\ \/ sock' = [sock EXCEPT ![w].pc = p]
                \/ sock' = [sock EXCEPT ![w].pc = p, ![w].read = n]
      BY <1>5 DEF ReadStatus, WriteStatus
    <2>2. QED
      BY <1>t, <1>q, <2>1 DEF SockType
  <1>6. ASSUME NEW w \in Socket, CloseSocket(w)
        PROVE  Shut'
    BY <1>t, <1>q, <1>6 DEF CloseSocket, Closed
  <1>7. ASSUME NEW r \in Req, Broadcast(r)
        PROVE  Shut'
    <2>1. ASSUME NEW w \in Socket
          PROVE  \/ sock'[w] = sock[w]
                 \/ sock[w].pc # "closed" /\ sock'[w] = [sock[w] EXCEPT !.pc = "dead"]
      BY <1>7 DEF Broadcast, clients, Registered
    <2>2. \A c \in SockType : /\ [c EXCEPT !.pc = "dead"].pc = "dead"
                              /\ [c EXCEPT !.pc = "dead"].session = c.session
      BY DEF SockType
    <2>3. QED
      BY <1>t, <1>q, <2>1, <2>2
  <1>8. \/ sock' = sock
        \/ \E w \in Socket : \/ \E s \in Session : SignWebSocket(w, s)
                             \/ ReadStatus(w) \/ WriteStatus(w) \/ CloseSocket(w)
        \/ \E r \in Req : Broadcast(r)
    BY DEF Next, ApproveSignRequest, DenySignRequest, CreateSignRequest, Decide, CompleteSign,
           CacheNew, ExpireNew, UpdateRow, InsertLog, CompleteRow, Publish, StatementFails,
           RequestDies, BroadcastPanics, Tick, vars
  <1>9. Shut'
    BY <1>4, <1>5, <1>6, <1>7, <1>8, <1>q
  <1>10. QED
    BY <1>3, <1>9 DEF Rested

-----------------------------------------------------------------------------
(* Calm sessions stay calm.                                                *)

\* A session that the step of request r is not about.
LEMMA Apart ==
    ASSUME NEW z \in Session, Calm(z), NEW r \in Req,
           row'[z].status = row[z].status, cache'[z] = cache[z],
           \A d : d.session = z => (d \in decided' <=> d \in decided),
           disturbed \subseteq disturbed',
           z \in uncached' <=> z \in uncached, z \in unheard' <=> z \in unheard,
           \A q \in Req : q # r => req'[q] = req[q],
           ~Works(r, z), ~Works(r, z)',
           \A w \in Socket : sock'[w].session = sock[w].session,
           \A w \in Socket : Informed(w, z) => Informed(w, z)'
    PROVE  Calm(z)'
  <1>1. /\ Undecided(z)' <=> Undecided(z)
        /\ Unwatched(z)' <=> Unwatched(z)
    BY DEF Undecided, Unwatched
  <1>2. \A q \in Req : /\ Works(q, z)' <=> Works(q, z)
                       /\ Works(q, z) => req'[q] = req[q]
    BY DEF Works
  <1>3. (AtWork(z)' <=> AtWork(z)) /\ (Coming(z)' <=> Coming(z))
    BY <1>2 DEF AtWork, Coming, Works
  <1>4. Grounded(z)'
    BY <1>1, <1>2 DEF Calm, Grounded
  <1>5. /\ InStep(z)' <=> InStep(z)
        /\ Trailing(z)' <=> Trailing(z)
        /\ Missed(z)' <=> Missed(z)
    BY DEF InStep, Trailing, Missed
  <1>6. ASSUME z \notin disturbed', NEW q \in Req, Works(q, z)'
        PROVE  Stage(q, z)'
    <2>1. Stage(q, z) /\ req'[q] = req[q]
      BY <1>2, <1>6 DEF Calm
    <2>2. QED
      BY <1>1, <1>5, <2>1 DEF Stage
  <1>7. QED
    BY <1>1, <1>2, <1>3, <1>4, <1>5, <1>6 DEF Calm

\* The one request that works on session s moves on.
LEMMA Doing ==
    ASSUME NEW s \in Session, Calm(s), NEW r \in Req, Works(r, s),
           disturbed \subseteq disturbed', UNCHANGED decided,
           \A q \in Req : q # r => req'[q] = req[q],
           Grounded(s)',
           s \notin disturbed' =>
              /\ Works(r, s)' => Stage(r, s)'
              /\ ~Works(r, s)' => InStep(s)'
              /\ row'[s].status = "pending" => Undecided(s)
              /\ Missed(s)' \/ Coming(s)' \/ \A w \in Socket : Informed(w, s)'
    PROVE  Calm(s)'
  <1> SUFFICES ASSUME s \notin disturbed'
               PROVE  /\ \A o, q \in Req : Works(o, s)' /\ Works(q, s)' => o = q
                      /\ \A q \in Req : Works(q, s)' => Stage(q, s)'
                      /\ ~AtWork(s)' => InStep(s)'
                      /\ row'[s].status = "pending" => Undecided(s)'
                      /\ \A d, e \in decided' : d.session = s /\ e.session = s => d = e
                      /\ Missed(s)' \/ Coming(s)' \/ \A w \in Socket : Informed(w, s)'
    BY DEF Calm
  <1>1. \A q \in Req : Works(q, s)' => q = r
    BY DEF Calm, Works
  <1>2. \A d, e \in decided' : d.session = s /\ e.session = s => d = e
    BY DEF Calm
  <1>3. Undecided(s)' <=> Undecided(s)
    BY DEF Undecided
  <1>4. QED
    BY <1>1, <1>2, <1>3 DEF AtWork, Works

\* A request begins to work on a session.
LEMMA Beginning ==
    ASSUME NEW s \in Session, Calm(s), NEW r \in Req, NEW p, NEW to,
           Begin(r, p, s, to), req'[r] = [pc |-> p, session |-> s, to |-> to],
           \A q \in Req : q # r => req'[q] = req[q],
           Grounded(s)', UNCHANGED <<sock, told, uncached, unheard>>,
           s \notin disturbed /\ ~AtWork(s) =>
              /\ Stage(r, s)'
              /\ row'[s].status = "pending" /\ p # "update" => Undecided(s)'
              /\ \A d, e \in decided' : d.session = s /\ e.session = s => d = e
              /\ row'[s].status = row[s].status \/ Unwatched(s)
    PROVE  Calm(s)'
  <1> SUFFICES ASSUME s \notin disturbed'
               PROVE  /\ \A o, q \in Req : Works(o, s)' /\ Works(q, s)' => o = q
                      /\ \A q \in Req : Works(q, s)' => Stage(q, s)'
                      /\ AtWork(s)'
                      /\ row'[s].status = "pending"
                         /\ (\A q \in Req : Works(q, s)' => req'[q].pc # "update")
                         => Undecided(s)'
                      /\ \A d, e \in decided' : d.session = s /\ e.session = s => d = e
                      /\ Missed(s)' \/ Coming(s)' \/ \A w \in Socket : Informed(w, s)'
    BY DEF Calm
  <1>1. s \notin disturbed /\ ~AtWork(s)
    BY DEF Begin
  <1>2. \A q \in Req : Works(q, s)' => q = r
    BY <1>1 DEF Works, AtWork
  <1>3. Works(r, s)' /\ AtWork(s)' /\ req'[r].pc = p
    BY DEF Works, AtWork
  <1>4. ~Coming(s)
    BY <1>1 DEF Coming, Works, AtWork
  <1>5. Missed(s) \/ \A w \in Socket : Informed(w, s)
    BY <1>1, <1>4 DEF Calm
  <1>6. Missed(s)' \/ \A w \in Socket : Informed(w, s)'
    BY <1>1, <1>5 DEF Informed, Unwatched, Missed
  <1>7. QED
    BY <1>1, <1>2, <1>3, <1>6

\* A connection moves, and nothing else does.
LEMMA Connection ==
    ASSUME NEW z \in Session, Calm(z), NEW w \in Socket,
           UNCHANGED <<cache, req, decided>>,
           row' = row, disturbed \subseteq disturbed',
           uncached' = uncached, unheard \subseteq unheard',
           \A v \in Socket : v # w => sock'[v] = sock[v] /\ told'[v] = told[v],
           sock'[w].session = z => \/ sock[w].session = z
                                   \/ Known(z),
           z \notin disturbed' /\ ~Missed(z)' /\ ~Coming(z) /\ Informed(w, z) => Informed(w, z)'
    PROVE  Calm(z)'
  <1>1. \A v \in Socket : v # w => (Informed(v, z) => Informed(v, z)')
    BY DEF Informed
  <1>2. Unwatched(z) /\ ~Unwatched(z)' => Known(z)
    BY DEF Unwatched
  <1>3. /\ AtWork(z)' <=> AtWork(z)
        /\ Coming(z)' <=> Coming(z)
        /\ Undecided(z)' <=> Undecided(z)
        /\ InStep(z)' <=> InStep(z)
        /\ Trailing(z)' <=> Trailing(z)
        /\ Missed(z) => Missed(z)'
        /\ \A r \in Req : Works(r, z)' <=> Works(r, z)
    BY DEF AtWork, Coming, Undecided, InStep, Trailing, Missed, Works
  <1>4. Grounded(z)'
    BY <1>2, <1>3 DEF Calm, Grounded, Known
  <1>5. ASSUME NEW r \in Req, Works(r, z), Stage(r, z)
        PROVE  Stage(r, z)'
    BY <1>2, <1>3, <1>5 DEF Stage, Known, Works
  <1>6. ASSUME z \notin disturbed', ~Coming(z), ~Missed(z)'
        PROVE  \A v \in Socket : Informed(v, z)'
    BY <1>1, <1>3, <1>6 DEF Calm
  <1>7. QED
    BY <1>3, <1>4, <1>5, <1>6 DEF Calm

\* Every step leaves every session calm.
LEMMA CalmStep == SessInv /\ [Next]_vars => AllCalm'
  <1> SUFFICES ASSUME SessInv, [Next]_vars, NEW z \in Session
               PROVE  Calm(z)'
    BY DEF AllCalm
  <1>t. /\ Calm(z) /\ req \in [Req -> Request] /\ sock \in [Socket -> SockType]
        /\ cache \in [Session -> [status : Status, ttl : 0..SessionTTL]]
        /\ row \in [Session -> [status : Status, owner : User \cup {NoUser},
                                ttl : 0..SessionTTL]]
        /\ told \in [Socket -> SUBSET Status]
        /\ NoSession \notin Session
        /\ \A r \in Req : req[r].pc = "idle" => req[r].session = NoSession
        /\ \A w \in Socket : sock[w].pc = "closed" <=> sock[w].session = NoSession
        /\ \A r \in Req : req[r].pc # "idle" => row[req[r].session].status # "none"
    BY SignAssumption DEF SessInv, AllCalm, TypeOK, SockType, Rested, SignInv, Backed
  <1>i. \A r \in Req : req[r].pc = "idle" => ~Works(r, z)
    BY <1>t DEF Works
  <1>f. ASSUME NEW r \in Req, Finish(r)
        PROVE  /\ ~Works(r, z)' /\ \A q \in Req : q # r => req'[q] = req[q]
    BY <1>t, <1>f DEF Finish, Works, Idle
  <1>b. ASSUME NEW r \in Req, NEW p, NEW s \in Session, NEW to, Begin(r, p, s, to)
        PROVE  /\ req[r].pc = "idle" /\ disturbed \subseteq disturbed'
               /\ req'[r] = [pc |-> p, session |-> s, to |-> to]
               /\ \A q \in Req : q # r => req'[q] = req[q]
    BY <1>t, <1>b DEF Begin
  <1>m. ASSUME NEW r \in Req, NEW p, req' = [req EXCEPT ![r].pc = p]
        PROVE  /\ req'[r].pc = p /\ req'[r].session = req[r].session
               /\ req'[r].to = req[r].to
               /\ Works(r, z)' <=> Works(r, z)
               /\ \A q \in Req : q # r => req'[q] = req[q]
    BY <1>t, <1>m DEF Request, Works
  <1>s. UNCHANGED <<sock, told>> /\ row'[z].status = row[z].status
        => /\ \A w \in Socket : sock'[w].session = sock[w].session
           /\ \A w \in Socket : Informed(w, z) => Informed(w, z)'
    BY DEF Informed
  <1>1. ASSUME NEW r \in Req, NEW u \in User, CreateSignRequest(r, u)
        PROVE  Calm(z)'
    <2>1. PICK s \in Session :
              /\ row[s].status = "none"
              /\ Begin(r, "create", s, "pending")
              /\ row' = [row EXCEPT ![s] = [status |-> "pending", owner |-> u,
                                            ttl |-> SessionTTL]]
      BY <1>1 DEF CreateSignRequest
    <2>2. /\ req[r].pc = "idle" /\ disturbed \subseteq disturbed'
          /\ req'[r] = [pc |-> "create", session |-> s, to |-> "pending"]
          /\ \A q \in Req : q # r => req'[q] = req[q]
          /\ UNCHANGED <<cache, decided, sock, told, uncached, unheard>>
      BY <1>1, <1>b, <2>1 DEF CreateSignRequest, missed
    <2>3. CASE z # s
      <3>1. row'[z] = row[z]
        BY <1>t, <2>1, <2>3
      <3>2. QED
        BY <1>t, <1>i, <1>s, <2>2, <2>3, <3>1, Apart DEF Works
    <2>4. CASE z = s
      <3>1. row'[z].status = "pending"
        BY <1>t, <2>1, <2>4
      <3>2. cache[z].status = "none" /\ Undecided(z) /\ Unwatched(z)
        BY <1>t, <2>1, <2>4 DEF Calm, Grounded
      <3>3. Grounded(z)'
        BY <3>1 DEF Grounded
      <3>4. Undecided(z)' /\ Unwatched(z)'
        BY <2>2, <3>2 DEF Undecided, Unwatched
      <3>5. Stage(r, z)'
        BY <2>2, <3>1, <3>2, <3>4 DEF Stage, InStep
      <3>6. \A d, e \in decided' : d.session = z /\ e.session = z => d = e
        BY <2>2, <3>2 DEF Undecided
      <3>7. QED
        BY <1>t, <2>1, <2>2, <2>4, <3>2, <3>3, <3>4, <3>5, <3>6, Beginning
    <2>5. QED
      BY <2>3, <2>4
  <1>2. ASSUME NEW r \in Req, NEW s \in Session, NEW u \in User,
               NEW to \in {"approved", "denied"}, Decide(r, s, u, to)
        PROVE  Calm(z)'
    <2>1. /\ req[r].pc = "idle" /\ disturbed \subseteq disturbed'
          /\ Begin(r, "update", s, to)
          /\ req'[r] = [pc |-> "update", session |-> s, to |-> to]
          /\ \A q \in Req : q # r => req'[q] = req[q]
          /\ decided' = decided \cup {[session |-> s, by |-> u, to |-> to]}
          /\ UNCHANGED <<row, cache, sock, told, uncached, unheard>>
          /\ row[s].status = "pending"
      BY <1>2, <1>b DEF Decide, MayDecide, missed
    <2>2. CASE z # s
      <3>1. \A d : d.session = z => (d \in decided' <=> d \in decided)
        BY <2>1, <2>2
      <3>2. QED
        BY <1>t, <1>i, <1>s, <2>1, <2>2, <3>1, Apart DEF Works
    <2>3. CASE z = s
      <3>1. Grounded(z)'
        BY <2>1, <2>3 DEF Grounded
      <3>2. z \notin disturbed /\ ~AtWork(z) => Undecided(z) /\ InStep(z)
        BY <1>t, <2>1, <2>3 DEF Calm, AtWork, Works
      <3>3. z \notin disturbed /\ ~AtWork(z) => Stage(r, z)'
        BY <2>1, <2>3, <3>2 DEF Stage, InStep, Trailing
      <3>4. z \notin disturbed /\ ~AtWork(z) =>
               \A d, e \in decided' : d.session = z /\ e.session = z => d = e
        BY <2>1, <2>3, <3>2 DEF Undecided
      <3>5. QED
        BY <1>t, <2>1, <2>3, <3>1, <3>3, <3>4, Beginning
    <2>4. QED
      BY <2>2, <2>3
  <1>3. ASSUME NEW r \in Req, NEW s \in Session, CompleteSign(r, s)
        PROVE  Calm(z)'
    <2>1. /\ req[r].pc = "idle" /\ disturbed \subseteq disturbed'
          /\ Begin(r, "log", s, "completed")
          /\ req'[r] = [pc |-> "log", session |-> s, to |-> "completed"]
          /\ \A q \in Req : q # r => req'[q] = req[q]
          /\ UNCHANGED <<row, cache, decided, sock, told, uncached, unheard>>
          /\ row[s].status = "approved"
      BY <1>3, <1>b DEF CompleteSign, MayComplete, missed
    <2>2. CASE z # s
      BY <1>t, <1>i, <1>s, <2>1, <2>2, Apart DEF Works
    <2>3. CASE z = s
      <3>1. Grounded(z)'
        BY <2>1, <2>3 DEF Grounded
      <3>2. z \notin disturbed /\ ~AtWork(z) =>
               /\ InStep(z)
               /\ \A d, e \in decided : d.session = z /\ e.session = z => d = e
        BY <1>t DEF Calm
      <3>3. z \notin disturbed /\ ~AtWork(z) => Stage(r, z)'
        BY <2>1, <2>3, <3>2 DEF Stage, InStep, Trailing
      <3>4. QED
        BY <1>t, <2>1, <2>3, <3>1, <3>2, <3>3, Beginning
    <2>4. QED
      BY <2>2, <2>3
  <1>4. ASSUME NEW r \in Req, CacheNew(r)
        PROVE  Calm(z)'
    <2>1. /\ req[r].pc = "create"
          /\ UNCHANGED <<row, decided, disturbed, sock, told, uncached, unheard>>
          /\ req' = [req EXCEPT ![r].pc = "expire"]
      BY <1>4 DEF CacheNew, missed
    <2>c. \/ cache' = [cache EXCEPT ![req[r].session].status = "pending"]
          \/ cache' = cache
      BY <1>4 DEF CacheNew
    <2>2. CASE req[r].session # z
      <3>1. cache'[z] = cache[z]
        BY <1>t, <2>c, <2>2
      <3>2. QED
        BY <1>t, <1>m, <1>s, <2>1, <2>2, <3>1, Apart DEF Works
    <2>3. CASE req[r].session = z
      <3>1. Works(r, z) /\ row[z].status # "none"
        BY <1>t, <2>1, <2>3 DEF Works
      <3>2. Grounded(z)'
        BY <2>1, <3>1 DEF Grounded
      <3>3. cache'[z].status \in {"pending", cache[z].status}
        BY <1>t, <2>c, <2>3
      <3>4. z \notin disturbed =>
               /\ row[z].status = "pending" /\ Undecided(z) /\ Unwatched(z)
               /\ cache[z].status = "none"
        BY <1>t, <2>1, <3>1 DEF Calm, Stage
      <3>5. z \notin disturbed => Undecided(z)' /\ Unwatched(z)'
        BY <2>1, <3>4 DEF Undecided, Unwatched
      <3>r. req'[r].pc = "expire" /\ row' = row
        BY <1>m, <2>1
      <3>6. z \notin disturbed => Stage(r, z)'
        BY <3>r, <3>3, <3>4, <3>5 DEF Stage, InStep
      <3>7. z \notin disturbed => \A w \in Socket : Informed(w, z)'
        BY <3>5 DEF Informed, Unwatched
      <3>8. QED
        BY <1>t, <1>m, <2>1, <3>1, <3>2, <3>4, <3>6, <3>7, Doing
    <2>4. QED
      BY <2>2, <2>3
  <1>5. ASSUME NEW r \in Req, ExpireNew(r)
        PROVE  Calm(z)'
    <2>1. /\ req[r].pc = "expire"
          /\ UNCHANGED <<row, decided, disturbed, sock, told, uncached, unheard>>
          /\ Finish(r)
      BY <1>5 DEF ExpireNew, missed
    <2>c. \/ cache' = [cache EXCEPT ![req[r].session].ttl = SessionTTL]
          \/ cache' = cache
      BY <1>5 DEF ExpireNew
    <2>2. CASE req[r].session # z
      <3>1. cache'[z] = cache[z]
        BY <1>t, <2>c, <2>2
      <3>2. QED
        BY <1>t, <1>f, <1>s, <2>1, <2>2, <3>1, Apart DEF Works
    <2>3. CASE req[r].session = z
      <3>1. Works(r, z) /\ row[z].status # "none"
        BY <1>t, <2>1, <2>3 DEF Works
      <3>2. Grounded(z)'
        BY <2>1, <3>1 DEF Grounded
      <3>3. cache'[z].status = cache[z].status
        BY <1>t, <2>c, <2>3
      <3>4. z \notin disturbed => /\ InStep(z) /\ Undecided(z) /\ Unwatched(z)
        BY <1>t, <2>1, <3>1 DEF Calm, Stage
      <3>5. z \notin disturbed => InStep(z)' /\ \A w \in Socket : Informed(w, z)'
        BY <2>1, <3>3, <3>4 DEF InStep, Trailing, Informed, Unwatched
      <3>6. QED
        BY <1>t, <1>f, <2>1, <3>1, <3>2, <3>4, <3>5, Doing
    <2>4. QED
      BY <2>2, <2>3
  <1>6. ASSUME NEW r \in Req, UpdateRow(r) \/ CompleteRow(r)
        PROVE  Calm(z)'
    <2>1. /\ req[r].pc \in {"update", "complete"}
          /\ UNCHANGED <<cache, decided, disturbed, sock, told, uncached, unheard>>
          /\ req' = [req EXCEPT ![r].pc = "publish"]
      BY <1>6 DEF UpdateRow, CompleteRow, missed
    <2>2. PICK n : /\ row' = [row EXCEPT ![req[r].session].status = n]
                   /\ \/ req[r].pc = "update" /\ n = req[r].to
                      \/ req[r].pc = "complete" /\ n = "completed"
      BY <1>6 DEF UpdateRow, CompleteRow
    <2>3. CASE req[r].session # z
      <3>1. row'[z] = row[z]
        BY <1>t, <2>2, <2>3
      <3>2. QED
        BY <1>t, <1>m, <1>s, <2>1, <2>3, <3>1, Apart DEF Works
    <2>4. CASE req[r].session = z
      <3>1. Works(r, z)
        BY <2>4 DEF Works
      <3>2. row'[z].status = n
        BY <1>t, <2>2, <2>4
      <3>3. Grounded(z)'
        <4>1. n # "none"
          BY <2>1, <2>2 DEF SessInv, SignInv, Backed
        <4>2. QED
          BY <3>2, <4>1 DEF Grounded
      <3>4. z \notin disturbed => n = req[r].to /\ n \notin {"none", "pending"}
        <4>1. z \notin disturbed => Stage(r, z)
          BY <1>t, <3>1 DEF Calm
        <4>2. QED
          BY <2>2, <4>1 DEF Stage
      <3>r. req'[r].pc = "publish" /\ req'[r].to = req[r].to
        BY <1>m, <2>1
      <3>l. z \notin disturbed => Trailing(z)'
        <4>1. z \notin disturbed => Stage(r, z)
          BY <1>t, <3>1 DEF Calm
        <4>2. z \notin disturbed =>
                 \/ row[z].status = "pending" /\ n \in {"approved", "denied"}
                 \/ row[z].status = "approved" /\ n = "completed"
          BY <2>2, <4>1 DEF Stage
        <4>3. z \notin disturbed => InStep(z)
          BY <2>1, <4>1 DEF Stage
        <4>4. cache' = cache
          BY <2>1
        <4>5. QED
          BY <3>2, <4>2, <4>3, <4>4 DEF Trailing, InStep, Earlier
      <3>5. z \notin disturbed => Stage(r, z)'
        BY <3>r, <3>2, <3>4, <3>l DEF Stage
      <3>6. Works(r, z)' /\ Coming(z)'
        BY <1>m, <2>1, <3>1 DEF Coming
      <3>7. QED
        BY <1>t, <1>m, <2>1, <3>1, <3>2, <3>3, <3>4, <3>5, <3>6, Doing
    <2>5. QED
      BY <2>3, <2>4
  <1>7. ASSUME NEW r \in Req, InsertLog(r)
        PROVE  Calm(z)'
    <2>1. /\ req[r].pc = "log"
          /\ UNCHANGED <<row, cache, decided, disturbed, sock, told, uncached, unheard>>
          /\ req' = [req EXCEPT ![r].pc = "complete"]
      BY <1>7 DEF InsertLog, missed
    <2>2. CASE req[r].session # z
      BY <1>t, <1>m, <1>s, <2>1, <2>2, Apart DEF Works
    <2>3. CASE req[r].session = z
      <3>1. Works(r, z) /\ row[z].status # "none"
        BY <1>t, <2>1, <2>3 DEF Works
      <3>2. Grounded(z)'
        BY <2>1, <3>1 DEF Grounded
      <3>3. z \notin disturbed => /\ row[z].status = "approved" /\ InStep(z)
                                  /\ req[r].to = "completed"
        BY <1>t, <2>1, <3>1 DEF Calm, Stage
      <3>4. z \notin disturbed => Stage(r, z)'
        BY <1>m, <2>1, <3>3 DEF Stage, InStep, Trailing
      <3>5. z \notin disturbed => ~Coming(z)
        BY <1>t, <2>1, <3>1 DEF Coming, Calm
      <3>6. z \notin disturbed => Missed(z)' \/ \A w \in Socket : Informed(w, z)'
        BY <1>t, <1>s, <2>1, <3>5 DEF Calm, Missed
      <3>7. QED
        BY <1>t, <1>m, <2>1, <3>1, <3>2, <3>3, <3>4, <3>6, Doing
    <2>4. QED
      BY <2>2, <2>3
  <1>8. ASSUME NEW r \in Req, Publish(r)
        PROVE  Calm(z)'
    <2>1. /\ req[r].pc = "publish" /\ UNCHANGED <<row, decided, disturbed, sock, told, unheard>>
          /\ req' = [req EXCEPT ![r].pc = "broadcast"]
      BY <1>8 DEF Publish
    <2>c. \/ /\ cache' = [cache EXCEPT ![req[r].session].status = req[r].to]
             /\ uncached' = uncached \ {req[r].session}
          \/ cache' = cache /\ uncached' = uncached \cup {req[r].session}
      BY <1>8 DEF Publish, Published
    <2>2. CASE req[r].session # z
      <3>1. cache'[z] = cache[z] /\ (z \in uncached' <=> z \in uncached)
        BY <1>t, <2>c, <2>2
      <3>2. QED
        BY <1>t, <1>m, <1>s, <2>1, <2>2, <3>1, Apart DEF Works
    <2>3. CASE req[r].session = z
      <3>1. Works(r, z) /\ row[z].status # "none"
        BY <1>t, <2>1, <2>3 DEF Works
      <3>2. Grounded(z)'
        BY <2>1, <3>1 DEF Grounded
      <3>3. \/ cache'[z].status = req[r].to
            \/ cache' = cache /\ z \in uncached'
        BY <1>t, <2>c, <2>3
      <3>4. z \notin disturbed =>
               /\ row[z].status = req[r].to /\ req[r].to \notin {"none", "pending"}
               /\ Trailing(z)
        BY <1>t, <2>1, <3>1 DEF Calm, Stage
      <3>5. z \notin disturbed => InStep(z)'
        BY <2>1, <3>3, <3>4 DEF InStep, Trailing
      <3>r. req'[r].pc = "broadcast" /\ req'[r].to = req[r].to /\ row' = row
        BY <1>m, <2>1
      <3>6. z \notin disturbed => Stage(r, z)'
        BY <3>r, <3>4, <3>5 DEF Stage
      <3>7. Works(r, z)' /\ Coming(z)'
        BY <1>m, <2>1, <3>1 DEF Coming
      <3>8. QED
        BY <1>t, <1>m, <2>1, <3>1, <3>2, <3>4, <3>6, <3>7, Doing
    <2>4. QED
      BY <2>2, <2>3
  <1>9. ASSUME NEW r \in Req, Broadcast(r)
        PROVE  Calm(z)'
    <2>1. /\ req[r].pc = "broadcast"
          /\ UNCHANGED <<row, cache, decided, disturbed, uncached>>
          /\ unheard' = unheard \ {req[r].session}
          /\ Finish(r)
      BY <1>9 DEF Broadcast
    <2>2. PICK s \in Session : s = req[r].session
      BY <2>1 DEF SessInv, SignInv, Backed
    <2>3. PICK lost \in SUBSET clients(s) :
             /\ told' = [w \in Socket |->
                          IF w \in clients(s) \ lost /\ sock[w].pc # "dead"
                            THEN told[w] \cup {req[r].to} ELSE told[w]]
             /\ sock' = [w \in Socket |->
                          IF w \in lost THEN [sock[w] EXCEPT !.pc = "dead"] ELSE sock[w]]
      BY <1>9, <2>2 DEF Broadcast
    <2>4. ASSUME NEW w \in Socket
          PROVE  /\ sock'[w].session = sock[w].session
                 /\ \/ sock'[w] = sock[w]
                    \/ sock'[w].pc = "dead" /\ sock[w].session = s
                 /\ told[w] \subseteq told'[w]
      <3>1. sock[w] \in SockType
        BY <1>t
      <3>2. w \in lost => sock[w].session = s
        BY DEF clients
      <3>3. \/ sock'[w] = sock[w]
            \/ w \in lost /\ sock'[w] = [sock[w] EXCEPT !.pc = "dead"]
        BY <2>3
      <3>4. told[w] \subseteq told'[w]
        BY <2>3
      <3>5. /\ [sock[w] EXCEPT !.pc = "dead"].pc = "dead"
            /\ [sock[w] EXCEPT !.pc = "dead"].session = sock[w].session
        BY <3>1 DEF SockType
      <3>6. QED
        BY <3>2, <3>3, <3>4, <3>5
    <2>5. CASE s # z
      <3>1. \A w \in Socket : Informed(w, z) => Informed(w, z)'
        BY <2>1, <2>4, <2>5 DEF Informed
      <3>2. QED
        BY <1>t, <1>f, <2>1, <2>2, <2>4, <2>5, <3>1, Apart DEF Works
    <2>6. CASE s = z
      <3>1. Works(r, z) /\ row[z].status # "none"
        BY <1>t, <2>1, <2>2, <2>6 DEF Works
      <3>2. Grounded(z)'
        BY <2>1, <3>1 DEF Grounded
      <3>3. z \notin disturbed => /\ InStep(z) /\ row[z].status = req[r].to
                                  /\ row[z].status # "pending"
        BY <1>t, <2>1, <3>1 DEF Calm, Stage
      <3>4. ASSUME z \notin disturbed, NEW w \in Socket
            PROVE  Informed(w, z)'
        <4>1. SUFFICES ASSUME sock'[w].session = z, sock'[w].pc \in {"write", "open"}
                       PROVE  row[z].status \in told'[w]
          BY <2>1 DEF Informed
        <4>2. sock'[w] = sock[w] /\ sock[w].session = z
          BY <2>4, <4>1
        <4>3. w \notin lost
          BY <1>t, <2>3, <4>1, <4>2 DEF SockType
        <4>4. w \in clients(s) /\ sock[w].pc # "dead"
          BY <2>6, <4>1, <4>2 DEF clients, Registered
        <4>5. QED
          BY <2>3, <3>3, <3>4, <4>3, <4>4
      <3>5. z \notin disturbed => InStep(z)'
        BY <2>1, <3>3 DEF InStep, Trailing
      <3>6. QED
        BY <1>t, <1>f, <2>1, <3>1, <3>2, <3>3, <3>4, <3>5, Doing
    <2>7. QED
      BY <2>5, <2>6
  <1>10. ASSUME NEW r \in Req, BroadcastPanics(r) \/ StatementFails(r) \/ RequestDies(r)
         PROVE  Calm(z)'
    <2>1. /\ req[r].pc # "idle" /\ UNCHANGED <<row, cache, decided, sock>>
          /\ Finish(r)
          /\ \A w \in Socket : told'[w] = told[w] \/ sock[w].session = req[r].session
      BY <1>10 DEF BroadcastPanics, StatementFails, RequestDies, clients
    <2>d. \/ disturbed' = disturbed \cup {req[r].session} /\ UNCHANGED <<uncached, unheard>>
          \/ /\ UNCHANGED <<disturbed, unheard>> /\ req[r].pc = "publish"
             /\ uncached' = uncached \cup {req[r].session}
          \/ /\ UNCHANGED <<disturbed, uncached>> /\ req[r].pc = "broadcast"
             /\ unheard' = unheard \cup {req[r].session}
      BY <1>10 DEF BroadcastPanics, StatementFails, RequestDies, missed
    <2>2. CASE req[r].session # z
      <3>1. \A w \in Socket : Informed(w, z) => Informed(w, z)'
        BY <2>1, <2>2 DEF Informed
      <3>2. /\ disturbed \subseteq disturbed'
            /\ z \in uncached' <=> z \in uncached
            /\ z \in unheard' <=> z \in unheard
        BY <2>d, <2>2
      <3>3. QED
        BY <1>t, <1>f, <2>1, <2>2, <3>1, <3>2, Apart DEF Works
    <2>3. CASE req[r].session = z
      <3>1. Works(r, z) /\ row[z].status # "none"
        BY <1>t, <2>1, <2>3 DEF Works
      <3>2. Grounded(z)'
        BY <2>1, <3>1 DEF Grounded
      <3>3. CASE z \in disturbed'
        BY <3>2, <3>3 DEF Calm
      <3>4. CASE z \notin disturbed'
        <4>1. /\ req[r].pc \in {"publish", "broadcast"} /\ UNCHANGED disturbed
              /\ Missed(z)' /\ uncached \subseteq uncached'
              /\ req[r].pc = "publish" => z \in uncached'
          BY <2>3, <2>d, <3>4 DEF Missed
        <4>2. /\ InStep(z) \/ (z \in uncached' /\ Trailing(z))
              /\ row[z].status # "pending"
          BY <1>t, <3>1, <3>4, <4>1 DEF Calm, Stage
        <4>3. InStep(z)'
          BY <2>1, <4>1, <4>2 DEF InStep, Trailing
        <4>4. QED
          BY <1>t, <1>f, <2>1, <3>1, <3>2, <4>1, <4>2, <4>3, Doing
      <3>5. QED
        BY <3>3, <3>4
    <2>4. QED
      BY <2>2, <2>3
  <1>11. ASSUME NEW w \in Socket, NEW s \in Session, SignWebSocket(w, s)
         PROVE  Calm(z)'
    <2>1. /\ sock'[w] = [pc |-> "status", session |-> s, read |-> "none"]
          /\ \A v \in Socket : v # w => sock'[v] = sock[v] /\ told'[v] = told[v]
          /\ Known(s) /\ UNCHANGED <<row, cache, req, decided, disturbed, uncached, unheard>>
      BY <1>t, <1>11 DEF SignWebSocket, missed
    <2>2. Informed(w, z)'
      BY <2>1 DEF Informed
    <2>3. QED
      BY <1>t, <2>1, <2>2, Connection
  <1>12. ASSUME NEW w \in Socket, ReadStatus(w)
         PROVE  Calm(z)'
    <2>1. /\ sock[w].pc = "status" /\ UNCHANGED <<row, cache, req, decided, told>>
          /\ UNCHANGED <<disturbed, uncached>> /\ unheard \subseteq unheard'
          /\ \A v \in Socket : v # w => sock'[v] = sock[v]
      BY <1>t, <1>12 DEF ReadStatus
    <2>2. sock'[w].session = sock[w].session
      <3>1. PICK n : \/ sock' = [sock EXCEPT ![w].pc = "write", ![w].read = n]
                     \/ sock' = [sock EXCEPT ![w].pc = "write"]
        BY <1>12 DEF ReadStatus
      <3>2. QED
        BY <1>t, <3>1 DEF SockType
    <2>3. ASSUME z \notin disturbed', ~Missed(z)', ~Coming(z), sock[w].session = z
          PROVE  Informed(w, z)'
      <3>0. z \notin uncached /\ z \notin unheard'
        BY <2>1, <2>3 DEF Missed
      <3>1. PICK n \in {GetSigningStatus(z), row[z].status} :
               sock' = [sock EXCEPT ![w].pc = "write", ![w].read = n]
        BY <1>12, <2>3, <3>0 DEF ReadStatus
      <3>2. sock'[w].read = n /\ sock'[w].pc = "write"
        BY <1>t, <3>1 DEF SockType
      <3>3. InStep(z)
        <4>1. z \notin disturbed
          BY <2>1, <2>3
        <4>2. CASE AtWork(z)
          <5>1. PICK r \in Req : Works(r, z)
            BY <4>2 DEF AtWork, Works
          <5>2. req[r].pc # "publish" /\ Stage(r, z)
            BY <1>t, <2>3, <4>1, <5>1 DEF Coming, Calm
          <5>3. QED
            BY <5>2 DEF Stage
        <4>3. CASE ~AtWork(z)
          BY <1>t, <4>1, <4>3 DEF Calm
        <4>4. QED
          BY <4>2, <4>3
      <3>4. GetSigningStatus(z) = row[z].status
        BY <3>0, <3>3 DEF InStep, GetSigningStatus
      <3>5. QED
        BY <2>1, <3>2, <3>4 DEF Informed
    <2>4. sock[w].session # z => Informed(w, z)'
      BY <2>2 DEF Informed
    <2>5. QED
      BY <1>t, <2>1, <2>2, <2>3, <2>4, Connection
  <1>13. ASSUME NEW w \in Socket, WriteStatus(w)
         PROVE  Calm(z)'
    <2>1. /\ sock[w].pc = "write" /\ UNCHANGED <<row, cache, req, decided, disturbed>>
          /\ \A v \in Socket : v # w => sock'[v] = sock[v] /\ told'[v] = told[v]
          /\ told'[w] = told[w] \cup {sock[w].read}
          /\ UNCHANGED <<uncached, unheard>>
      BY <1>t, <1>13 DEF WriteStatus, missed
    <2>2. sock'[w] = [sock[w] EXCEPT !.pc = "open", !.read = "none"]
      BY <1>t, <1>13 DEF WriteStatus
    <2>3. sock'[w].session = sock[w].session
      BY <1>t, <2>2 DEF SockType
    <2>4. Informed(w, z) => Informed(w, z)'
      BY <2>1, <2>3 DEF Informed
    <2>5. QED
      BY <1>t, <2>1, <2>3, <2>4, Connection
  <1>14. ASSUME NEW w \in Socket, CloseSocket(w)
         PROVE  Calm(z)'
    <2>1. /\ sock'[w] = Closed
          /\ UNCHANGED <<row, cache, req, decided, disturbed, uncached, unheard>>
          /\ \A v \in Socket : v # w => sock'[v] = sock[v] /\ told'[v] = told[v]
      BY <1>t, <1>14 DEF CloseSocket, missed
    <2>2. sock'[w].session # z
      BY <1>t, <2>1 DEF Closed
    <2>3. Informed(w, z)'
      BY <2>2 DEF Informed
    <2>4. QED
      BY <1>t, <2>1, <2>2, <2>3, Connection
  <1>15. CASE Tick
    <2>1. UNCHANGED <<req, decided, disturbed, sock, told, uncached, unheard>>
      BY <1>15 DEF Tick, missed
    <2>2. row'[z].status = row[z].status
      <3>1. row'[z] = [row[z] EXCEPT !.ttl = IF @ = 0 THEN 0 ELSE @ - 1]
        BY <1>15 DEF Tick
      <3>2. QED
        BY <1>t, <3>1
    <2>3. cache'[z].status \in {"none", cache[z].status}
      <3>1. \/ cache'[z] = cache[z] \/ cache'[z] = Absent
            \/ cache'[z] = [cache[z] EXCEPT !.ttl = @ - 1]
        BY <1>15 DEF Tick
      <3>2. QED
        BY <1>t, <3>1 DEF Absent
    <2>4. /\ AtWork(z)' <=> AtWork(z)
          /\ Coming(z)' <=> Coming(z)
          /\ Undecided(z)' <=> Undecided(z)
          /\ Unwatched(z)' <=> Unwatched(z)
          /\ \A r \in Req : Works(r, z)' <=> Works(r, z)
          /\ InStep(z) => InStep(z)'
          /\ Trailing(z) => Trailing(z)'
          /\ Missed(z)' <=> Missed(z)
          /\ \A w \in Socket : Informed(w, z) => Informed(w, z)'
      BY <2>1, <2>2, <2>3 DEF AtWork, Coming, Undecided, Unwatched, Works, InStep, Trailing,
                              Missed, Informed
    <2>5. Grounded(z)'
      BY <1>t, <2>2, <2>3, <2>4 DEF Calm, Grounded
    <2>6. ASSUME NEW r \in Req, Stage(r, z)
          PROVE  Stage(r, z)'
      BY <2>1, <2>2, <2>3, <2>4, <2>6 DEF Stage
    <2>7. QED
      BY <1>t, <2>1, <2>2, <2>4, <2>5, <2>6 DEF Calm
  <1>16. CASE UNCHANGED vars
    <2>1. /\ AtWork(z)' <=> AtWork(z)
          /\ Coming(z)' <=> Coming(z)
          /\ Undecided(z)' <=> Undecided(z)
          /\ Unwatched(z)' <=> Unwatched(z)
          /\ \A r \in Req : Works(r, z)' <=> Works(r, z)
          /\ InStep(z)' <=> InStep(z)
          /\ Missed(z)' <=> Missed(z)
          /\ \A w \in Socket : Informed(w, z)' <=> Informed(w, z)
          /\ \A r \in Req : Stage(r, z)' <=> Stage(r, z)
          /\ Grounded(z)' <=> Grounded(z)
      BY <1>16 DEF vars, AtWork, Coming, Undecided, Unwatched, Works, InStep, Informed,
                   Stage, Grounded, Trailing, Missed
    <2>2. QED
      BY <1>t, <1>16, <2>1 DEF Calm, vars
  <1>17. QED
    BY <1>1, <1>2, <1>3, <1>4, <1>5, <1>6, <1>7, <1>8, <1>9, <1>10,
       <1>11, <1>12, <1>13, <1>14, <1>15, <1>16
       DEF Next, SessInv, ApproveSignRequest, DenySignRequest

LEMMA SessInvInit == Init => SessInv
  <1> SUFFICES ASSUME Init
               PROVE  SessInv
    OBVIOUS
  <1>1. SignInv
    BY SignInvInit
  <1>2. TypeOK
    BY <1>1, SignAssumption DEF Init, TypeOK, SignInv, RowsTyped, Absent, Closed, Status
  <1>3. Rested
    BY DEF Init, Rested, Idle, Closed
  <1>4. AllCalm
    BY SignAssumption
    DEF Init, AllCalm, Calm, Grounded, Works, Undecided, Unwatched, Stage, InStep,
        Coming, Missed, Trailing, Informed, AtWork, Idle, Closed, Absent
  <1>5. QED
    BY <1>1, <1>2, <1>3, <1>4 DEF SessInv

LEMMA SessInvStep == SessInv /\ [Next]_vars => SessInv'
  BY SignInvNext, TypeStep, RestedStep, CalmStep DEF SessInv

LEMMA SignInvariant == Spec => []SessInv
  BY SessInvInit, SessInvStep, PTL DEF Spec

\* The rows, the cache, the requests and the connections keep their types.
THEOREM SignTypeCorrect == Spec => []TypeOK
  <1>1. SessInv => TypeOK
    BY DEF SessInv
  <1>2. QED
    BY <1>1, SignInvariant, PTL

\* Nobody decides a session twice.
THEOREM SignDecidedOnce == Spec => []DecidedOnce
  <1>1. SessInv => DecidedOnce
    BY DEF SessInv, AllCalm, Calm, DecidedOnce, Undisturbed
  <1>2. QED
    BY <1>1, SignInvariant, PTL

\* A signature is logged in a session that is approved at that moment.
THEOREM SignSignsWhileApproved == Spec => SignedWhileApproved
  <1> DEFINE A == \A s \in Undisturbed : logs'[s] # logs[s] => row[s].status = "approved"
  <1>1. SessInv /\ [Next]_vars => [A]_vars
    <2> SUFFICES ASSUME SessInv, Next, NEW s \in Undisturbed, logs'[s] # logs[s]
                 PROVE  row[s].status = "approved"
      OBVIOUS
    <2>1. logs' = logs \/ \E r \in Req : InsertLog(r)
      BY DEF Next, ApproveSignRequest, DenySignRequest, CreateSignRequest, Decide,
             CompleteSign, CacheNew, ExpireNew, UpdateRow, CompleteRow, Publish,
             StatementFails, RequestDies, Broadcast, BroadcastPanics, SignWebSocket, ReadStatus,
             WriteStatus, CloseSocket, Tick
    <2>2. PICK r \in Req : InsertLog(r)
      BY <2>1
    <2>3. logs \in [Session -> 0..MaxLogs] /\ s \in Session /\ s \notin disturbed
      BY DEF SessInv, TypeOK, Undisturbed
    <2>4. req[r].pc = "log" /\ req[r].session = s
      BY <2>2, <2>3 DEF InsertLog
    <2>5. Stage(r, s)
      BY <2>3, <2>4 DEF SessInv, AllCalm, Calm, Works
    <2>6. QED
      BY <2>4, <2>5 DEF Stage
  <1>2. QED
    BY <1>1, SignInvariant, PTL DEF Spec, SignedWhileApproved

\* What a status request is told of a session nobody works on is what the row
\* says, or, while the last update has not reached the cache, a status the
\* session had before.
THEOREM SignStatusIsTrue == Spec => []StatusIsTrue
  <1>1. SessInv => StatusIsTrue
    BY DEF SessInv, AllCalm, Calm, InStep, Trailing, StatusIsTrue, GetSigningStatus, Undisturbed
  <1>2. QED
    BY <1>1, SignInvariant, PTL

\* A browser that stays connected has been told the status the session is left
\* in, whether it came before the broadcast or after it, unless that status was
\* not cached or not sent.
THEOREM SignNobodyMissesTheStatus == Spec => []NobodyMissesTheStatus
  <1>1. SessInv => NobodyMissesTheStatus
    <2> SUFFICES ASSUME SessInv, NEW w \in Socket, NEW s, s = sock[w].session,
                        sock[w].pc = "open", s \in Undisturbed, ~AtWork(s),
                        ~Missed(s)
                 PROVE  row[s].status \in told[w]
      BY DEF NobodyMissesTheStatus, Missed
    <2>1. Calm(s) /\ s \notin disturbed
      BY DEF SessInv, AllCalm, Undisturbed
    <2>2. ~Coming(s)
      BY DEF Coming, Works, AtWork
    <2>3. Informed(w, s)
      BY <2>1, <2>2 DEF Calm
    <2>4. QED
      BY <2>3 DEF Informed
  <1>2. QED
    BY <1>1, SignInvariant, PTL

=============================================================================
