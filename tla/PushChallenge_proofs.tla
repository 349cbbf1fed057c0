------------------------- MODULE PushChallenge_proofs -------------------------
(***************************************************************************)
(* Push challenges keep their promises for any numbers of users, requests  *)
(* and challenges, whatever the lifetime and whether or not commands fail  *)
(* and requests die.                                                       *)
(***************************************************************************)
EXTENDS PushChallenge, TLAPS

\* What is stored or under way concerns challenges that have been sent.
Referenced ==
    /\ \A ch \in Challenge : hash[ch] # Absent => ch \in used
    /\ \A r \in Req : req[r].pc # "idle" => req[r].ch \in used
    /\ \A r \in Req : req[r].pc = "token" => req[r].user \in User

\* Between the HSET and the EXPIRE of a challenge its key, if it was written,
\* is there for good, and one request is at work on it.
Fresh ==
    /\ \A r \in Req : req[r].pc = "expire" => hash[req[r].ch].ttl = 0
    /\ \A r, q \in Req :
          req[r].pc = "expire" /\ req[q].pc = "expire" /\ req[r].ch = req[q].ch
          => r = q

TypeInv == TypeOK /\ Referenced /\ Fresh

LEMMA TypeInvInit == Init => TypeInv
  BY DEF Init, TypeInv, TypeOK, Referenced, Fresh, Request, Idle

LEMMA TypeInvNext == TypeInv /\ [Next]_vars => TypeInv'
  <1> SUFFICES ASSUME TypeInv, [Next]_vars
               PROVE  TypeInv'
    OBVIOUS
  <1> USE PushAssumption
  <1> USE DEF Write, Exists, TypeInv, TypeOK, Referenced, Fresh, Hash, Request, Idle, Absent
  <1>1. ASSUME NEW r \in Req, NEW u \in User, SendChallenge(r, u)
        PROVE  TypeInv'
    <2>1. PICK ch \in Challenge \ used :
              /\ Begin(r, "expire", ch)
              /\ Write([hash EXCEPT ![ch] = [status |-> "pending", user |-> u,
                                             ttl |-> 0]])
              /\ used' = used \cup {ch}
              /\ UNCHANGED <<matched, denied, crossed, expired, minted>>
      BY <1>1 DEF SendChallenge
    <2>2. \A q \in Req : req[q].pc # "idle" => req[q].ch # ch
      BY <2>1
    <2>3. req' = [req EXCEPT ![r] = [pc |-> "expire", ch |-> ch,
                                     user |-> NoUser, late |-> FALSE]]
      BY <2>1 DEF Begin
    <2>4. TypeOK'
      BY <2>1, <2>3
    <2>5. Referenced'
      BY <2>1, <2>3
    <2>6. Fresh'
      <3>1. ASSUME NEW q \in Req, req'[q].pc = "expire"
            PROVE  hash'[req'[q].ch].ttl = 0
        BY <2>1, <2>2, <2>3, <3>1
      <3>2. ASSUME NEW q \in Req, NEW p \in Req, req'[q].pc = "expire",
                   req'[p].pc = "expire", req'[q].ch = req'[p].ch
            PROVE  q = p
        BY <2>1, <2>2, <2>3, <3>2
      <3>3. QED
        BY <3>1, <3>2
    <2>7. QED
      BY <2>4, <2>5, <2>6
  <1>2. ASSUME NEW r \in Req, NEW ch \in Challenge, CheckApproval(r, ch)
        PROVE  TypeInv'
    BY <1>2 DEF CheckApproval, Sent, Begin
  <1>3. ASSUME NEW r \in Req, NEW ch \in Challenge, CheckDenial(r, ch)
        PROVE  TypeInv'
    BY <1>3 DEF CheckDenial, Sent, Begin
  <1>4. ASSUME NEW r \in Req, NEW ch \in Challenge, Poll(r, ch)
        PROVE  TypeInv'
    BY <1>4 DEF Poll, Sent, Admits
  <1>5. ASSUME NEW r \in Req, SetExpiry(r)
        PROVE  TypeInv'
    <2>1. PICK ch \in Challenge : ch = req[r].ch
      BY <1>5 DEF SetExpiry
    <2>2. /\ req[r].pc = "expire"
          /\ hash' = [hash EXCEPT ![ch] = IF hash[ch] # Absent
                                          THEN [hash[ch] EXCEPT !.ttl = TTL]
                                          ELSE hash[ch]]
             \/ hash' = hash
          /\ req' = [req EXCEPT ![r] = Idle]
          /\ UNCHANGED <<used, matched, denied, crossed, expired, minted>>
      BY <1>5, <2>1 DEF SetExpiry, Finish
    <2>3. hash' \in [Challenge -> Hash \cup {Absent}]
      <3>1. hash[ch] # Absent => [hash[ch] EXCEPT !.ttl = TTL] \in Hash
        BY <2>1
      <3>2. QED
        BY <2>1, <2>2, <3>1
    <2>4. \A d \in Challenge : d # ch => hash'[d] = hash[d]
      BY <2>2
    <2>5. \A d \in Challenge : hash'[d] # Absent => hash[d] # Absent
      BY <2>2, <2>4
    <2>6. TypeOK' /\ Referenced'
      BY <2>2, <2>3, <2>5
    <2>7. Fresh'
      BY <2>1, <2>2, <2>4
    <2>8. QED
      BY <2>6, <2>7
  <1>6. ASSUME NEW r \in Req, ApproveChallenge(r)
        PROVE  TypeInv'
    <2>1. PICK ch \in Challenge : ch = req[r].ch
      BY <1>6 DEF ApproveChallenge
    <2>2. /\ req[r].pc = "approve"
          /\ hash' \in {[hash EXCEPT ![ch] = [status |-> "approved",
                                             user |-> hash[ch].user,
                                             ttl |-> hash[ch].ttl]], hash}
          /\ req' = [req EXCEPT ![r] = Idle]
          /\ UNCHANGED <<used, matched, denied, crossed, expired, minted>>
      BY <1>6, <2>1 DEF ApproveChallenge, WithStatus, Finish
    <2>3. hash' \in [Challenge -> Hash \cup {Absent}]
      BY <2>1, <2>2
    <2>4. TypeOK' /\ Referenced'
      BY <2>1, <2>2, <2>3
    <2>5. Fresh'
      BY <2>1, <2>2
    <2>6. QED
      BY <2>4, <2>5
  <1>7. ASSUME NEW r \in Req, DenyChallenge(r)
        PROVE  TypeInv'
    BY <1>7 DEF DenyChallenge, WithStatus, Finish
  <1>8. ASSUME NEW r \in Req, IssueToken(r)
        PROVE  TypeInv'
    BY <1>8 DEF IssueToken, Finish
  <1>9. ASSUME NEW r \in Req, Die(r)
        PROVE  TypeInv'
    BY <1>9 DEF Die, Finish
  <1>10. CASE Tick
    BY <1>10 DEF Tick
  <1>11. CASE UNCHANGED vars
    BY <1>11 DEF vars
  <1>12. QED
    BY <1>1, <1>2, <1>3, <1>4, <1>5, <1>6, <1>7, <1>8, <1>9, <1>10, <1>11 DEF Next

\* The hashes, the requests and the histories keep their types.
THEOREM PushTypeCorrect == Spec => []TypeOK
  <1>1. TypeInv => TypeOK
    BY DEF TypeInv
  <1>2. QED
    BY <1>1, TypeInvInit, TypeInvNext, PTL DEF Spec

-----------------------------------------------------------------------------
\* What vouches for an approval, from the check of the number to the token;
\* a token under way is for a challenge that had not expired.
Vouched ==
    /\ \A ch \in Challenge : hash[ch].status = "approved" => ch \in matched
    /\ \A r \in Req : req[r].pc \in {"approve", "token"} => req[r].ch \in matched

\* A hash that an answer brings back after its challenge ran out of time has
\* no user.
Orphaned == \A ch \in expired : hash[ch].user = NoUser

\* A denial that was written, and crossed by no approval, leaves the challenge
\* neither pending nor approved, and no approval of it past its check.
Settled ==
    \A ch \in denied \ crossed :
       hash[ch].status \notin {"pending", "approved"} /\ ~UnderApproval(ch)

PushInv ==
    /\ TypeInv
    /\ Vouched
    /\ Orphaned
    /\ Settled
    /\ TokensWereMatched
    /\ ExpiredNeverAdmits

LEMMA PushInvInit == Init => PushInv
  <1> SUFFICES ASSUME Init
               PROVE  PushInv
    OBVIOUS
  <1>1. TypeInv
    BY TypeInvInit
  <1>2. Vouched
    BY DEF Init, Vouched, Idle, Absent
  <1>3. Orphaned /\ Settled
    BY DEF Init, Orphaned, Settled
  <1>4. TokensWereMatched
    BY DEF Init, TokensWereMatched
  <1>5. ExpiredNeverAdmits
    BY DEF Init, ExpiredNeverAdmits, Idle
  <1>6. QED
    BY <1>1, <1>2, <1>3, <1>4, <1>5 DEF PushInv

LEMMA PushInvNext == PushInv /\ [Next]_vars => PushInv'
  <1> SUFFICES ASSUME PushInv, [Next]_vars
               PROVE  PushInv'
    OBVIOUS
  <1>0. TypeInv'
    BY TypeInvNext DEF PushInv
  <1>t. TypeOK /\ Referenced
    BY DEF PushInv, TypeInv
  <1>p. Vouched /\ Orphaned /\ Settled /\ TokensWereMatched /\ ExpiredNeverAdmits
    BY DEF PushInv
  <1> DEFINE Promises == Vouched /\ Orphaned /\ Settled /\ TokensWereMatched
                         /\ ExpiredNeverAdmits
  <1> USE <1>t, <1>p, PushAssumption
  <1> USE DEF Write, Exists, TypeOK, Referenced, Vouched, Orphaned, Settled,
              TokensWereMatched,
              ExpiredNeverAdmits, Hash, Request, Idle, Absent,
              UnderApproval
  <1>1. ASSUME NEW r \in Req, NEW u \in User, SendChallenge(r, u)
        PROVE  Promises'
    <2>1. PICK ch \in Challenge \ used :
              /\ Begin(r, "expire", ch)
              /\ Write([hash EXCEPT ![ch] = [status |-> "pending", user |-> u,
                                             ttl |-> 0]])
              /\ UNCHANGED <<matched, denied, crossed, expired, minted>>
      BY <1>1 DEF SendChallenge
    <2>2. \A d \in Challenge : d # ch => hash'[d] = hash[d]
      BY <2>1
    <2>3. hash'[ch].status \in {"pending", "absent"}
      BY <2>1
    <2>4. ch \notin denied /\ ch \notin expired
      BY <2>1
    <2>5. req' = [req EXCEPT ![r] = [pc |-> "expire", ch |-> ch,
                                     user |-> NoUser, late |-> FALSE]]
      BY <2>1 DEF Begin
    <2>6. Vouched' /\ Orphaned'
      BY <2>1, <2>2, <2>3, <2>4, <2>5
    <2>7. Settled'
      BY <2>1, <2>2, <2>4, <2>5
    <2>8. TokensWereMatched' /\ ExpiredNeverAdmits'
      BY <2>1, <2>5
    <2>9. QED
      BY <2>6, <2>7, <2>8
  <1>2. ASSUME NEW r \in Req, NEW ch \in Challenge, CheckApproval(r, ch)
        PROVE  Promises'
    <2>1. /\ hash[ch].status = "pending"
          /\ req[r].pc = "idle"
          /\ req' = [req EXCEPT ![r] = [pc |-> "approve", ch |-> ch,
                                        user |-> NoUser, late |-> FALSE]]
          /\ matched' = matched \cup {ch}
          /\ UNCHANGED <<hash, used, denied, crossed, expired, minted>>
      BY <1>2 DEF CheckApproval, MayApprove, Begin
    <2>2. Vouched' /\ Orphaned'
      BY <2>1
    <2>3. Settled'
      BY <2>1
    <2>4. TokensWereMatched' /\ ExpiredNeverAdmits'
      BY <2>1
    <2>5. QED
      BY <2>2, <2>3, <2>4
  <1>3. ASSUME NEW r \in Req, NEW ch \in Challenge, CheckDenial(r, ch)
        PROVE  Promises'
    BY <1>3 DEF CheckDenial, Begin
  <1>4. ASSUME NEW r \in Req, NEW ch \in Challenge, Poll(r, ch)
        PROVE  Promises'
    BY <1>4 DEF Poll, Admits
  <1>5. ASSUME NEW r \in Req, SetExpiry(r)
        PROVE  Promises'
    BY <1>5 DEF SetExpiry, Finish
  <1>6. ASSUME NEW r \in Req, ApproveChallenge(r)
        PROVE  Promises'
    BY <1>6 DEF ApproveChallenge, WithStatus, Finish
  <1>7. ASSUME NEW r \in Req, DenyChallenge(r)
        PROVE  Promises'
    BY <1>7 DEF DenyChallenge, WithStatus, Finish
  <1>8. ASSUME NEW r \in Req, IssueToken(r)
        PROVE  Promises'
    BY <1>8 DEF IssueToken, Finish
  <1>9. ASSUME NEW r \in Req, Die(r)
        PROVE  Promises'
    BY <1>9 DEF Die, Finish
  <1>10. CASE Tick
    <2>1. \A ch \in Challenge : hash'[ch] \in
             {hash[ch], Absent, [hash[ch] EXCEPT !.ttl = hash[ch].ttl - 1]}
      BY <1>10 DEF Tick
    <2>2. \A ch \in Challenge :
             /\ hash'[ch].status \in {hash[ch].status, "absent"}
             /\ hash'[ch].user \in {hash[ch].user, NoUser}
      BY <2>1
    <2>3. \A ch \in expired' \ expired : hash'[ch] = Absent
      BY <1>10 DEF Tick
    <2>4. UNCHANGED <<req, matched, denied, crossed, minted>>
      BY <1>10 DEF Tick
    <2>5. Vouched'
      BY <2>2, <2>4
    <2>6. Orphaned'
      <3>1. expired' \subseteq Challenge
        BY <1>10 DEF Tick
      <3>2. QED
        BY <2>2, <2>3, <3>1
    <2>7. Settled'
      BY <2>2, <2>4
    <2>8. TokensWereMatched' /\ ExpiredNeverAdmits'
      BY <2>4
    <2>9. QED
      BY <1>0, <2>5, <2>6, <2>7, <2>8 DEF PushInv
  <1>11. CASE UNCHANGED vars
    <2>1. UNCHANGED <<hash, req, matched, denied, crossed, expired, minted>>
      BY <1>11 DEF vars
    <2>2. Vouched' /\ Orphaned' /\ Settled'
      BY <2>1
    <2>3. TokensWereMatched' /\ ExpiredNeverAdmits'
      BY <2>1
    <2>4. QED
      BY <1>0, <2>2, <2>3 DEF PushInv
  <1>12. QED
    BY <1>0, <1>1, <1>2, <1>3, <1>4, <1>5, <1>6, <1>7, <1>8, <1>9, <1>10, <1>11
    DEF Next, PushInv

-----------------------------------------------------------------------------
\* A poll mints a full token only for a challenge that a phone with the right
\* number found pending, whatever answers it at the same time.
THEOREM PushTokensWereMatched == Spec => []TokensWereMatched
  <1>1. PushInv => TokensWereMatched
    BY DEF PushInv
  <1>2. QED
    BY <1>1, PushInvInit, PushInvNext, PTL DEF Spec

\* A hash brought back by a late answer never admits a poll.
THEOREM PushExpiredNeverAdmits == Spec => []ExpiredNeverAdmits
  <1>1. PushInv => ExpiredNeverAdmits
    BY DEF PushInv
  <1>2. QED
    BY <1>1, PushInvInit, PushInvNext, PTL DEF Spec

\* A denial that was written stands, unless an approval was past its check.
THEOREM PushDenialsStand == Spec => []DenialStands
  <1>1. PushInv => DenialStands
    BY DEF PushInv, Settled, DenialStands
  <1>2. QED
    BY <1>1, PushInvInit, PushInvNext, PTL DEF Spec

=============================================================================
