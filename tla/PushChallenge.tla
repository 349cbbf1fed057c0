---------------------------- MODULE PushChallenge ----------------------------
(***************************************************************************)
(* Push challenges: a Redis hash per challenge, written by the request     *)
(* that sends it and by the phone that answers it, and polled by the page  *)
(* that waits.  Nothing else is kept: a poll that finds the challenge      *)
(* approved mints a full token for the user named in the hash.             *)
(*                                                                         *)
(* Every handler reads the hash with one command and writes it with        *)
(* another.  HSET creates the hash when it is gone, with the one field it  *)
(* sets and without a TTL.  No handler looks at the error of a write: the  *)
(* request goes on, and answers, as if it had been made.                   *)
(***************************************************************************)
EXTENDS Naturals

CONSTANTS
    User,
    Challenge,   \* challenge IDs (16 random bytes, never repeated)
    Req,         \* requests in progress at the same time
    NoUser, NoChallenge,
    TTL,         \* lifetime of a challenge (5 min)
    Fails        \* may a command fail, or a request end between two?

ASSUME PushAssumption ==
    /\ NoUser \notin User
    /\ NoChallenge \notin Challenge
    /\ TTL \in Nat \ {0}
    /\ Fails \in BOOLEAN

VARIABLES
    hash,      \* push_challenge:<id>
    req,       \* requests in progress
    used,      \* history: IDs that SendChallenge has drawn
    matched,   \* history: challenges an approval with the right number passed
    denied,    \* history: challenges whose denial was written
    crossed,   \* history: those with an approval past its check at that time
    expired,   \* history: challenges whose key ran out of time
    minted     \* history: full tokens handed to a poll

vars == <<hash, req, used, matched, denied, crossed, expired, minted>>

-----------------------------------------------------------------------------
\* A key with ttl = 0 lasts for ever.
Hash == [status : {"pending", "approved", "denied"}, user : User \cup {NoUser},
         ttl : 0..TTL]

Absent == [status |-> "absent", user |-> NoUser, ttl |-> 0]

Exists(ch) == hash[ch] # Absent

\* late is history: the challenge had expired when this poll arrived.
Request == [pc : {"idle", "expire", "approve", "deny", "token"},
            ch : Challenge \cup {NoChallenge}, user : User \cup {NoUser},
            late : BOOLEAN]

Idle == [pc |-> "idle", ch |-> NoChallenge, user |-> NoUser, late |-> FALSE]

TypeOK ==
    /\ hash \in [Challenge -> Hash \cup {Absent}]
    /\ req \in [Req -> Request]
    /\ used \subseteq Challenge
    /\ matched \subseteq used
    /\ denied \subseteq used
    /\ crossed \subseteq denied
    /\ expired \subseteq used
    /\ minted \subseteq [ch : Challenge, user : User]

Init ==
    /\ hash = [ch \in Challenge |-> Absent]
    /\ req = [r \in Req |-> Idle]
    /\ used = {} /\ matched = {} /\ denied = {} /\ crossed = {}
    /\ expired = {} /\ minted = {}

Finish(r) == req' = [req EXCEPT ![r] = Idle]

Write(h) ==
    \/ hash' = h
    \/ Fails /\ UNCHANGED hash

Begin(r, pc, ch) ==
    /\ req[r].pc = "idle"
    /\ req' = [req EXCEPT ![r] = [pc |-> pc, ch |-> ch, user |-> NoUser, late |-> FALSE]]

-----------------------------------------------------------------------------
\* SendChallenge: HSET ...
SendChallenge(r, u) ==
    \E ch \in Challenge \ used :
        /\ Begin(r, "expire", ch)
        /\ Write([hash EXCEPT ![ch] = [status |-> "pending", user |-> u, ttl |-> 0]])
        /\ used' = used \cup {ch}
        /\ UNCHANGED <<matched, denied, crossed, expired, minted>>

\* ... then EXPIRE; the page gets the ID and the number to show.
SetExpiry(r) ==
    /\ req[r].pc = "expire"
    /\ Write([hash EXCEPT ![req[r].ch] =
                 IF Exists(req[r].ch) THEN [@ EXCEPT !.ttl = TTL] ELSE @])
    /\ Finish(r)
    /\ UNCHANGED <<used, matched, denied, crossed, expired, minted>>

Sent(ch) == ch \in used /\ ~\E r \in Req : req[r].pc = "expire" /\ req[r].ch = ch

\* Mutant: a phone may change its mind.
MayApprove_Always(ch) == Exists(ch)

MayApprove(ch) == hash[ch].status = "pending"

\* ApproveChallenge, up to the write: the hash is pending and holds the number
\* the phone sent.  Wrong numbers are refused and not counted.
CheckApproval(r, ch) ==
    /\ Sent(ch)
    /\ MayApprove(ch)
    /\ Begin(r, "approve", ch)
    /\ matched' = matched \cup {ch}
    /\ UNCHANGED <<hash, used, denied, crossed, expired, minted>>

\* DenyChallenge, up to the write: the hash exists.
CheckDenial(r, ch) ==
    /\ Sent(ch)
    /\ Exists(ch)
    /\ Begin(r, "deny", ch)
    /\ UNCHANGED <<hash, used, matched, denied, crossed, expired, minted>>

\* Mutant: the whole hash is written back from what the check read.
WithStatus_Whole(ch, status) ==
    [status |-> status, user |-> CHOOSE u \in User : TRUE, ttl |-> hash[ch].ttl]

\* HSET of one field.
WithStatus(ch, status) ==
    [status |-> status, user |-> hash[ch].user, ttl |-> hash[ch].ttl]

ApproveChallenge(r) ==
    /\ req[r].pc = "approve"
    /\ Write([hash EXCEPT ![req[r].ch] = WithStatus(req[r].ch, "approved")])
    /\ Finish(r)
    /\ UNCHANGED <<used, matched, denied, crossed, expired, minted>>

UnderApproval(ch) == \E q \in Req : req[q].pc = "approve" /\ req[q].ch = ch

\* The answer is the same when the HSET fails, and the challenge then as
\* pending as it was.
DenyChallenge(r) ==
    LET ch == req[r].ch IN
    /\ req[r].pc = "deny"
    /\ \/ /\ hash' = [hash EXCEPT ![ch] = WithStatus(ch, "denied")]
          /\ denied' = denied \cup {ch}
          /\ crossed' = IF UnderApproval(ch) THEN crossed \cup {ch} ELSE crossed
       \/ Fails /\ UNCHANGED <<hash, denied, crossed>>
    /\ Finish(r)
    /\ UNCHANGED <<used, matched, expired, minted>>

-----------------------------------------------------------------------------
\* Mutant: the poll does not look at the status.
Admits_AnyStatus(ch) == Exists(ch) /\ hash[ch].user # NoUser

\* An approved hash without a user mints nothing.
Admits(ch) == hash[ch].status = "approved" /\ hash[ch].user # NoUser

\* GetPushChallengeStatus: HGETALL, then FindByID and GenerateToken.  Polls
\* that find anything else only report it.
Poll(r, ch) ==
    /\ req[r].pc = "idle"
    /\ Sent(ch)
    /\ Admits(ch)
    /\ req' = [req EXCEPT ![r] = [pc |-> "token", ch |-> ch,
                                  user |-> hash[ch].user,
                                  late |-> ch \in expired]]
    /\ UNCHANGED <<hash, used, matched, denied, crossed, expired, minted>>

IssueToken(r) ==
    /\ req[r].pc = "token"
    /\ minted' = minted \cup {[ch |-> req[r].ch, user |-> req[r].user]}
    /\ Finish(r)
    /\ UNCHANGED <<hash, used, matched, denied, crossed, expired>>

\* The process dies between two commands of a request, or a lookup fails.
Die(r) ==
    /\ Fails
    /\ req[r].pc # "idle"
    /\ Finish(r)
    /\ UNCHANGED <<hash, used, matched, denied, crossed, expired, minted>>

\* Time passes; keys whose TTL runs out are dropped.
Tick ==
    /\ \E ch \in Challenge : hash[ch].ttl > 0
    /\ hash' = [ch \in Challenge |->
                  CASE hash[ch].ttl = 0 -> hash[ch]
                    [] hash[ch].ttl = 1 -> Absent
                    [] OTHER -> [hash[ch] EXCEPT !.ttl = @ - 1]]
    /\ expired' = expired \cup {ch \in Challenge : hash[ch].ttl = 1}
    /\ UNCHANGED <<req, used, matched, denied, crossed, minted>>

Next ==
    \/ \E r \in Req :
          \/ \E u \in User : SendChallenge(r, u)
          \/ \E ch \in Challenge :
                CheckApproval(r, ch) \/ CheckDenial(r, ch) \/ Poll(r, ch)
          \/ SetExpiry(r) \/ ApproveChallenge(r) \/ DenyChallenge(r)
          \/ IssueToken(r) \/ Die(r)
    \/ Tick

Spec == Init /\ [][Next]_vars

-----------------------------------------------------------------------------
\* A full token comes from a challenge that somebody who named its number
\* found pending (the endpoint asks for nothing else), whatever else answers
\* that challenge at the same time.
TokensWereMatched == \A m \in minted : m.ch \in matched

\* A poll that arrives after a challenge has expired gets no token, not even
\* when an answer that was under way has brought the hash back.
ExpiredNeverAdmits == \A r \in Req : req[r].late => req[r].pc # "token"

\* A denial that was written stands: from then on the challenge is never
\* approved, whatever is sent, answered and brought back later.  The exception
\* is an approval that was past its check when the denial was written: it is
\* written over it.  (A denial whose HSET failed is answered like any other,
\* but was never written.)
DenialStands == \A ch \in denied \ crossed : hash[ch].status # "approved"

=============================================================================
