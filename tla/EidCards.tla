------------------------------ MODULE EidCards ------------------------------
(***************************************************************************)
(* e-ID cards: the registry of the cards, in a database of its own, and    *)
(* the verification of a user by card, which writes the citizens and users *)
(* tables of Accounts in one statement after another, without a            *)
(* transaction.  Expiry dates are left to chance; a verification does not  *)
(* look at the registry.                                                   *)
(***************************************************************************)
EXTENDS Accounts

CONSTANTS
    Card,         \* card numbers
    NoCard,
    MaxEntries    \* bound: entries of one kind that are counted for a card

ASSUME EidAssumption ==
    /\ NoCard \notin Card
    /\ MaxEntries \in Nat \ {0}

VARIABLES
    eid,      \* citizens.eid_verified
    card,     \* eid_cards: status and citizen
    audit,    \* eid_audit_log: entries of each card
    ereq,     \* requests to the e-ID service; r serves one kind at a time
    answered  \* history: users and citizens a verification was confirmed for

eidVars == <<eid, card, audit, ereq, answered>>

vars == <<users, citizens, oauth, pending, req, load, tied, relinked, logins,
          spent,
          proofs, faulty, eid, card, audit, ereq, answered>>

-----------------------------------------------------------------------------
Entry == {"issued", "revoked"}

\* Verifications name a user and a citizen; of a card that was written, its
\* entry in the log remains to be made.
EidRequest ==
    [pc : {"idle", "mark", "raise", "metadata"} \cup Entry,
     user : User \cup {NoUser},
     citizen : Citizen \cup {NoCitizen},
     card : Card \cup {NoCard}]

EidIdle == [pc |-> "idle", user |-> NoUser, citizen |-> NoCitizen,
            card |-> NoCard]

TypeOK ==
    /\ AccountsTypeOK
    /\ eid \in [Citizen -> BOOLEAN]
    /\ card \in [Card -> {"none", "active", "revoked"}]
    /\ audit \in [Card -> [Entry -> 0..MaxEntries]]
    /\ ereq \in [Req -> EidRequest]
    /\ answered \subseteq User \X Citizen

Init ==
    /\ AccountsInit
    /\ eid = [c \in Citizen |-> FALSE]
    /\ card = [k \in Card |-> "none"]
    /\ audit = [k \in Card |-> [e \in Entry |-> 0]]
    /\ ereq = [r \in Req |-> EidIdle]
    /\ answered = {}

EidBegin(r, op, request) ==
    /\ op \in load
    /\ At(r, "idle")
    /\ ereq[r] = EidIdle
    /\ ereq' = [ereq EXCEPT ![r] = request]

\* What is left to do for card k.
EntryOf(e, k) == [pc |-> e, user |-> NoUser, citizen |-> NoCitizen, card |-> k]

EidFinish(r) == ereq' = [ereq EXCEPT ![r] = EidIdle]

-----------------------------------------------------------------------------
\* VerifyEID: the SELECT of the user's citizen, who must be the one named.
VerifyEID(r, u, c) ==
    /\ users[u].citizen = c
    /\ EidBegin(r, "eid", [pc |-> "mark", user |-> u, citizen |-> c,
                           card |-> NoCard])
    /\ proofs' = proofs \cup {<<u, 4>>}
    /\ UNCHANGED <<users, citizens, oauth, pending, req, load, tied, relinked,
                   logins,
                   spent, faulty, eid, card, audit, answered>>

\* Mutant: an error of the UPDATE does not stop the verification.
MarkCitizen_ErrorIgnored(r) ==
    /\ ereq[r].pc = "mark"
    /\ ~Locked(ereq[r].citizen)
    /\ eid' \in {eid, [eid EXCEPT ![ereq[r].citizen] = TRUE]}
    /\ ereq' = [ereq EXCEPT ![r].pc = "raise"]
    /\ UNCHANGED <<accountVars, card, audit, answered>>

\* UPDATE of the citizen's e-ID columns.
MarkCitizen(r) ==
    /\ ereq[r].pc = "mark"
    /\ ~Locked(ereq[r].citizen)
    /\ eid' = [eid EXCEPT ![ereq[r].citizen] = TRUE]
    /\ ereq' = [ereq EXCEPT ![r].pc = "raise"]
    /\ UNCHANGED <<accountVars, card, audit, answered>>

\* UPDATE of the user's level.
RaiseToFour(r) ==
    /\ ereq[r].pc = "raise"
    /\ users' = [users EXCEPT ![ereq[r].user].level = Raised(@, 4)]
    /\ ereq' = [ereq EXCEPT ![r].pc = "metadata"]
    /\ UNCHANGED <<citizens, oauth, pending, req, load, tied, relinked, logins,
                   spent,
                   proofs, faulty, eid, card, audit, answered>>

\* An active record is found, or none is, or the other database fails.
GetNationalIDMetadata == {"found", "none"}

\* With a national ID on record the user is verified as well; its errors are
\* dropped, and the request is answered.
ConsultMetadata(r) ==
    LET u == ereq[r].user IN
    /\ ereq[r].pc = "metadata"
    /\ \E found \in GetNationalIDMetadata :
          users' = [users EXCEPT ![u].verified = @ \/ found = "found"]
    /\ answered' = answered \cup {<<u, ereq[r].citizen>>}
    /\ EidFinish(r)
    /\ UNCHANGED <<citizens, oauth, pending, req, load, tied, relinked, logins,
                   spent,
                   proofs, faulty, eid, card, audit>>

\* A statement or the process fails before the answer.
EidFail(r) ==
    /\ ereq[r] # EidIdle
    /\ faulty' = IF ereq[r].pc \in {"mark", "raise"}
                   THEN faulty \cup {ereq[r].user} ELSE faulty
    /\ EidFinish(r)
    /\ UNCHANGED <<users, citizens, oauth, pending, req, load, tied, relinked,
                   logins,
                   spent, proofs, eid, card, audit, answered>>

-----------------------------------------------------------------------------
\* The citizen must be in the other database; rows there are never removed.
RegisterCard(r, k, c) ==
    /\ citizens[c] # "absent"
    /\ card[k] = "none"
    /\ EidBegin(r, "card", EntryOf("issued", k))
    /\ card' = [card EXCEPT ![k] = "active"]
    /\ UNCHANGED <<accountVars, eid, audit, answered>>

\* Mutant: the status is not in the WHERE clause.
Revocable_Any(k) == card[k] # "none"

Revocable(k) == card[k] = "active"

\* UPDATE ... WHERE status = 'active' RETURNING id.
RevokeCard(r, k) ==
    /\ Revocable(k)
    /\ EidBegin(r, "card", EntryOf("revoked", k))
    /\ card' = [card EXCEPT ![k] = "revoked"]
    /\ UNCHANGED <<accountVars, eid, audit, answered>>

\* The entry is written after the fact; its error is dropped.
writeAuditLog(r) ==
    LET entry == ereq[r].pc
        k == ereq[r].card
    IN
    /\ entry \in Entry
    /\ audit[k][entry] < MaxEntries
    /\ audit' = [audit EXCEPT ![k][entry] = @ + 1]
    /\ EidFinish(r)
    /\ UNCHANGED <<accountVars, eid, card, answered>>

CardStep(r) ==
    \/ \E k \in Card, c \in Citizen : RegisterCard(r, k, c)
    \/ \E k \in Card : RevokeCard(r, k)
    \/ writeAuditLog(r)

EidStep(r) ==
    \/ \E u \in User, c \in Citizen : VerifyEID(r, u, c)
    \/ MarkCitizen(r) \/ RaiseToFour(r) \/ ConsultMetadata(r) \/ EidFail(r)

Next ==
    \/ /\ AccountsNext
       /\ \A r \in Req : ereq[r] # EidIdle => req'[r] = req[r]
       /\ UNCHANGED eidVars
    \/ \E r \in Req : CardStep(r) \/ EidStep(r)

Spec == Init /\ [][Next]_vars

-----------------------------------------------------------------------------
\* GetEIDStatus of a user.
GetEIDStatus(u) == users[u].citizen # NoCitizen /\ eid[users[u].citizen]

\* GetCardHistory of a card.
GetCardHistory(k) == audit[k]

\* VerifyCard, of a card whose expiry date is past or not.
VerifyCard(k, expired) == card[k] = "active" /\ ~expired

\* The checks of u that have passed and whose level is still to be written.
Unsettled(u) ==
    \/ \E r \in Req : req[r].user = u /\ req[r].pc \in {"refresh", "level"}
    \/ \E r \in Req : ereq[r].pc \in {"mark", "raise"} /\ ereq[r].user = u

\* A verification level is that of a check the user has passed and, once the
\* checks under way have written theirs, of the best one: none is lost to a
\* lesser check that finishes later.
LevelIsBestProof ==
    \A u \in User :
        /\ users[u].level = 1 \/ <<u, users[u].level>> \in proofs
        /\ Unsettled(u) \/ u \in faulty
              \/ \A p \in proofs : p[1] = u => p[2] <= users[u].level

\* A verification that was answered with success has written everything:
\* the citizen's status, the user's level and the user's mark.
EidAnswerHolds ==
    \A a \in answered :
        LET u == a[1] IN
        /\ users[u].level = 4 /\ users[u].verified
        /\ users[u].citizen = a[2] => GetEIDStatus(u)

\* Two revocations of one card leave one entry in its history, and a card
\* with such an entry is valid to nobody.
RevokedOnce ==
    \A k \in Card :
        /\ GetCardHistory(k)["revoked"] <= 1
        /\ GetCardHistory(k)["revoked"] > 0 => ~\E expired \in BOOLEAN : VerifyCard(k, expired)

=============================================================================
