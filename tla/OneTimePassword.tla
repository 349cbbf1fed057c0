--------------------------- MODULE OneTimePassword ---------------------------
(***************************************************************************)
(* The six-digit codes mailed for a login and texted for the phone check:  *)
(* one Redis key that holds the code and how often it was guessed wrong,   *)
(* and one that spaces the messages.  Both kinds follow the same steps and *)
(* differ in when the key of an accepted code goes: before the login       *)
(* proceeds (e-mail), after the verification level is raised (phone).      *)
(*                                                                         *)
(* One address or one user is modelled: keys of two never meet.  Every     *)
(* call to Redis is a step of its own and may fail: no handler looks at    *)
(* the error of a SET, a DEL or a TTL, and an error of the cooldown's GET  *)
(* is taken for an absent key.  A request may die after any step.          *)
(***************************************************************************)
EXTENDS Naturals

CONSTANTS
    Sender,       \* Send requests that can be in progress at the same time
    Verifier,     \* Verify requests, likewise
    Otp,          \* codes drawn, in this bounded life each a different one
    NoOtp,
    MaxAttempts,  \* wrong guesses a code survives, and one more (5)
    OtpTTL,       \* lifetime of a code (10 min by e-mail, 5 min by phone)
    CooldownTTL,  \* spacing of the messages (60 s)
    MaxLost       \* bound: writes lost, by code

ASSUME OtpAssumption ==
    /\ Sender \cap Verifier = {}
    /\ NoOtp \notin Otp
    /\ {MaxAttempts, OtpTTL, CooldownTTL} \subseteq Nat \ {0}
    /\ MaxLost \in Nat

VARIABLES
    flow,      \* which kind of code this is, "email" or "phone"; never changes
    stored,    \* email_otp:<email> or phone_otp:<user>
    cooldown,  \* remaining TTL of the cooldown key
    send,      \* Send requests in progress: the step and the code drawn
    verify,    \* Verify requests in progress
    drawn,     \* history: codes drawn
    apart,     \* history: time since the last message of each sender, together
               \* with the time it took after its cooldown key, up to CooldownTTL
    lax,       \* history: a GET or SET of the cooldown key has failed
    contested, \* history: codes two verifications were at work on at once
    lost,      \* history: counts and deletions that were never written, by code
    wrong,     \* history: wrong guesses answered, by code
    accepted   \* history: logins, or raises of the level, by code

spacing == <<cooldown, send, drawn, apart, lax>>
guessing == <<verify, contested, lost, wrong, accepted>>
otpVars == <<flow, stored, spacing, guessing>>

Entry == [otp : Otp \cup {NoOtp}, attempts : 0..(MaxAttempts - 1), ttl : 0..OtpTTL]
NoEntry == [otp |-> NoOtp, attempts |-> 0, ttl |-> 0]

Rest == [pc |-> "idle", otp |-> NoOtp, age |-> 0]
NoGuess == [pc |-> "idle", otp |-> NoOtp, attempts |-> 0, ttl |-> 0]

OtpTypeOK ==
    /\ flow \in {"email", "phone"}
    /\ stored \in Entry
    /\ cooldown \in 0..CooldownTTL
    /\ send \in [Sender -> [pc : {"idle", "store", "cool", "deliver"},
                            otp : Otp \cup {NoOtp}, age : 0..CooldownTTL]]
    /\ verify \in [Verifier -> [pc : {"idle", "wrong", "drop", "restore", "right", "answer"},
                                otp : Otp \cup {NoOtp},
                                attempts : 0..MaxAttempts, ttl : 0..OtpTTL]]
    /\ drawn \subseteq Otp
    /\ apart \in [Sender -> 0..CooldownTTL]
    /\ lax \in BOOLEAN
    /\ contested \subseteq Otp
    /\ lost \in [Otp -> 0..MaxLost]
    /\ wrong \in [Otp -> Nat]
    /\ accepted \in [Otp -> Nat]

OtpInit ==
    /\ flow \in {"email", "phone"}
    /\ stored = NoEntry
    /\ cooldown = 0
    /\ send = [s \in Sender |-> Rest]
    /\ verify = [v \in Verifier |-> NoGuess]
    /\ drawn = {}
    /\ apart = [s \in Sender |-> CooldownTTL]
    /\ lax = FALSE
    /\ contested = {}
    /\ lost = [o \in Otp |-> 0]
    /\ wrong = [o \in Otp |-> 0]
    /\ accepted = [o \in Otp |-> 0]

-----------------------------------------------------------------------------
Draw(s) ==
    \E o \in Otp \ drawn :
       /\ send' = [send EXCEPT ![s] = [Rest EXCEPT !.pc = "store", !.otp = o]]
       /\ drawn' = drawn \cup {o}

\* Send: the cooldown key is looked up and, when it is absent, a code drawn.
CheckCooldown(s) ==
    /\ send[s].pc = "idle"
    /\ cooldown = 0
    /\ Draw(s)
    /\ UNCHANGED <<flow, stored, cooldown, apart, lax, guessing>>

\* The GET fails, which looks the same.
CooldownUnread(s) ==
    /\ send[s].pc = "idle"
    /\ Draw(s)
    /\ lax' = TRUE
    /\ UNCHANGED <<flow, stored, cooldown, apart, guessing>>

\* SET; the code is mailed even when this fails.
StoreOtp(s) ==
    /\ send[s].pc = "store"
    /\ stored' \in {[otp |-> send[s].otp, attempts |-> 0, ttl |-> OtpTTL], stored}
    /\ send' = [send EXCEPT ![s].pc = "cool"]
    /\ UNCHANGED <<flow, cooldown, drawn, apart, lax, guessing>>

\* Mutant: the key is given one unit less than the spacing.
SetCooldown_Short(s) ==
    /\ send[s].pc = "cool"
    /\ send' = [send EXCEPT ![s].pc = "deliver"]
    /\ cooldown' = CooldownTTL - 1
    /\ UNCHANGED <<flow, stored, drawn, apart, lax, guessing>>

SetCooldown(s) ==
    /\ send[s].pc = "cool"
    /\ send' = [send EXCEPT ![s].pc = "deliver"]
    /\ \/ cooldown' = CooldownTTL /\ UNCHANGED lax
       \/ lax' = TRUE /\ UNCHANGED cooldown
    /\ UNCHANGED <<flow, stored, drawn, apart, guessing>>

\* The message goes out, some time later; age is how much.  (When it cannot be
\* sent the request ends as in SenderDies.)
Deliver(s) ==
    /\ send[s].pc = "deliver"
    /\ apart' = [apart EXCEPT ![s] = send[s].age]
    /\ send' = [send EXCEPT ![s] = Rest]
    /\ UNCHANGED <<flow, stored, cooldown, drawn, lax, guessing>>

-----------------------------------------------------------------------------
\* Verify: the key is read; everything that follows uses what was read.
ReadOtp(v) ==
    /\ verify[v].pc = "idle"
    /\ stored.ttl > 0
    /\ \E verdict \in {"wrong", "right"} :
          verify' = [verify EXCEPT ![v] =
                        [NoGuess EXCEPT !.pc = verdict, !.otp = stored.otp,
                                        !.attempts = stored.attempts]]
    /\ contested' = IF \E w \in Verifier : verify[w].otp = stored.otp
                    THEN contested \cup {stored.otp} ELSE contested
    /\ UNCHANGED <<flow, stored, spacing, lost, wrong, accepted>>

EndGuess(v) == verify' = [verify EXCEPT ![v] = NoGuess]

AnswerWrong(v) == wrong' = [wrong EXCEPT ![verify[v].otp] = @ + 1]

\* What the request was to write about its code never is.
Lose(v) ==
    /\ lost[verify[v].otp] < MaxLost
    /\ lost' = [lost EXCEPT ![verify[v].otp] = @ + 1]

LastGuess(v) == verify[v].attempts + 1 >= MaxAttempts

\* A wrong guess is the last one, or the TTL of the key, whichever code it
\* holds by now, is read to be preserved.
CountGuess(v) ==
    /\ verify[v].pc = "wrong"
    /\ verify' = [verify EXCEPT ![v].pc = IF LastGuess(v) THEN "drop" ELSE "restore",
                                ![v].attempts = @ + 1,
                                ![v].ttl = stored.ttl]
    /\ UNCHANGED <<flow, stored, spacing, contested, lost, wrong, accepted>>

\* A TTL that cannot be read is taken for the 0 of an absent key.
TtlUnread(v) ==
    /\ verify[v].pc = "wrong"
    /\ ~LastGuess(v)
    /\ verify' = [verify EXCEPT ![v].pc = "restore", ![v].attempts = @ + 1,
                                ![v].ttl = 0]
    /\ Lose(v)
    /\ UNCHANGED <<flow, stored, spacing, contested, wrong, accepted>>

DropOtp(v) ==
    /\ verify[v].pc = "drop"
    /\ \/ stored' = NoEntry /\ UNCHANGED lost
       \/ Lose(v) /\ UNCHANGED stored
    /\ AnswerWrong(v)
    /\ EndGuess(v)
    /\ UNCHANGED <<flow, spacing, contested, accepted>>

\* Mutant: the code is written back with the count that was read.
Restored_NotCounted(v) ==
    [otp |-> verify[v].otp, attempts |-> verify[v].attempts - 1, ttl |-> verify[v].ttl]

Restored(v) ==
    [otp |-> verify[v].otp, attempts |-> verify[v].attempts, ttl |-> verify[v].ttl]

\* SET of the code and the count, unless the key was gone.
RestoreOtp(v) ==
    /\ verify[v].pc = "restore"
    /\ \/ verify[v].ttl = 0 /\ UNCHANGED <<stored, lost>>
       \/ verify[v].ttl > 0 /\ stored' = Restored(v) /\ UNCHANGED lost
       \/ verify[v].ttl > 0 /\ Lose(v) /\ UNCHANGED stored
    /\ AnswerWrong(v)
    /\ EndGuess(v)
    /\ UNCHANGED <<flow, spacing, contested, accepted>>

-----------------------------------------------------------------------------
Accept(v) == accepted' = [accepted EXCEPT ![verify[v].otp] = @ + 1]
Proceed(v) == verify' = [verify EXCEPT ![v].pc = "answer"]

\* Mutant: the key is left to its TTL.
DelOtp_KeyLeft(v) == UNCHANGED <<stored, lost>>

DelOtp(v) ==
    \/ stored' = NoEntry /\ UNCHANGED lost
    \/ Lose(v) /\ UNCHANGED stored

\* A right guess, by e-mail: DEL, then the login, which may yet fail.
DeleteThenLogin(v) ==
    /\ flow = "email"
    /\ \/ verify[v].pc = "right" /\ DelOtp(v) /\ Proceed(v) /\ UNCHANGED accepted
       \/ verify[v].pc = "answer" /\ Accept(v) /\ EndGuess(v) /\ UNCHANGED <<stored, lost>>
    /\ UNCHANGED <<flow, spacing, contested, wrong>>

\* A right guess, by phone: the level is raised, then DEL.  When the level
\* cannot be raised the request ends there, as in VerifierDies.
RaiseThenDelete(v) ==
    /\ flow = "phone"
    /\ \/ verify[v].pc = "right" /\ Accept(v) /\ Proceed(v) /\ UNCHANGED <<stored, lost>>
       \/ verify[v].pc = "answer" /\ DelOtp(v) /\ EndGuess(v) /\ UNCHANGED accepted
    /\ UNCHANGED <<flow, spacing, contested, wrong>>

-----------------------------------------------------------------------------
\* A request ends early: the process dies, or a step after the comparison
\* returns an error.  One that has raised the level leaves its code behind.
SenderDies(s) ==
    /\ send[s].pc # "idle"
    /\ send' = [send EXCEPT ![s] = Rest]
    /\ UNCHANGED <<flow, stored, cooldown, drawn, apart, lax, guessing>>

VerifierDies(v) ==
    /\ verify[v].pc # "idle"
    /\ EndGuess(v)
    /\ IF flow = "phone" /\ verify[v].pc = "answer" THEN Lose(v) ELSE UNCHANGED lost
    /\ UNCHANGED <<flow, stored, spacing, contested, wrong, accepted>>

Left(n) == IF n = 0 THEN 0 ELSE n - 1
Later(n) == IF n < CooldownTTL THEN n + 1 ELSE n

\* One unit of time passes.
Tick ==
    /\ stored' = IF stored.ttl <= 1 THEN NoEntry ELSE [stored EXCEPT !.ttl = @ - 1]
    /\ cooldown' = Left(cooldown)
    /\ send' = [s \in Sender |->
                  IF send[s].pc = "deliver"
                  THEN [send[s] EXCEPT !.age = Later(@)] ELSE send[s]]
    /\ apart' = [s \in Sender |-> Later(apart[s])]
    /\ UNCHANGED <<flow, drawn, lax, guessing>>

OtpNext ==
    \/ \E s \in Sender :
          \/ CheckCooldown(s) \/ CooldownUnread(s) \/ StoreOtp(s)
          \/ SetCooldown(s) \/ Deliver(s) \/ SenderDies(s)
    \/ \E v \in Verifier :
          \/ ReadOtp(v) \/ CountGuess(v) \/ TtlUnread(v)
          \/ DropOtp(v) \/ RestoreOtp(v)
          \/ DeleteThenLogin(v) \/ RaiseThenDelete(v) \/ VerifierDies(v)
    \/ Tick

OtpSpec == OtpInit /\ [][OtpNext]_otpVars

-----------------------------------------------------------------------------
\* A code that no two verifications are at work on at once is good for one
\* login, or one raise of the level, and for one more each time its deletion
\* was lost: the DEL failed, or the request died between raising the level and
\* the DEL.  Nothing else that is sent, guessed, deleted and written back
\* meanwhile makes it good again.
OtpUsedOnce == \A o \in Otp \ contested : accepted[o] <= 1 + lost[o]

\* Such a code is answered at most MaxAttempts wrong guesses, and one more each
\* time its count was not written: the count travels with the code when it is
\* written back, even over a newer one.
GuessesBounded == \A o \in Otp \ contested : wrong[o] <= MaxAttempts + lost[o]

\* Between the messages of two Sends, the second begun after the first had
\* ended, lies the cooldown less what the first took to go out once its key
\* was set (sender s is such a sequence of Sends; Sends of two senders overlap
\* as they like).  It fails only when a GET or SET of the key does.
CooldownHolds ==
    [][\A s \in Sender : Deliver(s) /\ ~lax => apart[s] >= CooldownTTL]_otpVars

=============================================================================
