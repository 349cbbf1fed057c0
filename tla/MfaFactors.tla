----------------------------- MODULE MfaFactors -----------------------------
(***************************************************************************)
(* The rows that say which second factors one user has: user_totp,         *)
(* webauthn_credentials, user_devices, the summary in user_mfa_settings    *)
(* and the flag users.mfa_enabled that a login reads.  No handler touches  *)
(* the rows of two users, so one user is enough.                           *)
(*                                                                         *)
(* No handler here uses a transaction: each SQL statement commits on its   *)
(* own and is a step of its own, and another request of the same user (a   *)
(* second tab, the mobile application, a retry) may run in between.        *)
(***************************************************************************)
EXTENDS Naturals, FiniteSets

CONSTANTS
    Req,        \* requests that can be in progress at the same time
    Secret,     \* TOTP secrets, each generated once
    Item,       \* passkey credentials and push devices
    NoSecret,
    Statements  \* may a statement fail, or the process die, mid-request?

ASSUME MfaAssumption ==
    /\ NoSecret \notin Secret
    /\ Statements \in {"reliable", "may fail"}

VARIABLES
    totp,        \* the user_totp row: stored secret and is_enabled
    items,       \* rows of webauthn_credentials and of user_devices
    settings,    \* user_mfa_settings.*_enabled; a missing row reads as all false
    mfaEnabled,  \* users.mfa_enabled
    codes,       \* recovery codes: none yet, some left, or all used
    req,         \* requests in progress
    shown,       \* history: secrets the user was shown
    proven,      \* history: secrets the user has proved to hold
    overtaken,   \* history: secrets stored between a verification's read and its UPDATE
    raced,       \* history: a removal has met another multi-statement request
    failed       \* history: a statement has failed, or a request died, mid-way

history == <<shown, proven, overtaken, raced, failed>>

vars == <<totp, items, settings, mfaEnabled, codes, req, shown, proven,
          overtaken, raced, failed>>

Kind == {"passkey", "push"}
Method == {"totp", "passkey", "push"}

Idle == [pc |-> "idle", kind |-> "passkey", any |-> FALSE]

TypeOK ==
    /\ totp \in [secret : Secret \cup {NoSecret}, enabled : BOOLEAN]
    /\ items \in [Kind -> SUBSET Item]
    /\ settings \in [Method -> BOOLEAN]
    /\ mfaEnabled \in BOOLEAN
    /\ codes \in {"none", "left", "spent"}
    /\ req \in [Req -> [pc : {"idle",
                              "enableTotp", "setTotp", "flagTotp", "codes",
                              "unsetTotp", "anyLeft", "reflag",
                              "setItem", "flagItem",
                              "count", "unsetItem", "recompute"},
                        kind : Kind, any : BOOLEAN]]
    /\ shown \subseteq Secret
    /\ proven \subseteq shown
    /\ overtaken \subseteq shown
    /\ raced \in BOOLEAN
    /\ failed \in BOOLEAN

Init ==
    /\ totp = [secret |-> NoSecret, enabled |-> FALSE]
    /\ items = [k \in Kind |-> {}]
    /\ settings = [m \in Method |-> FALSE]
    /\ mfaEnabled = FALSE
    /\ codes = "none"
    /\ req = [r \in Req |-> Idle]
    /\ shown = {}
    /\ proven = {}
    /\ overtaken = {}
    /\ raced = FALSE
    /\ failed = FALSE

Goto(r, l) == req' = [req EXCEPT ![r].pc = l]
Finish(r) == req' = [req EXCEPT ![r] = Idle]
AnyMethod == \E m \in Method : settings[m]

Removing(r) == req[r].pc \in {"unsetTotp", "anyLeft", "reflag",
                              "count", "unsetItem", "recompute"}

\* A multi-statement request comes in; removal: it takes a factor away.
Enter(r, removal) ==
    raced' = (raced \/ \E q \in Req \ {r} :
                          req[q].pc # "idle" /\ (removal \/ Removing(q)))

-----------------------------------------------------------------------------
\* SetupTOTP: one upsert stores a new secret and switches the row off.
SetupTOTP(r, s) ==
    /\ req[r].pc = "idle"
    /\ s \notin shown
    /\ totp' = [secret |-> s, enabled |-> FALSE]
    /\ shown' = shown \cup {s}
    /\ overtaken' = IF \E q \in Req : req[q].pc = "enableTotp"
                      THEN overtaken \cup {s} ELSE overtaken
    /\ UNCHANGED <<items, settings, mfaEnabled, codes, req, proven, raced, failed>>

\* Mutant: a code of an earlier set-up is taken.
CheckSetupCode_Unchecked(r, s) ==
    /\ req[r].pc = "idle"
    /\ s \in shown
    /\ proven' = proven \cup {s}
    /\ Goto(r, "enableTotp")
    /\ Enter(r, FALSE)
    /\ UNCHANGED <<totp, items, settings, mfaEnabled, codes, shown, overtaken,
                   failed>>

\* VerifyTOTPSetup reads the stored secret; the code the user typed, computed
\* from a secret s she was shown, is accepted when s is the stored one.
CheckSetupCode(r, s) ==
    /\ req[r].pc = "idle"
    /\ s \in shown
    /\ totp.secret = s
    /\ proven' = proven \cup {s}
    /\ Goto(r, "enableTotp")
    /\ Enter(r, FALSE)
    /\ UNCHANGED <<totp, items, settings, mfaEnabled, codes, shown, overtaken,
                   failed>>

\* UPDATE user_totp SET is_enabled = true, whatever secret the row now has.
EnableTotp(r) ==
    /\ req[r].pc = "enableTotp"
    /\ totp' = [totp EXCEPT !.enabled = TRUE]
    /\ Goto(r, "setTotp")
    /\ UNCHANGED <<items, settings, mfaEnabled, codes, history>>

SetTotpSetting(r) ==
    /\ req[r].pc = "setTotp"
    /\ settings' = [settings EXCEPT !["totp"] = TRUE]
    /\ Goto(r, "flagTotp")
    /\ UNCHANGED <<totp, items, mfaEnabled, codes, history>>

FlagTotp(r) ==
    /\ req[r].pc = "flagTotp"
    /\ mfaEnabled' = TRUE
    /\ Goto(r, "codes")
    /\ UNCHANGED <<totp, items, settings, codes, history>>

\* Mutant: the codes are shown and never stored.
GenerateCodes_NotStored(r) ==
    /\ req[r].pc = "codes"
    /\ Finish(r)
    /\ UNCHANGED <<totp, items, settings, mfaEnabled, codes, history>>

\* The handler goes on to generate recovery codes (one transaction).
GenerateCodes(r) ==
    /\ req[r].pc = "codes"
    /\ codes' = "left"
    /\ Finish(r)
    /\ UNCHANGED <<totp, items, settings, mfaEnabled, history>>

\* Of the uses of the codes only the one of the last code shows here: its row
\* is marked as used by one UPDATE (RecoveryGate has the whole validation).
UseLastCode(r) ==
    /\ req[r].pc = "idle"
    /\ codes = "left"
    /\ codes' = "spent"
    /\ UNCHANGED <<totp, items, settings, mfaEnabled, req, history>>

\* The user asks for new codes: nothing is looked at, one transaction.
RegenerateCodes(r) ==
    /\ req[r].pc = "idle"
    /\ codes' = "left"
    /\ UNCHANGED <<totp, items, settings, mfaEnabled, req, history>>

-----------------------------------------------------------------------------
\* DisableTOTP: four statements; the third reads what the fourth writes.
DisableTotp(r) ==
    /\ req[r].pc = "idle"
    /\ totp' = [totp EXCEPT !.enabled = FALSE]
    /\ Goto(r, "unsetTotp")
    /\ Enter(r, TRUE)
    /\ UNCHANGED <<items, settings, mfaEnabled, codes, shown, proven, overtaken,
                   failed>>

UnsetTotpSetting(r) ==
    /\ req[r].pc = "unsetTotp"
    /\ settings' = [settings EXCEPT !["totp"] = FALSE]
    /\ Goto(r, "anyLeft")
    /\ UNCHANGED <<totp, items, mfaEnabled, codes, history>>

\* Mutant: the other methods are not looked at.
ReadAnyEnabled_TotpOnly(r) ==
    /\ req[r].pc = "anyLeft"
    /\ req' = [req EXCEPT ![r].pc = "reflag", ![r].any = settings["totp"]]
    /\ UNCHANGED <<totp, items, settings, mfaEnabled, codes, history>>

ReadAnyEnabled(r) ==
    /\ req[r].pc = "anyLeft"
    /\ req' = [req EXCEPT ![r].pc = "reflag", ![r].any = AnyMethod]
    /\ UNCHANGED <<totp, items, settings, mfaEnabled, codes, history>>

WriteAnyEnabled(r) ==
    /\ req[r].pc = "reflag"
    /\ mfaEnabled' = req[r].any
    /\ Finish(r)
    /\ UNCHANGED <<totp, items, settings, codes, history>>

-----------------------------------------------------------------------------
\* A passkey or a device is enrolled by three statements.
Enrol(r, k, x) ==
    /\ req[r].pc = "idle"
    /\ x \notin items[k]
    /\ items' = [items EXCEPT ![k] = @ \cup {x}]
    /\ req' = [req EXCEPT ![r] = [Idle EXCEPT !.pc = "setItem", !.kind = k]]
    /\ Enter(r, FALSE)
    /\ UNCHANGED <<totp, settings, mfaEnabled, codes, shown, proven, overtaken,
                   failed>>

FinishRegistration(r, x) == Enrol(r, "passkey", x)
RegisterDevice(r, x) == Enrol(r, "push", x)

SetItemSetting(r) ==
    /\ req[r].pc = "setItem"
    /\ settings' = [settings EXCEPT ![req[r].kind] = TRUE]
    /\ Goto(r, "flagItem")
    /\ UNCHANGED <<totp, items, mfaEnabled, codes, history>>

FlagItem(r) ==
    /\ req[r].pc = "flagItem"
    /\ mfaEnabled' = TRUE
    /\ Finish(r)
    /\ UNCHANGED <<totp, items, settings, codes, history>>

\* Removing one: delete the row, count what is left and, when nothing is,
\* clear the setting and recompute the flag from the settings in one UPDATE.
Withdraw(r, k, x) ==
    /\ req[r].pc = "idle"
    /\ x \in items[k]
    /\ items' = [items EXCEPT ![k] = @ \ {x}]
    /\ req' = [req EXCEPT ![r] = [Idle EXCEPT !.pc = "count", !.kind = k]]
    /\ Enter(r, TRUE)
    /\ UNCHANGED <<totp, settings, mfaEnabled, codes, shown, proven, overtaken,
                   failed>>

DeletePasskey(r, x) == Withdraw(r, "passkey", x)
RemoveDevice(r, x) == Withdraw(r, "push", x)

\* Mutant: off by one.
NoneLeft_OffByOne(k) == Cardinality(items[k]) <= 1

NoneLeft(k) == items[k] = {}

CountLeft(r) ==
    /\ req[r].pc = "count"
    /\ IF NoneLeft(req[r].kind) THEN Goto(r, "unsetItem") ELSE Finish(r)
    /\ UNCHANGED <<totp, items, settings, mfaEnabled, codes, history>>

UnsetItemSetting(r) ==
    /\ req[r].pc = "unsetItem"
    /\ settings' = [settings EXCEPT ![req[r].kind] = FALSE]
    /\ Goto(r, "recompute")
    /\ UNCHANGED <<totp, items, mfaEnabled, codes, history>>

RecomputeFlag(r) ==
    /\ req[r].pc = "recompute"
    /\ mfaEnabled' = AnyMethod
    /\ Finish(r)
    /\ UNCHANGED <<totp, items, settings, codes, history>>

-----------------------------------------------------------------------------
\* A statement whose error the handler returns, or the death of the process.
Abort(r) ==
    /\ Statements = "may fail"
    /\ req[r].pc # "idle"
    /\ Finish(r)
    /\ failed' = TRUE
    /\ UNCHANGED <<totp, items, settings, mfaEnabled, codes,
                   shown, proven, overtaken, raced>>

\* A statement whose error the handler ignores.  A count that cannot be read
\* stays 0, which is taken to mean that nothing is left.
Ignore(r) ==
    /\ Statements = "may fail"
    /\ \/ req[r].pc = "setItem" /\ Goto(r, "flagItem")
       \/ req[r].pc = "count" /\ Goto(r, "unsetItem")
       \/ req[r].pc = "unsetItem" /\ Goto(r, "recompute")
       \/ req[r].pc \in {"codes", "flagItem", "recompute"} /\ Finish(r)
    /\ failed' = TRUE
    /\ UNCHANGED <<totp, items, settings, mfaEnabled, codes,
                   shown, proven, overtaken, raced>>

Statement(r) ==
    \/ EnableTotp(r) \/ SetTotpSetting(r) \/ FlagTotp(r) \/ GenerateCodes(r)
    \/ UnsetTotpSetting(r) \/ ReadAnyEnabled(r) \/ WriteAnyEnabled(r)
    \/ SetItemSetting(r) \/ FlagItem(r)
    \/ CountLeft(r) \/ UnsetItemSetting(r) \/ RecomputeFlag(r)
    \/ Abort(r) \/ Ignore(r)

Next ==
    \/ \E r \in Req, s \in Secret : SetupTOTP(r, s) \/ CheckSetupCode(r, s)
    \/ \E r \in Req :
          DisableTotp(r) \/ UseLastCode(r) \/ RegenerateCodes(r) \/ Statement(r)
    \/ \E r \in Req, x \in Item :
          \/ FinishRegistration(r, x) \/ RegisterDevice(r, x)
          \/ DeletePasskey(r, x) \/ RemoveDevice(r, x)

Spec == Init /\ [][Next]_vars

-----------------------------------------------------------------------------
Quiet == \A r \in Req : req[r].pc = "idle"

\* Whenever no request is at work, the flag a login reads says whether some
\* method is on (DisableTOTP's last two statements, the two recomputations and
\* the places that set it), as long as no statement has failed half way and no
\* removal has overlapped another of the user's requests.  Verifications and
\* enrolments may overlap each other as they like.
FlagFollowsSettings ==
    Quiet /\ ~failed /\ ~raced => (mfaEnabled <=> AnyMethod)

\* At such moments the summary agrees with the tables it summarises.  TOTP is
\* the exception: starting its setup again switches the row off and leaves
\* the summary.
SettingsFollowTables ==
    Quiet /\ ~failed /\ ~raced
    => /\ settings["passkey"] <=> items["passkey"] # {}
       /\ settings["push"] <=> items["push"] # {}
       /\ totp.enabled => settings["totp"]

\* TOTP is on only with a secret the user has shown a valid code for: what
\* VerifyTOTPSetup's comment says ("verifies the TOTP code ... and enables
\* TOTP").  It fails when a second set-up overtakes the verification.
EnabledSecretProven == totp.enabled => totp.secret \in proven

\* And that is the only way it fails: no other sequence or overlap of set-ups,
\* verifications, removals and failures in between switches on an
\* authenticator the user has not shown a code of.
ProvenUnlessOvertaken == totp.enabled => totp.secret \in proven \cup overtaken

\* All codes are used, and the TOTP set-up has been begun anew.
BeganAnewWithoutCodes ==
    /\ codes = "spent"
    /\ totp.secret # NoSecret /\ totp.secret \notin proven

\* At such moments a user of whom a login demands a second factor has one she
\* can use or recovery codes left.  SetupTOTP switches off the authenticator
\* she has without looking at anything else, so once the codes are used up
\* beginning the set-up anew does lock her out; nothing else does.
WayIn ==
    Quiet /\ ~failed /\ ~raced /\ mfaEnabled
    => \/ totp.enabled
       \/ \E k \in Kind : items[k] # {}
       \/ codes = "left"
       \/ BeganAnewWithoutCodes

=============================================================================
