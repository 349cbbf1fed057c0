---------------------------- MODULE Factors_proofs ----------------------------
(***************************************************************************)
(* Theorems about what a user proves herself with: the second factors of   *)
(* MfaFactors and the ceremonies of Passkeys, for any numbers of requests, *)
(* secrets, credentials, tabs and challenges, whatever statements fail;    *)
(* and the one-time passwords, for any numbers of requests and codes.      *)
(*                                                                         *)
(* OneTimePassword shares no variable with the rest.                       *)
(***************************************************************************)
EXTENDS Passkeys, OneTimePassword, TLAPS
-----------------------------------------------------------------------------
(* The factors.                                                            *)

PC == {"idle", "enableTotp", "setTotp", "flagTotp", "codes", "unsetTotp",
       "anyLeft", "reflag", "setItem", "flagItem", "count", "unsetItem", "recompute"}

Request == [pc : PC, kind : Kind, any : BOOLEAN]

\* A request keeps its type when it moves on.
LEMMA RequestMoves ==
    ASSUME NEW q \in Request, NEW p \in PC
    PROVE  /\ [q EXCEPT !.pc = p] \in Request
           /\ \A b \in BOOLEAN : [q EXCEPT !.pc = p, !.any = b] \in Request
  <1>1. [q EXCEPT !.pc = p] \in Request
    BY DEF Request
  <1>2. ASSUME NEW b \in BOOLEAN
        PROVE  [q EXCEPT !.pc = p, !.any = b] \in Request
    BY DEF Request
  <1>3. QED
    BY <1>1, <1>2

LEMMA IdleType ==
    /\ Idle \in Request
    /\ \A p \in PC, k \in Kind : [Idle EXCEPT !.pc = p, !.kind = k] \in Request
  BY DEF Idle, Request, PC, Kind

LEMMA TypeIsRequest == TypeOK => req \in [Req -> Request]
  BY DEF TypeOK, Request, PC

\* The requests keep their type in every step.
LEMMA RequestTypes ==
    ASSUME TypeOK, [Next]_vars
    PROVE  req' \in [Req -> Request]
  <1>1. req \in [Req -> Request]
    BY TypeIsRequest
  <1>2. ASSUME NEW r \in Req, NEW p \in PC, Goto(r, p)
        PROVE  req' \in [Req -> Request]
    BY <1>1, <1>2, RequestMoves DEF Goto
  <1>3. ASSUME NEW r \in Req, Finish(r)
        PROVE  req' \in [Req -> Request]
    BY <1>1, <1>3, IdleType DEF Finish
  <1>4. ASSUME NEW r \in Req, NEW x \in Item, NEW k \in Kind, Enrol(r, k, x) \/ Withdraw(r, k, x)
        PROVE  req' \in [Req -> Request]
    <2>1. [Idle EXCEPT !.pc = "setItem", !.kind = k] \in Request
      BY IdleType DEF PC
    <2>2. [Idle EXCEPT !.pc = "count", !.kind = k] \in Request
      BY IdleType DEF PC
    <2>3. QED
      BY <1>1, <1>4, <2>1, <2>2 DEF Enrol, Withdraw
  <1>5. ASSUME NEW r \in Req, ReadAnyEnabled(r)
        PROVE  req' \in [Req -> Request]
    <2>1. AnyMethod \in BOOLEAN /\ "reflag" \in PC
      BY DEF AnyMethod, PC
    <2>2. [req[r] EXCEPT !.pc = "reflag", !.any = AnyMethod] \in Request
      BY <1>1, <2>1, RequestMoves
    <2>3. QED
      BY <1>1, <1>5, <2>2 DEF ReadAnyEnabled
  <1>6. ASSUME NEW r \in Req, Statement(r)
        PROVE  req' \in [Req -> Request]
    <2>1. {"idle", "setTotp", "flagTotp", "codes", "anyLeft", "flagItem", "unsetItem",
           "recompute"} \subseteq PC
      BY DEF PC
    <2>2. \/ \E p \in PC : Goto(r, p)
          \/ Finish(r)
          \/ ReadAnyEnabled(r)
      BY <1>6, <2>1
      DEF Statement, EnableTotp, SetTotpSetting, FlagTotp, GenerateCodes,
          UnsetTotpSetting, WriteAnyEnabled, SetItemSetting, FlagItem, CountLeft,
          UnsetItemSetting, RecomputeFlag, Abort, Ignore
    <2>3. QED
      BY <1>2, <1>3, <1>5, <2>2
  <1>7. ASSUME NEW r \in Req, NEW s \in Secret, CheckSetupCode(r, s)
        PROVE  req' \in [Req -> Request]
    <2>1. "enableTotp" \in PC
      BY DEF PC
    <2>2. QED
      BY <1>2, <1>7, <2>1 DEF CheckSetupCode
  <1>8. ASSUME NEW r \in Req, DisableTotp(r)
        PROVE  req' \in [Req -> Request]
    <2>1. "unsetTotp" \in PC
      BY DEF PC
    <2>2. QED
      BY <1>2, <1>8, <2>1 DEF DisableTotp
  <1>9. ASSUME NEW r \in Req, NEW x \in Item,
               \/ FinishRegistration(r, x) \/ RegisterDevice(r, x)
               \/ DeletePasskey(r, x) \/ RemoveDevice(r, x)
        PROVE  req' \in [Req -> Request]
    BY <1>4, <1>9 DEF FinishRegistration, RegisterDevice, DeletePasskey, RemoveDevice, Kind
  <1>10. ASSUME UNCHANGED req
         PROVE  req' \in [Req -> Request]
    BY <1>1, <1>10
  <1>11. QED
    BY <1>6, <1>7, <1>8, <1>9, <1>10
    DEF Next, vars, SetupTOTP, UseLastCode, RegenerateCodes

\* So do the rows and the history.
LEMMA FactorTypes ==
    ASSUME TypeOK, [Next]_vars
    PROVE  TypeOK'
  <1> USE DEF TypeOK
  <1>1. req' \in [Req -> Request]
    BY RequestTypes
  <1>2. ASSUME NEW r \in Req, Statement(r)
        PROVE  /\ totp' \in [secret : Secret \cup {NoSecret}, enabled : BOOLEAN]
               /\ items' = items
               /\ settings' \in [Method -> BOOLEAN]
               /\ mfaEnabled' \in BOOLEAN /\ codes' \in {"none", "left", "spent"}
               /\ failed' \in BOOLEAN
               /\ UNCHANGED <<shown, proven, overtaken, raced>>
    <2>1. req[r].kind \in Method /\ req[r].any \in BOOLEAN /\ "totp" \in Method
      BY DEF Kind, Method
    <2>2. AnyMethod \in BOOLEAN
      BY DEF AnyMethod
    <2>3. QED
      BY <1>2, <2>1, <2>2
      DEF Statement, EnableTotp, SetTotpSetting, FlagTotp, GenerateCodes,
          UnsetTotpSetting, ReadAnyEnabled, WriteAnyEnabled, SetItemSetting, FlagItem,
          CountLeft, UnsetItemSetting, RecomputeFlag, Abort, Ignore, history
  <1>3. ASSUME NEW r \in Req, NEW s \in Secret, SetupTOTP(r, s) \/ CheckSetupCode(r, s)
        PROVE  TypeOK'
    <2>1. CASE SetupTOTP(r, s)
      <3>1. totp' \in [secret : Secret \cup {NoSecret}, enabled : BOOLEAN]
        BY <2>1 DEF SetupTOTP
      <3>2. QED
        BY <2>1, <3>1 DEF SetupTOTP
    <2>2. CASE CheckSetupCode(r, s)
      BY <1>1, <2>2 DEF CheckSetupCode, Enter, Request, PC
    <2>3. QED
      BY <1>3, <2>1, <2>2
  <1>4. ASSUME NEW r \in Req, DisableTotp(r)
        PROVE  TypeOK'
    BY <1>1, <1>4 DEF DisableTotp, Enter, Request, PC
  <1>5. ASSUME NEW r \in Req, NEW k \in Kind, NEW x \in Item, Enrol(r, k, x) \/ Withdraw(r, k, x)
        PROVE  TypeOK'
    <2>1. items' \in [Kind -> SUBSET Item]
      <3>1. items' = [items EXCEPT ![k] = @ \cup {x}] \/ items' = [items EXCEPT ![k] = @ \ {x}]
        BY <1>5 DEF Enrol, Withdraw
      <3>2. items \in [Kind -> SUBSET Item]
        OBVIOUS
      <3>3. QED
        BY <3>1, <3>2
    <2>2. raced' \in BOOLEAN
      BY <1>5 DEF Enrol, Withdraw, Enter
    <2>3. UNCHANGED <<totp, settings, mfaEnabled, codes, shown, proven, overtaken, failed>>
      BY <1>5 DEF Enrol, Withdraw
    <2>4. QED
      BY <1>1, <2>1, <2>2, <2>3 DEF Request, PC
  <1>6. CASE UNCHANGED vars
    BY <1>6 DEF vars
  <1>7. ASSUME NEW r \in Req, Statement(r)
        PROVE  TypeOK'
    BY <1>1, <1>2, <1>7 DEF Request, PC
  <1>8. ASSUME NEW r \in Req, UseLastCode(r) \/ RegenerateCodes(r)
        PROVE  TypeOK'
    BY <1>8 DEF UseLastCode, RegenerateCodes, history
  <1>9. QED
    BY <1>3, <1>4, <1>5, <1>6, <1>7, <1>8
    DEF Next, FinishRegistration, RegisterDevice, DeletePasskey, RemoveDevice, Kind
-----------------------------------------------------------------------------
(* The secrets.                                                            *)

\* Some request is at one of these points.
At(P) == \E r \in Req : req[r].pc \in P

\* No request that is going to enable the stored secret loses it unnoticed.
SecretsProven ==
    /\ ProvenUnlessOvertaken
    /\ At({"enableTotp"}) => totp.secret \in proven \cup overtaken

\* Switching an authenticator on and off.
LEMMA SecretsProvenNext ==
    ASSUME TypeOK, SecretsProven, [Next]_vars
    PROVE  SecretsProven'
  <1> USE DEF TypeOK, SecretsProven, ProvenUnlessOvertaken, At
  <1>1. ASSUME NEW r \in Req, NEW s \in Secret, SetupTOTP(r, s)
        PROVE  SecretsProven'
    BY <1>1 DEF SetupTOTP
  <1>2. ASSUME NEW r \in Req, NEW s \in Secret, CheckSetupCode(r, s)
        PROVE  SecretsProven'
    BY <1>2 DEF CheckSetupCode, Goto
  <1>3. ASSUME NEW r \in Req, EnableTotp(r)
        PROVE  SecretsProven'
    BY <1>3 DEF EnableTotp, Goto, history
  <1>4. ASSUME NEW r \in Req, DisableTotp(r)
        PROVE  SecretsProven'
    BY <1>4 DEF DisableTotp, Goto
  <1>5. ASSUME UNCHANGED <<totp, proven, overtaken>>,
               \A r \in Req : req'[r].pc = "enableTotp" => req[r].pc = "enableTotp"
        PROVE  SecretsProven'
    BY <1>5
  <1>6. ASSUME NEW r \in Req, Statement(r), ~EnableTotp(r)
        PROVE  /\ UNCHANGED <<totp, proven, overtaken>>
               /\ \A q \in Req : req'[q].pc = "enableTotp" => req[q].pc = "enableTotp"
    <2>1. UNCHANGED <<totp, proven, overtaken>>
      BY <1>6
      DEF Statement, SetTotpSetting, FlagTotp, GenerateCodes, UnsetTotpSetting,
          ReadAnyEnabled, WriteAnyEnabled, SetItemSetting, FlagItem, CountLeft,
          UnsetItemSetting, RecomputeFlag, Abort, Ignore, history
    <2>2. \/ \E p \in PC \ {"enableTotp"} : Goto(r, p)
          \/ Finish(r)
          \/ ReadAnyEnabled(r)
      BY <1>6
      DEF Statement, SetTotpSetting, FlagTotp, GenerateCodes, UnsetTotpSetting,
          WriteAnyEnabled, SetItemSetting, FlagItem, CountLeft, UnsetItemSetting,
          RecomputeFlag, Abort, Ignore, PC
    <2>3. QED
      BY <2>1, <2>2 DEF Goto, Finish, Idle, ReadAnyEnabled
  <1>7. ASSUME NEW r \in Req, NEW k \in Kind, NEW x \in Item, Enrol(r, k, x) \/ Withdraw(r, k, x)
        PROVE  /\ UNCHANGED <<totp, proven, overtaken>>
               /\ \A q \in Req : req'[q].pc = "enableTotp" => req[q].pc = "enableTotp"
    <2>1. CASE Enrol(r, k, x)
      BY <2>1 DEF Enrol, Idle
    <2>2. CASE Withdraw(r, k, x)
      BY <2>2 DEF Withdraw, Idle
    <2>3. QED
      BY <1>7, <2>1, <2>2
  <1>8. ASSUME NEW r \in Req, UseLastCode(r) \/ RegenerateCodes(r)
        PROVE  SecretsProven'
    BY <1>5, <1>8 DEF UseLastCode, RegenerateCodes, history
  <1>9. CASE UNCHANGED vars
    BY <1>5, <1>9 DEF vars
  <1>10. QED
    BY <1>1, <1>2, <1>3, <1>4, <1>5, <1>6, <1>7, <1>8, <1>9
    DEF Next, FinishRegistration, RegisterDevice, DeletePasskey, RemoveDevice, Kind

-----------------------------------------------------------------------------
(* The rows while requests are at work.                                    *)

\* Some request is at one of these points on behalf of this kind.
AtFor(P, k) == \E r \in Req : req[r].pc \in P /\ req[r].kind = k

\* A removal is alone.
Lone == \A r, q \in Req : Removing(r) /\ q # r => req[q].pc = "idle"

\* The flag is out of step only where somebody is about to write it.
FlagStage ==
    /\ AnyMethod => mfaEnabled \/ At({"flagTotp", "flagItem"})
    /\ mfaEnabled => AnyMethod \/ At({"anyLeft", "reflag", "recompute"})
    /\ \A r \in Req :
          /\ req[r].pc = "flagTotp" => settings["totp"]
          /\ req[r].pc = "flagItem" => settings[req[r].kind]
          /\ req[r].pc = "reflag" => (req[r].any <=> AnyMethod)

\* So is the summary of one kind.
ItemStage ==
    /\ \A k \in Kind :
          /\ settings[k] => items[k] # {} \/ AtFor({"count", "unsetItem"}, k)
          /\ items[k] # {} => settings[k] \/ AtFor({"setItem"}, k)
    /\ \A r \in Req :
          /\ req[r].pc = "setItem" => items[req[r].kind] # {}
          /\ req[r].pc = "unsetItem" => items[req[r].kind] = {}

\* The set-up has been begun anew.
Anew == totp.secret # NoSecret /\ totp.secret \notin proven

TotpStage ==
    /\ totp.enabled => settings["totp"] \/ At({"setTotp"})
    /\ \A r \in Req : req[r].pc = "unsetTotp" => ~totp.enabled
    /\ settings["totp"] /\ codes = "none" => At({"flagTotp", "codes"})
    /\ settings["totp"] \/ At({"setTotp"}) =>
          totp.enabled \/ Anew \/ At({"enableTotp", "unsetTotp"})

Stage == Lone /\ FlagStage /\ ItemStage /\ TotpStage

FactorInv ==
    /\ TypeOK
    /\ SecretsProven
    /\ ~failed /\ ~raced => Stage

LEMMA AnyMethodIs ==
    AnyMethod <=> settings["totp"] \/ settings["passkey"] \/ settings["push"]
  BY DEF AnyMethod, Method

LEMMA FactorInvInit == Init => FactorInv
  <1> SUFFICES ASSUME Init
               PROVE  FactorInv
    OBVIOUS
  <1>1. TypeOK
    <2>1. req \in [Req -> Request]
      BY IdleType DEF Init
    <2>2. totp \in [secret : Secret \cup {NoSecret}, enabled : BOOLEAN]
      BY DEF Init
    <2>3. QED
      BY <2>1, <2>2 DEF Init, TypeOK, Request, PC
  <1>2. /\ \A m \in Method : ~settings[m]
        /\ \A k \in Kind : k \in Method /\ items[k] = {}
        /\ "totp" \in Method
    BY DEF Init, Kind, Method
  <1>3. \A r \in Req : req[r].pc = "idle"
    BY DEF Init, Idle
  <1>4. ~AnyMethod /\ ~mfaEnabled /\ ~totp.enabled
    BY <1>2 DEF AnyMethod, Init
  <1>5. SecretsProven
    BY <1>3, <1>4 DEF SecretsProven, ProvenUnlessOvertaken, At
  <1>6. Stage
    BY <1>2, <1>3, <1>4 DEF Stage, Lone, Removing, FlagStage, ItemStage, TotpStage, At
  <1>7. QED
    BY <1>1, <1>5, <1>6 DEF FactorInv

\* The statements, each with whatever else may be going on.
LEMMA StageNext ==
    ASSUME FactorInv, [Next]_vars, ~failed', ~raced'
    PROVE  Stage'
  <1>1. TypeOK /\ TypeOK'
    BY FactorTypes DEF FactorInv
  <1>2. AnyMethod <=> settings["totp"] \/ settings["passkey"] \/ settings["push"]
    BY AnyMethodIs
  <1>3. AnyMethod' <=> settings'["totp"] \/ settings'["passkey"] \/ settings'["push"]
    BY DEF AnyMethod, Method
  <1>4. ASSUME ~failed, ~raced
        PROVE  Stage
    BY <1>4 DEF FactorInv
  <1> USE DEF TypeOK, Kind, Method
  <1>5. ASSUME NEW r \in Req, NEW s \in Secret, CheckSetupCode(r, s)
        PROVE  Stage'
    <2>1. Stage /\ (\A q \in Req \ {r} : ~Removing(q))
      BY <1>1, <1>4, <1>5 DEF CheckSetupCode, Enter, Removing
    <2>2. \A q \in Req :
          /\ req'[q].pc = IF q = r THEN "enableTotp" ELSE req[q].pc
          /\ req'[q].kind = req[q].kind /\ req'[q].any = req[q].any
      BY <1>1, <1>5 DEF CheckSetupCode, Goto
    <2>3. Lone'
      BY <1>5, <2>1, <2>2 DEF Stage, Lone, Removing, CheckSetupCode
    <2>4. FlagStage'
      BY <1>1, <1>2, <1>3, <1>5, <2>1, <2>2
      DEF Stage, Lone, Removing, FlagStage, At, CheckSetupCode
    <2>5. ItemStage'
      BY <1>1, <1>5, <2>1, <2>2 DEF Stage, Lone, Removing, ItemStage, AtFor, CheckSetupCode
    <2>6. TotpStage'
      BY <1>1, <1>5, <2>1, <2>2
      DEF Stage, Lone, Removing, TotpStage, Anew, At, CheckSetupCode
    <2>7. QED
      BY <2>3, <2>4, <2>5, <2>6 DEF Stage
  <1>6. ASSUME NEW r \in Req, EnableTotp(r)
        PROVE  Stage'
    <2>1. Stage
      BY <1>4, <1>6 DEF EnableTotp, history
    <2>2. \A q \in Req :
          /\ req'[q].pc = IF q = r THEN "setTotp" ELSE req[q].pc
          /\ req'[q].kind = req[q].kind /\ req'[q].any = req[q].any
      BY <1>1, <1>6 DEF EnableTotp, Goto
    <2>3. Lone'
      BY <1>6, <2>1, <2>2 DEF Stage, Lone, Removing, EnableTotp
    <2>4. FlagStage'
      BY <1>1, <1>2, <1>3, <1>6, <2>1, <2>2
      DEF Stage, Lone, Removing, FlagStage, At, EnableTotp, history
    <2>5. ItemStage'
      <3>1. UNCHANGED <<items, settings>> /\ req[r].pc = "enableTotp"
        BY <1>6 DEF EnableTotp
      <3>2. QED
        BY <2>1, <2>2, <3>1 DEF Stage, ItemStage, AtFor
    <2>6. TotpStage'
      BY <1>1, <1>6, <2>1, <2>2
      DEF Stage, Lone, Removing, TotpStage, Anew, At, EnableTotp, history
    <2>7. QED
      BY <2>3, <2>4, <2>5, <2>6 DEF Stage
  <1>7. ASSUME NEW r \in Req, SetTotpSetting(r)
        PROVE  Stage'
    <2>1. Stage
      BY <1>4, <1>7 DEF SetTotpSetting, history
    <2>2. \A q \in Req :
          /\ req'[q].pc = IF q = r THEN "flagTotp" ELSE req[q].pc
          /\ req'[q].kind = req[q].kind /\ req'[q].any = req[q].any
      BY <1>1, <1>7 DEF SetTotpSetting, Goto
    <2>3. Lone'
      BY <1>7, <2>1, <2>2 DEF Stage, Lone, Removing, SetTotpSetting
    <2>4. FlagStage'
      BY <1>1, <1>2, <1>3, <1>7, <2>1, <2>2
      DEF Stage, Lone, Removing, FlagStage, At, SetTotpSetting, history
    <2>5. ItemStage'
      BY <1>1, <1>7, <2>1, <2>2
      DEF Stage, Lone, Removing, ItemStage, AtFor, SetTotpSetting, history
    <2>6. TotpStage'
      BY <1>1, <1>7, <2>1, <2>2
      DEF Stage, Lone, Removing, TotpStage, Anew, At, SetTotpSetting, history
    <2>7. QED
      BY <2>3, <2>4, <2>5, <2>6 DEF Stage
  <1>8. ASSUME NEW r \in Req, FlagTotp(r)
        PROVE  Stage'
    <2>1. Stage
      BY <1>4, <1>8 DEF FlagTotp, history
    <2>2. \A q \in Req :
          /\ req'[q].pc = IF q = r THEN "codes" ELSE req[q].pc
          /\ req'[q].kind = req[q].kind /\ req'[q].any = req[q].any
      BY <1>1, <1>8 DEF FlagTotp, Goto
    <2>3. Lone'
      BY <1>8, <2>1, <2>2 DEF Stage, Lone, Removing, FlagTotp
    <2>4. FlagStage'
      BY <1>1, <1>2, <1>3, <1>8, <2>1, <2>2
      DEF Stage, Lone, Removing, FlagStage, At, FlagTotp, history
    <2>5. ItemStage'
      BY <1>1, <1>8, <2>1, <2>2
      DEF Stage, Lone, Removing, ItemStage, AtFor, FlagTotp, history
    <2>6. TotpStage'
      BY <1>1, <1>8, <2>1, <2>2
      DEF Stage, Lone, Removing, TotpStage, Anew, At, FlagTotp, history
    <2>7. QED
      BY <2>3, <2>4, <2>5, <2>6 DEF Stage
  <1>9. ASSUME NEW r \in Req, GenerateCodes(r)
        PROVE  Stage'
    <2>1. Stage
      BY <1>4, <1>9 DEF GenerateCodes, history
    <2>2. \A q \in Req :
          /\ req'[q].pc = IF q = r THEN "idle" ELSE req[q].pc
          /\ q # r => req'[q].kind = req[q].kind /\ req'[q].any = req[q].any
      BY <1>1, <1>9 DEF GenerateCodes, Finish, Idle
    <2>3. Lone'
      BY <1>9, <2>1, <2>2 DEF Stage, Lone, Removing, GenerateCodes
    <2>4. FlagStage'
      BY <1>1, <1>2, <1>3, <1>9, <2>1, <2>2
      DEF Stage, Lone, Removing, FlagStage, At, GenerateCodes, history
    <2>5. ItemStage'
      BY <1>1, <1>9, <2>1, <2>2
      DEF Stage, Lone, Removing, ItemStage, AtFor, GenerateCodes, history
    <2>6. TotpStage'
      BY <1>1, <1>9, <2>1, <2>2
      DEF Stage, Lone, Removing, TotpStage, Anew, At, GenerateCodes, history
    <2>7. QED
      BY <2>3, <2>4, <2>5, <2>6 DEF Stage
  <1>10. ASSUME NEW r \in Req, DisableTotp(r)
        PROVE  Stage'
    <2>1. Stage /\ (\A q \in Req \ {r} : req[q].pc = "idle")
      BY <1>1, <1>4, <1>10 DEF DisableTotp, Enter, Removing
    <2>2. \A q \in Req :
          /\ req'[q].pc = IF q = r THEN "unsetTotp" ELSE req[q].pc
          /\ req'[q].kind = req[q].kind /\ req'[q].any = req[q].any
      BY <1>1, <1>10 DEF DisableTotp, Goto
    <2>3. Lone'
      BY <1>10, <2>1, <2>2 DEF Stage, Lone, Removing, DisableTotp
    <2>4. FlagStage'
      BY <1>1, <1>2, <1>3, <1>10, <2>1, <2>2
      DEF Stage, Lone, Removing, FlagStage, At, DisableTotp
    <2>5. ItemStage'
      BY <1>1, <1>10, <2>1, <2>2 DEF Stage, Lone, Removing, ItemStage, AtFor, DisableTotp
    <2>6. TotpStage'
      BY <1>1, <1>10, <2>1, <2>2 DEF Stage, Lone, Removing, TotpStage, Anew, At, DisableTotp
    <2>7. QED
      BY <2>3, <2>4, <2>5, <2>6 DEF Stage
  <1>11. ASSUME NEW r \in Req, UnsetTotpSetting(r)
        PROVE  Stage'
    <2>1. Stage
      BY <1>4, <1>11 DEF UnsetTotpSetting, history
    <2>2. \A q \in Req :
          /\ req'[q].pc = IF q = r THEN "anyLeft" ELSE req[q].pc
          /\ req'[q].kind = req[q].kind /\ req'[q].any = req[q].any
      BY <1>1, <1>11 DEF UnsetTotpSetting, Goto
    <2>3. Lone'
      BY <1>11, <2>1, <2>2 DEF Stage, Lone, Removing, UnsetTotpSetting
    <2>4. FlagStage'
      BY <1>1, <1>2, <1>3, <1>11, <2>1, <2>2
      DEF Stage, Lone, Removing, FlagStage, At, UnsetTotpSetting, history
    <2>5. ItemStage'
      BY <1>1, <1>11, <2>1, <2>2
      DEF Stage, Lone, Removing, ItemStage, AtFor, UnsetTotpSetting, history
    <2>6. TotpStage'
      BY <1>1, <1>11, <2>1, <2>2
      DEF Stage, Lone, Removing, TotpStage, Anew, At, UnsetTotpSetting, history
    <2>7. QED
      BY <2>3, <2>4, <2>5, <2>6 DEF Stage
  <1>12. ASSUME NEW r \in Req, ReadAnyEnabled(r)
        PROVE  Stage'
    <2>1. Stage
      BY <1>4, <1>12 DEF ReadAnyEnabled, history
    <2>2. /\ \A q \in Req :
             /\ req'[q].pc = IF q = r THEN "reflag" ELSE req[q].pc
             /\ req'[q].kind = req[q].kind /\ (q # r => req'[q].any = req[q].any)
          /\ req'[r].any = AnyMethod
      BY <1>1, <1>12 DEF ReadAnyEnabled
    <2>3. Lone'
      <3>1. req[r].pc = "anyLeft"
        BY <1>12 DEF ReadAnyEnabled
      <3>2. QED
        BY <2>1, <2>2, <3>1 DEF Stage, Lone, Removing
    <2>4. FlagStage'
      BY <1>1, <1>2, <1>3, <1>12, <2>1, <2>2
      DEF Stage, Lone, Removing, FlagStage, At, ReadAnyEnabled, history
    <2>5. ItemStage'
      BY <1>1, <1>12, <2>1, <2>2
      DEF Stage, Lone, Removing, ItemStage, AtFor, ReadAnyEnabled, history
    <2>6. TotpStage'
      BY <1>1, <1>12, <2>1, <2>2
      DEF Stage, Lone, Removing, TotpStage, Anew, At, ReadAnyEnabled, history
    <2>7. QED
      BY <2>3, <2>4, <2>5, <2>6 DEF Stage
  <1>13. ASSUME NEW r \in Req, WriteAnyEnabled(r)
        PROVE  Stage'
    <2>1. Stage
      BY <1>4, <1>13 DEF WriteAnyEnabled, history
    <2>2. \A q \in Req :
          /\ req'[q].pc = IF q = r THEN "idle" ELSE req[q].pc
          /\ q # r => req'[q].kind = req[q].kind /\ req'[q].any = req[q].any
      BY <1>1, <1>13 DEF WriteAnyEnabled, Finish, Idle
    <2>3. Lone'
      BY <1>13, <2>1, <2>2 DEF Stage, Lone, Removing, WriteAnyEnabled
    <2>4. FlagStage'
      BY <1>1, <1>2, <1>3, <1>13, <2>1, <2>2
      DEF Stage, Lone, Removing, FlagStage, At, WriteAnyEnabled, history
    <2>5. ItemStage'
      BY <1>1, <1>13, <2>1, <2>2
      DEF Stage, Lone, Removing, ItemStage, AtFor, WriteAnyEnabled, history
    <2>6. TotpStage'
      BY <1>1, <1>13, <2>1, <2>2
      DEF Stage, Lone, Removing, TotpStage, Anew, At, WriteAnyEnabled, history
    <2>7. QED
      BY <2>3, <2>4, <2>5, <2>6 DEF Stage
  <1>14. ASSUME NEW r \in Req, NEW k \in Kind, NEW x \in Item, Enrol(r, k, x)
        PROVE  Stage'
    <2>1. Stage /\ (\A q \in Req \ {r} : ~Removing(q))
      BY <1>1, <1>4, <1>14 DEF Enrol, Enter, Removing
    <2>2. /\ \A q \in Req :
             /\ req'[q].pc = IF q = r THEN "setItem" ELSE req[q].pc
             /\ q # r => req'[q].kind = req[q].kind /\ req'[q].any = req[q].any
          /\ req'[r].kind = k
      BY <1>1, <1>14 DEF Enrol, Idle
    <2>3. Lone'
      BY <1>14, <2>1, <2>2 DEF Stage, Lone, Removing, Enrol
    <2>4. FlagStage'
      BY <1>1, <1>2, <1>3, <1>14, <2>1, <2>2 DEF Stage, Lone, Removing, FlagStage, At, Enrol
    <2>5. ItemStage'
      BY <1>1, <1>14, <2>1, <2>2 DEF Stage, Lone, Removing, ItemStage, AtFor, Enrol
    <2>6. TotpStage'
      BY <1>1, <1>14, <2>1, <2>2 DEF Stage, Lone, Removing, TotpStage, Anew, At, Enrol
    <2>7. QED
      BY <2>3, <2>4, <2>5, <2>6 DEF Stage
  <1>15. ASSUME NEW r \in Req, SetItemSetting(r)
        PROVE  Stage'
    <2>1. Stage
      BY <1>4, <1>15 DEF SetItemSetting, history
    <2>2. \A q \in Req :
          /\ req'[q].pc = IF q = r THEN "flagItem" ELSE req[q].pc
          /\ req'[q].kind = req[q].kind /\ req'[q].any = req[q].any
      BY <1>1, <1>15 DEF SetItemSetting, Goto
    <2>3. Lone'
      BY <1>15, <2>1, <2>2 DEF Stage, Lone, Removing, SetItemSetting
    <2>4. FlagStage'
      BY <1>1, <1>2, <1>3, <1>15, <2>1, <2>2
      DEF Stage, Lone, Removing, FlagStage, At, SetItemSetting, history
    <2>5. ItemStage'
      BY <1>1, <1>15, <2>1, <2>2
      DEF Stage, Lone, Removing, ItemStage, AtFor, SetItemSetting, history
    <2>6. TotpStage'
      <3>1. settings'["totp"] = settings["totp"]
        BY <1>1, <1>15 DEF SetItemSetting
      <3>2. UNCHANGED <<totp, codes, proven>> /\ req[r].pc = "setItem"
        BY <1>15 DEF SetItemSetting, history
      <3>3. QED
        BY <2>1, <2>2, <3>1, <3>2 DEF Stage, TotpStage, Anew, At
    <2>7. QED
      BY <2>3, <2>4, <2>5, <2>6 DEF Stage
  <1>16. ASSUME NEW r \in Req, FlagItem(r)
        PROVE  Stage'
    <2>1. Stage
      BY <1>4, <1>16 DEF FlagItem, history
    <2>2. \A q \in Req :
          /\ req'[q].pc = IF q = r THEN "idle" ELSE req[q].pc
          /\ q # r => req'[q].kind = req[q].kind /\ req'[q].any = req[q].any
      BY <1>1, <1>16 DEF FlagItem, Finish, Idle
    <2>3. Lone'
      BY <1>16, <2>1, <2>2 DEF Stage, Lone, Removing, FlagItem
    <2>4. FlagStage'
      BY <1>1, <1>2, <1>3, <1>16, <2>1, <2>2
      DEF Stage, Lone, Removing, FlagStage, At, FlagItem, history
    <2>5. ItemStage'
      BY <1>1, <1>16, <2>1, <2>2
      DEF Stage, Lone, Removing, ItemStage, AtFor, FlagItem, history
    <2>6. TotpStage'
      BY <1>1, <1>16, <2>1, <2>2
      DEF Stage, Lone, Removing, TotpStage, Anew, At, FlagItem, history
    <2>7. QED
      BY <2>3, <2>4, <2>5, <2>6 DEF Stage
  <1>17. ASSUME NEW r \in Req, NEW k \in Kind, NEW x \in Item, Withdraw(r, k, x)
        PROVE  Stage'
    <2>1. Stage /\ (\A q \in Req \ {r} : req[q].pc = "idle")
      BY <1>1, <1>4, <1>17 DEF Withdraw, Enter, Removing
    <2>2. /\ \A q \in Req :
             /\ req'[q].pc = IF q = r THEN "count" ELSE req[q].pc
             /\ q # r => req'[q].kind = req[q].kind /\ req'[q].any = req[q].any
          /\ req'[r].kind = k
      BY <1>1, <1>17 DEF Withdraw, Idle
    <2>3. Lone'
      BY <1>17, <2>1, <2>2 DEF Stage, Lone, Removing, Withdraw
    <2>4. FlagStage'
      BY <1>1, <1>2, <1>3, <1>17, <2>1, <2>2
      DEF Stage, Lone, Removing, FlagStage, At, Withdraw
    <2>5. ItemStage'
      BY <1>1, <1>17, <2>1, <2>2 DEF Stage, Lone, Removing, ItemStage, AtFor, Withdraw
    <2>6. TotpStage'
      BY <1>1, <1>17, <2>1, <2>2 DEF Stage, Lone, Removing, TotpStage, Anew, At, Withdraw
    <2>7. QED
      BY <2>3, <2>4, <2>5, <2>6 DEF Stage
  <1>18. ASSUME NEW r \in Req, CountLeft(r)
        PROVE  Stage'
    <2>1. Stage
      BY <1>4, <1>18 DEF CountLeft, history
    <2>2. \A q \in Req :
          /\ req'[q].pc = IF q # r THEN req[q].pc
                         ELSE IF NoneLeft(req[r].kind) THEN "unsetItem" ELSE "idle"
          /\ q # r \/ NoneLeft(req[r].kind) =>
                req'[q].kind = req[q].kind /\ req'[q].any = req[q].any
      BY <1>1, <1>18 DEF CountLeft, NoneLeft, Goto, Finish, Idle
    <2>3. Lone'
      BY <1>18, <2>1, <2>2 DEF Stage, Lone, Removing, CountLeft
    <2>4. FlagStage'
      BY <1>1, <1>2, <1>3, <1>18, <2>1, <2>2
      DEF Stage, Lone, Removing, FlagStage, At, CountLeft, NoneLeft, history
    <2>5. ItemStage'
      BY <1>1, <1>18, <2>1, <2>2
      DEF Stage, Lone, Removing, ItemStage, AtFor, CountLeft, NoneLeft, history
    <2>6. TotpStage'
      BY <1>1, <1>18, <2>1, <2>2
      DEF Stage, Lone, Removing, TotpStage, Anew, At, CountLeft, NoneLeft, history
    <2>7. QED
      BY <2>3, <2>4, <2>5, <2>6 DEF Stage
  <1>19. ASSUME NEW r \in Req, UnsetItemSetting(r)
        PROVE  Stage'
    <2>1. Stage
      BY <1>4, <1>19 DEF UnsetItemSetting, history
    <2>2. \A q \in Req :
          /\ req'[q].pc = IF q = r THEN "recompute" ELSE req[q].pc
          /\ req'[q].kind = req[q].kind /\ req'[q].any = req[q].any
      BY <1>1, <1>19 DEF UnsetItemSetting, Goto
    <2>3. Lone'
      BY <1>19, <2>1, <2>2 DEF Stage, Lone, Removing, UnsetItemSetting
    <2>4. FlagStage'
      BY <1>1, <1>2, <1>3, <1>19, <2>1, <2>2
      DEF Stage, Lone, Removing, FlagStage, At, UnsetItemSetting, history
    <2>5. ItemStage'
      BY <1>1, <1>19, <2>1, <2>2
      DEF Stage, Lone, Removing, ItemStage, AtFor, UnsetItemSetting, history
    <2>6. TotpStage'
      BY <1>1, <1>19, <2>1, <2>2
      DEF Stage, Lone, Removing, TotpStage, Anew, At, UnsetItemSetting, history
    <2>7. QED
      BY <2>3, <2>4, <2>5, <2>6 DEF Stage
  <1>20. ASSUME NEW r \in Req, RecomputeFlag(r)
        PROVE  Stage'
    <2>1. Stage
      BY <1>4, <1>20 DEF RecomputeFlag, history
    <2>2. \A q \in Req :
          /\ req'[q].pc = IF q = r THEN "idle" ELSE req[q].pc
          /\ q # r => req'[q].kind = req[q].kind /\ req'[q].any = req[q].any
      BY <1>1, <1>20 DEF RecomputeFlag, Finish, Idle
    <2>3. Lone'
      BY <1>20, <2>1, <2>2 DEF Stage, Lone, Removing, RecomputeFlag
    <2>4. FlagStage'
      BY <1>1, <1>2, <1>3, <1>20, <2>1, <2>2
      DEF Stage, Lone, Removing, FlagStage, At, RecomputeFlag, history
    <2>5. ItemStage'
      BY <1>1, <1>20, <2>1, <2>2
      DEF Stage, Lone, Removing, ItemStage, AtFor, RecomputeFlag, history
    <2>6. TotpStage'
      BY <1>1, <1>20, <2>1, <2>2
      DEF Stage, Lone, Removing, TotpStage, Anew, At, RecomputeFlag, history
    <2>7. QED
      BY <2>3, <2>4, <2>5, <2>6 DEF Stage
  <1>21. ASSUME NEW r \in Req, NEW s \in Secret, SetupTOTP(r, s)
         PROVE  Stage'
    <2>1. Stage
      BY <1>4, <1>21 DEF SetupTOTP
    <2>2. Lone' /\ FlagStage' /\ ItemStage'
      BY <1>21, <2>1
      DEF Stage, SetupTOTP, Lone, Removing, FlagStage, ItemStage, At, AtFor, AnyMethod
    <2>3. totp'.secret = s /\ totp'.enabled = FALSE /\ Anew'
      BY <1>1, <1>21, MfaAssumption DEF SetupTOTP, Anew
    <2>4. TotpStage'
      BY <1>21, <2>1, <2>3 DEF Stage, SetupTOTP, TotpStage, At
    <2>5. QED
      BY <2>2, <2>4 DEF Stage
  <1>22. ASSUME NEW r \in Req, UseLastCode(r) \/ RegenerateCodes(r)
         PROVE  Stage'
    <2>1. Stage
      BY <1>4, <1>22 DEF UseLastCode, RegenerateCodes, history
    <2>2. /\ UNCHANGED <<totp, items, settings, mfaEnabled, req, proven>>
          /\ codes' # "none"
      BY <1>22 DEF UseLastCode, RegenerateCodes, history
    <2>3. Lone' /\ FlagStage' /\ ItemStage'
      BY <2>1, <2>2
      DEF Stage, Lone, Removing, FlagStage, ItemStage, At, AtFor, AnyMethod
    <2>4. TotpStage'
      BY <2>1, <2>2 DEF Stage, TotpStage, Anew, At
    <2>5. QED
      BY <2>3, <2>4 DEF Stage
  <1>23. CASE UNCHANGED vars
    <2>1. Stage
      BY <1>4, <1>23 DEF vars
    <2>2. QED
      BY <1>23, <2>1
      DEF vars, Stage, Lone, Removing, FlagStage, ItemStage, TotpStage, Anew, At, AtFor,
          AnyMethod
  <1>24. ASSUME NEW r \in Req, Abort(r) \/ Ignore(r)
         PROVE  FALSE
    BY <1>24 DEF Abort, Ignore
  <1>25. QED
    BY <1>5, <1>6, <1>7, <1>8, <1>9, <1>10, <1>11, <1>12, <1>13, <1>14, <1>15, <1>16,
       <1>17, <1>18, <1>19, <1>20, <1>21, <1>22, <1>23, <1>24
    DEF Next, Statement, FinishRegistration, RegisterDevice, DeletePasskey, RemoveDevice

LEMMA FactorInvNext ==
    ASSUME FactorInv, [Next]_vars
    PROVE  FactorInv'
  <1>1. TypeOK'
    BY FactorTypes DEF FactorInv
  <1>2. SecretsProven'
    BY SecretsProvenNext DEF FactorInv
  <1>3. ASSUME ~failed', ~raced'
        PROVE  Stage'
    BY <1>3, StageNext
  <1>4. QED
    BY <1>1, <1>2, <1>3 DEF FactorInv

-----------------------------------------------------------------------------
(* The ceremonies.                                                         *)

Busy == {"drop", "check", "token"}

TabType == [pc : {"idle", "store", "drop", "check", "token"},
            of : Ceremony, challenge : Challenge \cup {NoChallenge},
            item : Item \cup {NoItem}, gone : BOOLEAN]

\* A finish has a challenge and a passkey, and nobody else does.  A passkey
\* that has not been enrolled since the finish came in still is not.
Sound(t) ==
    /\ tab[t].pc \in Busy <=> tab[t].challenge \in Challenge
    /\ tab[t].pc \in Busy => tab[t].item \in Item
    /\ tab[t].gone => tab[t].pc \in {"drop", "check"} /\ tab[t].item \notin items["passkey"]

\* Where no ceremony is in the load, there is none.
NoCeremony ==
    load = {"factors"} =>
        /\ \A k \in Ceremony : session[k] = {}
        /\ \A t \in Tab : tab[t].pc = "idle"

\* A challenge is in one key, then in the hands of one finish, then answered.
AnsweredOnce(c) ==
    /\ answered[c] <= 1
    /\ \A t, u \in Tab : tab[t].challenge = c /\ tab[u].challenge = c => t = u
    /\ \A k, j \in Ceremony : c \in session[k] /\ c \in session[j] => k = j
    /\ \A k \in Ceremony : c \in session[k] => answered[c] = 0
    /\ \A t \in Tab : tab[t].challenge = c =>
          /\ answered[c] = 0
          /\ \A k \in Ceremony :
                c \in session[k] => tab[t].pc = "drop" /\ tab[t].of = k

CeremonyInv ==
    /\ PasskeyTypeOK
    /\ \A t \in Tab : Sound(t)
    /\ NoCeremony
    /\ \A c \in Challenge \ disturbed : AnsweredOnce(c)

PasskeyInv == TypeOK /\ CeremonyInv

LEMMA NoTabType == NoTab \in TabType /\ \A k \in Ceremony :
                      [NoTab EXCEPT !.pc = "store", !.of = k] \in TabType
  BY DEF NoTab, TabType, Ceremony

LEMMA PasskeyInvInit == PasskeyInit => PasskeyInv
  <1> SUFFICES ASSUME PasskeyInit
               PROVE  PasskeyInv
    OBVIOUS
  <1>1. TypeOK
    BY FactorInvInit DEF PasskeyInit, FactorInv
  <1>2. PasskeyTypeOK
    <2>1. tab \in [Tab -> TabType]
      BY NoTabType DEF PasskeyInit
    <2>2. answered \in [Challenge -> 0..2]
      BY DEF PasskeyInit
    <2>3. QED
      BY <2>1, <2>2 DEF PasskeyInit, PasskeyTypeOK, TabType
  <1>3. \A t \in Tab : Sound(t)
    BY PasskeyAssumption DEF PasskeyInit, NoTab, Sound, Busy
  <1>4. NoCeremony
    BY DEF PasskeyInit, NoCeremony, NoTab
  <1>5. \A c \in Challenge : AnsweredOnce(c)
    BY PasskeyAssumption DEF PasskeyInit, AnsweredOnce, NoTab
  <1>6. QED
    BY <1>1, <1>2, <1>3, <1>4, <1>5 DEF PasskeyInv, CeremonyInv

\* Every step of the ceremonies is one of the factors or leaves them alone.
LEMMA FactorStep ==
    ASSUME PasskeyInv, [PasskeyNext]_passkeyVars
    PROVE  [Next]_vars
  <1>1. ASSUME NEW r \in Req, Statement(r)
        PROVE  Next
    BY <1>1 DEF Next
  <1>2. ASSUME NEW r \in Req, NEW x \in Item, DeletePasskey(r, x)
        PROVE  Next
    BY <1>2 DEF Next
  <1>3. ASSUME NEW t \in Tab, NEW r \in Req, CreateCredential(t, r)
        PROVE  Next
    <2>1. tab[t].item \in Item
      BY <1>3 DEF CreateCredential, PasskeyInv, CeremonyInv, Sound, Busy
    <2>2. FinishRegistration(r, tab[t].item)
      BY <1>3 DEF CreateCredential
    <2>3. QED
      BY <2>1, <2>2 DEF Next
  <1>4. CASE UNCHANGED passkeyVars
    BY <1>4 DEF passkeyVars
  <1>5. QED
    BY <1>1, <1>2, <1>3, <1>4
    DEF PasskeyNext, PasskeyRegisterBegin, PasskeyAuthBegin, PasskeyLoginBegin, Begin,
        StoreFails, DropSession, DropFails, ValidateLogin, GenerateToken, Refuse,
        StoreSession, PasskeyRegisterFinish, PasskeyAuthFinish, PasskeyLoginFinish,
        GetSession, ExpireSession

LEMMA TabTypes == PasskeyTypeOK => tab \in [Tab -> TabType]
  BY DEF PasskeyTypeOK, TabType

\* A begin, and every way to leave without an answer.
LEMMA BeginNext ==
    ASSUME PasskeyInv, NEW t \in Tab, NEW k \in Ceremony, Begin(t, k)
    PROVE  CeremonyInv'
  <1> DEFINE n == [NoTab EXCEPT !.pc = "store", !.of = k]
  <1>1. n \in TabType /\ tab \in [Tab -> TabType]
    BY NoTabType, TabTypes DEF PasskeyInv, CeremonyInv
  <1>2. /\ tab' = [tab EXCEPT ![t] = n]
        /\ UNCHANGED <<vars, load, session, answered, disturbed>>
    BY DEF Begin
  <1>3. n.pc = "store" /\ n.challenge = NoChallenge /\ n.gone = FALSE
    BY DEF NoTab
  <1> HIDE DEF n
  <1>4. PasskeyTypeOK'
    <2>1. tab' \in [Tab -> TabType]
      BY <1>1, <1>2
    <2>2. QED
      BY <1>2, <2>1 DEF PasskeyInv, CeremonyInv, PasskeyTypeOK, TabType
  <1>5. ASSUME NEW u \in Tab
        PROVE  Sound(u)'
    BY <1>1, <1>2, <1>3, PasskeyAssumption DEF PasskeyInv, CeremonyInv, Sound, Busy, vars
  <1>6. NoCeremony'
    BY DEF PasskeyInv, CeremonyInv, NoCeremony, Ceremony, Begin
  <1>7. ASSUME NEW c \in Challenge \ disturbed'
        PROVE  AnsweredOnce(c)'
    <2>1. AnsweredOnce(c) /\ c # NoChallenge
      BY <1>2, PasskeyAssumption DEF PasskeyInv, CeremonyInv
    <2>2. \A u \in Tab : tab'[u].challenge = c => tab'[u] = tab[u]
      BY <1>1, <1>2, <1>3, <2>1
    <2>3. QED
      BY <1>2, <2>1, <2>2 DEF AnsweredOnce
  <1>8. QED
    BY <1>4, <1>5, <1>6, <1>7 DEF CeremonyInv

\* Leaving, whether or not an answer is counted.
LEMMA LeaveNext ==
    ASSUME PasskeyInv, NEW t \in Tab, Leave(t), tab[t].pc # "idle",
           UNCHANGED <<vars, load, session, disturbed>>,
           \/ UNCHANGED answered
           \/ tab[t].pc = "token" /\ answered' = Counted(tab[t].challenge)
    PROVE  CeremonyInv'
  <1>1. NoTab \in TabType /\ tab \in [Tab -> TabType]
    BY NoTabType, TabTypes DEF PasskeyInv, CeremonyInv
  <1>2. NoTab.pc = "idle" /\ NoTab.challenge = NoChallenge /\ NoTab.gone = FALSE
    BY DEF NoTab
  <1>3. tab' = [tab EXCEPT ![t] = NoTab]
    BY DEF Leave
  <1>4. answered \in [Challenge -> 0..2] /\ answered' \in [Challenge -> 0..2]
    BY DEF PasskeyInv, CeremonyInv, PasskeyTypeOK, Counted
  <1>5. PasskeyTypeOK'
    <2>1. tab' \in [Tab -> TabType]
      BY <1>1, <1>3
    <2>2. QED
      BY <1>4, <2>1 DEF PasskeyInv, CeremonyInv, PasskeyTypeOK, TabType
  <1>6. ASSUME NEW u \in Tab
        PROVE  Sound(u)'
    BY <1>1, <1>2, <1>3, PasskeyAssumption DEF PasskeyInv, CeremonyInv, Sound, Busy, vars
  <1>7. NoCeremony'
    BY DEF PasskeyInv, CeremonyInv, NoCeremony
  <1>8. ASSUME NEW c \in Challenge \ disturbed'
        PROVE  AnsweredOnce(c)'
    <2>1. AnsweredOnce(c) /\ c # NoChallenge
      BY PasskeyAssumption DEF PasskeyInv, CeremonyInv
    <2>2. \A u \in Tab : tab'[u].challenge = c => tab'[u] = tab[u] /\ u # t
      BY <1>1, <1>2, <1>3, <2>1
    <2>3. CASE answered'[c] = answered[c]
      BY <2>1, <2>2, <2>3 DEF AnsweredOnce
    <2>4. CASE answered'[c] # answered[c]
      <3>1. tab[t].challenge = c /\ tab[t].pc = "token"
        BY <1>4, <2>4 DEF Counted
      <3>2. answered[c] = 0 /\ \A k \in Ceremony : c \notin session[k]
        BY <2>1, <3>1 DEF AnsweredOnce
      <3>3. answered'[c] = 1
        BY <1>4, <2>4, <3>1, <3>2 DEF Counted
      <3>4. \A u \in Tab : tab'[u].challenge # c
        BY <2>1, <2>2, <3>1 DEF AnsweredOnce
      <3>5. QED
        BY <3>2, <3>3, <3>4 DEF AnsweredOnce
    <2>5. QED
      BY <2>3, <2>4
  <1>9. QED
    BY <1>5, <1>6, <1>7, <1>8 DEF CeremonyInv

\* A new challenge is in no other key and in nobody's hands.
LEMMA StoreNext ==
    ASSUME PasskeyInv, NEW t \in Tab, NEW c \in Challenge, StoreSession(t, c)
    PROVE  CeremonyInv'
  <1> DEFINE k == tab[t].of
  <1>1. NoTab \in TabType /\ tab \in [Tab -> TabType]
    BY NoTabType, TabTypes DEF PasskeyInv, CeremonyInv
  <1>2. NoTab.pc = "idle" /\ NoTab.challenge = NoChallenge /\ NoTab.gone = FALSE
    BY DEF NoTab
  <1>3. /\ tab' = [tab EXCEPT ![t] = NoTab] /\ k \in Ceremony
        /\ session' = [session EXCEPT ![k] = Stored(k, c)]
        /\ answered' = [answered EXCEPT ![c] = 0]
        /\ disturbed' = disturbed \ {c}
        /\ UNCHANGED <<vars, load>>
    BY <1>1 DEF StoreSession, Leave, TabType
  <1>4. /\ \A j \in Ceremony : c \notin session[j]
        /\ \A u \in Tab : tab[u].challenge # c
    BY DEF StoreSession, Held
  <1>5. /\ Stored(k, c) \in SUBSET Challenge
        /\ Stored(k, c) \subseteq session[k] \cup {c}
    BY <1>3 DEF Stored, PasskeyInv, CeremonyInv, PasskeyTypeOK
  <1> HIDE DEF k
  <1>6. PasskeyTypeOK'
    <2>1. tab' \in [Tab -> TabType]
      BY <1>1, <1>3
    <2>2. answered' \in [Challenge -> 0..2]
      BY <1>3 DEF PasskeyInv, CeremonyInv, PasskeyTypeOK
    <2>3. session' \in [Ceremony -> SUBSET Challenge]
      BY <1>3, <1>5 DEF PasskeyInv, CeremonyInv, PasskeyTypeOK
    <2>4. QED
      BY <1>3, <2>1, <2>2, <2>3 DEF PasskeyInv, CeremonyInv, PasskeyTypeOK, TabType
  <1>7. ASSUME NEW u \in Tab
        PROVE  Sound(u)'
    BY <1>1, <1>2, <1>3, PasskeyAssumption DEF PasskeyInv, CeremonyInv, Sound, Busy, vars
  <1>8. NoCeremony'
    BY <1>3 DEF PasskeyInv, CeremonyInv, NoCeremony, StoreSession
  <1>9. ASSUME NEW d \in Challenge \ disturbed'
        PROVE  AnsweredOnce(d)'
    <2>1. d # NoChallenge
      BY PasskeyAssumption
    <2>2. \A u \in Tab : tab'[u].challenge = d => tab'[u] = tab[u]
      BY <1>1, <1>2, <1>3, <2>1
    <2>3. session \in [Ceremony -> SUBSET Challenge] /\ answered \in [Challenge -> 0..2]
      BY DEF PasskeyInv, CeremonyInv, PasskeyTypeOK
    <2>4. CASE d = c
      <3>1. \A u \in Tab : tab'[u].challenge # c
        BY <1>4, <2>2, <2>4
      <3>2. \A j \in Ceremony : c \in session'[j] => j = k
        BY <1>3, <1>4, <2>3
      <3>3. answered'[c] = 0
        BY <1>3, <2>3
      <3>4. QED
        BY <2>4, <3>1, <3>2, <3>3 DEF AnsweredOnce
    <2>5. CASE d # c
      <3>1. AnsweredOnce(d)
        BY <1>3, <2>5 DEF PasskeyInv, CeremonyInv
      <3>2. \A j \in Ceremony : d \in session'[j] => d \in session[j]
        BY <1>3, <1>5, <2>3, <2>5
      <3>3. answered'[d] = answered[d]
        BY <1>3, <2>3, <2>5
      <3>4. QED
        BY <2>2, <3>1, <3>2, <3>3 DEF AnsweredOnce
    <2>6. QED
      BY <2>4, <2>5
  <1>10. QED
    BY <1>6, <1>7, <1>8, <1>9 DEF CeremonyInv

\* A finish is the first to get its challenge, or the challenge is disturbed.
LEMMA GetNext ==
    ASSUME PasskeyInv, NEW t \in Tab, NEW k \in Ceremony, NEW c \in Challenge,
           NEW x \in Item, GetSession(t, k, c, x)
    PROVE  CeremonyInv'
  <1> DEFINE n == [pc |-> "drop", of |-> k, challenge |-> c, item |-> x,
                   gone |-> x \notin items["passkey"]]
  <1>1. n \in TabType /\ tab \in [Tab -> TabType]
    BY TabTypes DEF PasskeyInv, CeremonyInv, TabType
  <1>2. /\ tab' = [tab EXCEPT ![t] = n] /\ tab[t].pc = "idle" /\ c \in session[k]
        /\ UNCHANGED <<vars, load, session, answered>>
        /\ disturbed \subseteq disturbed' /\ disturbed' \subseteq disturbed \cup {c}
        /\ (\E u \in Tab : tab[u].challenge = c) => c \in disturbed'
    BY DEF GetSession
  <1>3. /\ n.pc = "drop" /\ n.challenge = c /\ n.item = x /\ n.of = k
        /\ n.gone => x \notin items["passkey"]
    OBVIOUS
  <1> HIDE DEF n
  <1>4. PasskeyTypeOK'
    <2>1. tab' \in [Tab -> TabType]
      BY <1>1, <1>2
    <2>2. QED
      BY <1>2, <2>1 DEF PasskeyInv, CeremonyInv, PasskeyTypeOK, TabType
  <1>5. ASSUME NEW u \in Tab
        PROVE  Sound(u)'
    BY <1>1, <1>2, <1>3 DEF PasskeyInv, CeremonyInv, Sound, Busy, vars
  <1>6. NoCeremony'
    BY <1>2 DEF PasskeyInv, CeremonyInv, NoCeremony
  <1>7. ASSUME NEW d \in Challenge \ disturbed'
        PROVE  AnsweredOnce(d)'
    <2>1. AnsweredOnce(d)
      BY <1>2 DEF PasskeyInv, CeremonyInv
    <2>2. CASE d = c
      <3>1. \A u \in Tab : tab'[u].challenge = c => u = t
        BY <1>1, <1>2, <2>2
      <3>2. tab'[t] = n
        BY <1>1, <1>2
      <3>3. QED
        BY <1>2, <1>3, <2>1, <2>2, <3>1, <3>2 DEF AnsweredOnce
    <2>3. CASE d # c
      <3>1. \A u \in Tab : tab'[u].challenge = d => tab'[u] = tab[u]
        BY <1>1, <1>2, <1>3, <2>3
      <3>2. QED
        BY <1>2, <2>1, <3>1 DEF AnsweredOnce
    <2>4. QED
      BY <2>2, <2>3
  <1>8. QED
    BY <1>4, <1>5, <1>6, <1>7 DEF CeremonyInv

\* A key loses what it has, and a tab that had got it moves on.
LEMMA DropNext ==
    ASSUME PasskeyInv, NEW t \in Tab, DropSession(t) \/ DropFails(t)
    PROVE  CeremonyInv'
  <1> DEFINE n == [tab[t] EXCEPT !.pc = "check"]
             k == tab[t].of
  <1>1. tab \in [Tab -> TabType] /\ tab[t] \in TabType
    BY TabTypes DEF PasskeyInv, CeremonyInv
  <1>2. /\ n \in TabType /\ n.pc = "check" /\ n.challenge = tab[t].challenge
        /\ n.item = tab[t].item /\ n.gone = tab[t].gone /\ n.of = k
    BY <1>1 DEF TabType
  <1>3. /\ tab' = [tab EXCEPT ![t] = n] /\ tab[t].pc = "drop" /\ k \in Ceremony
        /\ UNCHANGED <<vars, load, answered>>
    BY <1>1 DEF DropSession, DropFails, TabType
  <1>4. tab[t].challenge \in Challenge
    BY <1>3 DEF PasskeyInv, CeremonyInv, Sound, Busy
  <1>5. \/ /\ session' = [session EXCEPT ![k] = Dropped(k, tab[t].challenge)]
           /\ UNCHANGED disturbed
        \/ /\ disturbed' = disturbed \cup {tab[t].challenge}
           /\ UNCHANGED session
    BY DEF DropSession, DropFails
  <1>6. /\ Dropped(k, tab[t].challenge) \subseteq session[k]
        /\ tab[t].challenge \notin Dropped(k, tab[t].challenge)
    BY DEF Dropped
  <1>7. session \in [Ceremony -> SUBSET Challenge]
    BY DEF PasskeyInv, CeremonyInv, PasskeyTypeOK
  <1> HIDE DEF n, k
  <1>8. PasskeyTypeOK'
    <2>1. tab' \in [Tab -> TabType]
      BY <1>1, <1>2, <1>3
    <2>2. session' \in [Ceremony -> SUBSET Challenge]
      BY <1>3, <1>5, <1>6, <1>7
    <2>3. disturbed' \subseteq Challenge
      BY <1>4, <1>5 DEF PasskeyInv, CeremonyInv, PasskeyTypeOK
    <2>4. QED
      BY <1>3, <2>1, <2>2, <2>3 DEF PasskeyInv, CeremonyInv, PasskeyTypeOK, TabType
  <1>9. ASSUME NEW u \in Tab
        PROVE  Sound(u)'
    BY <1>1, <1>2, <1>3 DEF PasskeyInv, CeremonyInv, Sound, Busy, vars
  <1>10. NoCeremony'
    BY <1>3 DEF PasskeyInv, CeremonyInv, NoCeremony
  <1>11. ASSUME NEW d \in Challenge \ disturbed'
         PROVE  AnsweredOnce(d)'
    <2>1. AnsweredOnce(d)
      BY <1>5 DEF PasskeyInv, CeremonyInv
    <2>2. \A j \in Ceremony : d \in session'[j] => d \in session[j]
      BY <1>3, <1>5, <1>6, <1>7
    <2>3. CASE d = tab[t].challenge
      <3>1. session' = [session EXCEPT ![k] = Dropped(k, d)]
        BY <1>5, <2>3
      <3>2. \A j \in Ceremony : d \in session[j] => j = k
        BY <1>3, <2>1, <2>3 DEF AnsweredOnce, k
      <3>3. \A j \in Ceremony : d \notin session'[j]
        BY <1>3, <1>6, <1>7, <2>2, <2>3, <3>1, <3>2
      <3>4. \A u \in Tab : tab'[u].challenge = d => tab[u].challenge = d
        BY <1>1, <1>2, <1>3
      <3>5. QED
        BY <1>3, <2>1, <3>3, <3>4 DEF AnsweredOnce
    <2>4. CASE d # tab[t].challenge
      <3>1. \A u \in Tab : tab'[u].challenge = d => tab'[u] = tab[u]
        BY <1>1, <1>2, <1>3, <2>4
      <3>2. QED
        BY <1>3, <2>1, <2>2, <3>1 DEF AnsweredOnce
    <2>5. QED
      BY <2>3, <2>4
  <1>12. QED
    BY <1>8, <1>9, <1>10, <1>11 DEF CeremonyInv

LEMMA ExpireNext ==
    ASSUME PasskeyInv, NEW k \in Ceremony, NEW c \in Challenge, ExpireSession(k, c)
    PROVE  CeremonyInv'
  <1>1. /\ session' = [session EXCEPT ![k] = @ \ {c}]
        /\ UNCHANGED <<vars, load, tab, answered, disturbed>>
    BY DEF ExpireSession
  <1>2. /\ session \in [Ceremony -> SUBSET Challenge]
        /\ session' \in [Ceremony -> SUBSET Challenge]
        /\ \A j \in Ceremony : session'[j] \subseteq session[j]
    BY <1>1 DEF PasskeyInv, CeremonyInv, PasskeyTypeOK
  <1>3. PasskeyTypeOK'
    BY <1>1, <1>2 DEF PasskeyInv, CeremonyInv, PasskeyTypeOK
  <1>4. \A t \in Tab : Sound(t)'
    BY <1>1 DEF PasskeyInv, CeremonyInv, Sound, vars
  <1>5. NoCeremony'
    BY <1>1, <1>2 DEF PasskeyInv, CeremonyInv, NoCeremony
  <1>6. ASSUME NEW d \in Challenge \ disturbed'
        PROVE  AnsweredOnce(d)'
    <2>1. AnsweredOnce(d)
      BY <1>1 DEF PasskeyInv, CeremonyInv
    <2>2. QED
      BY <1>1, <1>2, <2>1 DEF AnsweredOnce
  <1>7. QED
    BY <1>3, <1>4, <1>5, <1>6 DEF CeremonyInv

\* The verdict lets in only who is enrolled at that moment.
LEMMA ValidateNext ==
    ASSUME PasskeyInv, NEW t \in Tab, ValidateLogin(t)
    PROVE  CeremonyInv'
  <1> DEFINE n == [tab[t] EXCEPT !.pc = "token"]
  <1>1. tab \in [Tab -> TabType] /\ tab[t] \in TabType
    BY TabTypes DEF PasskeyInv, CeremonyInv
  <1>2. /\ n \in TabType /\ n.pc = "token" /\ n.challenge = tab[t].challenge
        /\ n.item = tab[t].item /\ n.gone = tab[t].gone /\ n.of = tab[t].of
    BY <1>1 DEF TabType
  <1>3. /\ tab' = [tab EXCEPT ![t] = n] /\ tab[t].pc = "check"
        /\ tab[t].item \in items["passkey"]
        /\ UNCHANGED <<vars, load, session, answered, disturbed>>
    BY DEF ValidateLogin, Acceptable
  <1> HIDE DEF n
  <1>4. PasskeyTypeOK'
    <2>1. tab' \in [Tab -> TabType]
      BY <1>1, <1>2, <1>3
    <2>2. QED
      BY <1>3, <2>1 DEF PasskeyInv, CeremonyInv, PasskeyTypeOK, TabType
  <1>5. ASSUME NEW u \in Tab
        PROVE  Sound(u)'
    BY <1>1, <1>2, <1>3 DEF PasskeyInv, CeremonyInv, Sound, Busy, vars
  <1>6. NoCeremony'
    BY <1>3 DEF PasskeyInv, CeremonyInv, NoCeremony
  <1>7. ASSUME NEW d \in Challenge \ disturbed'
        PROVE  AnsweredOnce(d)'
    <2>1. AnsweredOnce(d)
      BY <1>3 DEF PasskeyInv, CeremonyInv
    <2>2. \A u \in Tab : tab'[u].challenge = d => tab[u].challenge = d
      BY <1>1, <1>2, <1>3
    <2>3. \A j \in Ceremony, u \in Tab :
             tab'[u].challenge = d /\ d \in session[j] => u # t
      BY <1>3, <2>1, <2>2 DEF AnsweredOnce
    <2>4. QED
      BY <1>1, <1>3, <2>1, <2>2, <2>3 DEF AnsweredOnce
  <1>8. QED
    BY <1>4, <1>5, <1>6, <1>7 DEF CeremonyInv

\* An enrolment, after which the passkey is not gone any more for anybody.
LEMMA CreateNext ==
    ASSUME PasskeyInv, NEW t \in Tab, NEW r \in Req, CreateCredential(t, r)
    PROVE  CeremonyInv'
  <1> DEFINE x == tab[t].item
             c == tab[t].challenge
  <1>1. NoTab \in TabType /\ tab \in [Tab -> TabType] /\ tab[t].pc = "check"
    BY NoTabType, TabTypes DEF PasskeyInv, CeremonyInv, CreateCredential
  <1>2. NoTab.pc = "idle" /\ NoTab.challenge = NoChallenge /\ NoTab.gone = FALSE
    BY DEF NoTab
  <1>3. c \in Challenge /\ x \in Item
    BY <1>1 DEF PasskeyInv, CeremonyInv, Sound, Busy
  <1>4. /\ answered' = Counted(c)
        /\ items' = [items EXCEPT !["passkey"] = @ \cup {x}]
        /\ tab' = [u \in Tab |->
                     IF u = t THEN NoTab
                     ELSE [tab[u] EXCEPT !.gone = @ /\ tab[u].item # x]]
        /\ UNCHANGED <<load, session, disturbed>>
    BY DEF CreateCredential, FinishRegistration, Enrol
  <1>5. items' ["passkey"] = items["passkey"] \cup {x}
    BY <1>4 DEF PasskeyInv, TypeOK, Kind
  <1> HIDE DEF x, c
  <1>6. tab'[t] = NoTab
    BY <1>4
  <1>7. ASSUME NEW u \in Tab, u # t
        PROVE  /\ tab'[u] \in TabType
               /\ tab'[u].pc = tab[u].pc /\ tab'[u].of = tab[u].of
               /\ tab'[u].challenge = tab[u].challenge /\ tab'[u].item = tab[u].item
               /\ tab'[u].gone => tab[u].gone /\ tab[u].item # x
    <2>1. tab[u] \in TabType
      BY <1>1
    <2>2. tab'[u] = [tab[u] EXCEPT !.gone = @ /\ tab[u].item # x]
      BY <1>4, <1>7
    <2>3. QED
      BY <2>1, <2>2 DEF TabType
  <1>8. answered \in [Challenge -> 0..2] /\ answered' \in [Challenge -> 0..2]
    <2>1. answered \in [Challenge -> 0..2]
      BY DEF PasskeyInv, CeremonyInv, PasskeyTypeOK
    <2>2. QED
      BY <1>3, <1>4, <2>1 DEF Counted
  <1>9. PasskeyTypeOK'
    <2>1. tab' = [u \in Tab |-> tab'[u]]
      BY <1>4
    <2>2. \A u \in Tab : tab'[u] \in TabType
      BY <1>1, <1>6, <1>7
    <2>3. tab' \in [Tab -> TabType]
      BY <2>1, <2>2
    <2>4. QED
      BY <1>4, <1>8, <2>3 DEF PasskeyInv, CeremonyInv, PasskeyTypeOK, TabType
  <1>10. ASSUME NEW u \in Tab
         PROVE  Sound(u)'
    <2>1. CASE u = t
      BY <1>2, <1>6, <2>1, PasskeyAssumption DEF Sound, Busy
    <2>2. CASE u # t
      BY <1>5, <1>7, <2>2 DEF PasskeyInv, CeremonyInv, Sound, Busy
    <2>3. QED
      BY <2>1, <2>2
  <1>11. NoCeremony'
    BY <1>1, <1>4 DEF PasskeyInv, CeremonyInv, NoCeremony
  <1>12. ASSUME NEW d \in Challenge \ disturbed'
         PROVE  AnsweredOnce(d)'
    <2>1. AnsweredOnce(d) /\ d # NoChallenge
      BY <1>4, PasskeyAssumption DEF PasskeyInv, CeremonyInv
    <2>2. \A u \in Tab : tab'[u].challenge = d =>
             u # t /\ tab[u].challenge = d /\ tab'[u].pc = tab[u].pc /\ tab'[u].of = tab[u].of
      BY <1>2, <1>6, <1>7, <2>1
    <2>3. CASE d = c
      <3>1. answered[d] = 0 /\ \A k \in Ceremony : d \notin session[k]
        BY <1>1, <2>1, <2>3 DEF AnsweredOnce, c
      <3>2. answered'[d] = 1
        BY <1>3, <1>4, <1>8, <2>3, <3>1 DEF Counted
      <3>3. \A u \in Tab : tab'[u].challenge # d
        BY <2>1, <2>2, <2>3 DEF AnsweredOnce, c
      <3>4. QED
        BY <1>4, <3>1, <3>2, <3>3 DEF AnsweredOnce
    <2>4. CASE d # c
      <3>1. answered'[d] = answered[d]
        BY <1>3, <1>4, <1>8, <2>4 DEF Counted
      <3>2. QED
        BY <1>4, <2>1, <2>2, <3>1 DEF AnsweredOnce
    <2>5. QED
      BY <2>3, <2>4
  <1>13. QED
    BY <1>9, <1>10, <1>11, <1>12 DEF CeremonyInv

\* Steps of the factors that are no registration.
LEMMA FactorsNext ==
    ASSUME PasskeyInv, UNCHANGED ceremony,
           load = {"factors"} \/ items' ["passkey"] \subseteq items["passkey"]
    PROVE  CeremonyInv'
  <1>1. UNCHANGED <<load, session, tab, answered, disturbed>>
    BY DEF ceremony
  <1>2. PasskeyTypeOK'
    BY <1>1 DEF PasskeyInv, CeremonyInv, PasskeyTypeOK
  <1>3. \A t \in Tab : Sound(t)'
    BY <1>1 DEF PasskeyInv, CeremonyInv, Sound, NoCeremony
  <1>4. NoCeremony'
    BY <1>1 DEF PasskeyInv, CeremonyInv, NoCeremony
  <1>5. \A c \in Challenge \ disturbed' : AnsweredOnce(c)'
    BY <1>1 DEF PasskeyInv, CeremonyInv, AnsweredOnce
  <1>6. QED
    BY <1>2, <1>3, <1>4, <1>5 DEF CeremonyInv

LEMMA PasskeyInvNext ==
    ASSUME PasskeyInv, [PasskeyNext]_passkeyVars
    PROVE  PasskeyInv'
  <1>1. TypeOK'
    BY FactorStep, FactorTypes DEF PasskeyInv
  <1>2. ASSUME load = {"factors"}, UNCHANGED ceremony
        PROVE  CeremonyInv'
    BY <1>2, FactorsNext
  <1>3. ASSUME NEW r \in Req, Statement(r), UNCHANGED ceremony
        PROVE  CeremonyInv'
    <2>1. items' = items
      BY <1>3
      DEF Statement, EnableTotp, SetTotpSetting, FlagTotp, GenerateCodes,
          UnsetTotpSetting, ReadAnyEnabled, WriteAnyEnabled, SetItemSetting, FlagItem,
          CountLeft, UnsetItemSetting, RecomputeFlag, Abort, Ignore
    <2>2. QED
      BY <1>3, <2>1, FactorsNext
  <1>4. ASSUME NEW r \in Req, NEW x \in Item, DeletePasskey(r, x), UNCHANGED ceremony
        PROVE  CeremonyInv'
    <2>1. items' ["passkey"] \subseteq items["passkey"]
      BY <1>4 DEF DeletePasskey, Withdraw, PasskeyInv, TypeOK, Kind
    <2>2. QED
      BY <1>4, <2>1, FactorsNext
  <1>5. ASSUME NEW t \in Tab,
               PasskeyRegisterBegin(t) \/ PasskeyAuthBegin(t) \/ PasskeyLoginBegin(t)
        PROVE  CeremonyInv'
    BY <1>5, BeginNext
    DEF PasskeyRegisterBegin, PasskeyAuthBegin, PasskeyLoginBegin, Ceremony
  <1>6. ASSUME NEW t \in Tab, StoreFails(t) \/ Refuse(t) \/ GenerateToken(t)
        PROVE  CeremonyInv'
    BY <1>6, LeaveNext DEF StoreFails, Refuse, GenerateToken
  <1>7. ASSUME NEW t \in Tab, NEW c \in Challenge, NEW x \in Item,
               \/ PasskeyRegisterFinish(t, c, x) \/ PasskeyAuthFinish(t, c, x)
               \/ PasskeyLoginFinish(t, c, x)
        PROVE  CeremonyInv'
    BY <1>7, GetNext
    DEF PasskeyRegisterFinish, PasskeyAuthFinish, PasskeyLoginFinish, Ceremony
  <1>8. ASSUME UNCHANGED passkeyVars
        PROVE  CeremonyInv'
    BY <1>8, FactorsNext DEF passkeyVars, ceremony, vars
  <1>9. CeremonyInv'
    BY <1>2, <1>3, <1>4, <1>5, <1>6, <1>7, <1>8, StoreNext, DropNext, ExpireNext,
       ValidateNext, CreateNext
    DEF PasskeyNext
  <1>10. QED
    BY <1>1, <1>9 DEF PasskeyInv

LEMMA PasskeyInvariant == PasskeySpec => []PasskeyInv
  BY PasskeyInvInit, PasskeyInvNext, PTL DEF PasskeySpec

-----------------------------------------------------------------------------
(* The theorems.                                                           *)

\* Rows, summaries, requests, tabs and challenges keep their types.
THEOREM PasskeyTypeCorrect == PasskeySpec => [](TypeOK /\ PasskeyTypeOK)
  <1>1. PasskeyInv => TypeOK /\ PasskeyTypeOK
    BY DEF PasskeyInv, CeremonyInv
  <1>2. QED
    BY <1>1, PasskeyInvariant, PTL

\* The ceremonies do nothing to the factors that MfaFactors does not describe:
\* a finished registration is an enrolment, and everything else leaves the
\* rows alone.
THEOREM CeremoniesKeepFactors == PasskeySpec => Spec
  <1>1. PasskeyInit => Init
    BY DEF PasskeyInit
  <1>2. PasskeyInv /\ [PasskeyNext]_passkeyVars => [Next]_vars
    BY FactorStep
  <1>3. QED
    BY <1>1, <1>2, PasskeyInvariant, PTL DEF PasskeySpec, Spec

\* A passkey removed before a finish comes in admits nobody.
THEOREM RemovedPasskeysStayOut == PasskeySpec => []RemovedPasskeyStaysOut
  <1>1. PasskeyInv => RemovedPasskeyStaysOut
    BY DEF PasskeyInv, CeremonyInv, Sound, RemovedPasskeyStaysOut
  <1>2. QED
    BY <1>1, PasskeyInvariant, PTL

\* A challenge is answered once, unless two finishes got it first.
THEOREM ChallengesAreAnsweredOnce == PasskeySpec => []ChallengeAnsweredOnce
  <1>1. PasskeyInv => ChallengeAnsweredOnce
    BY DEF PasskeyInv, CeremonyInv, AnsweredOnce, ChallengeAnsweredOnce
  <1>2. QED
    BY <1>1, PasskeyInvariant, PTL
LEMMA FactorInvariant == Spec => []FactorInv
  BY FactorInvInit, FactorInvNext, PTL DEF Spec

(***************************************************************************)
(* The four theorems below are about MfaFactors alone; that they hold with *)
(* ceremonies under way too is CeremoniesKeepFactors.                      *)
(***************************************************************************)

\* An authenticator that is on is one the user has shown a code of, or one
\* stored between a verification's read and its UPDATE, however many requests
\* overlap and whatever fails in between.
THEOREM EnabledSecretsAreProven == Spec => []ProvenUnlessOvertaken
  <1>1. FactorInv => ProvenUnlessOvertaken
    BY DEF FactorInv, SecretsProven
  <1>2. QED
    BY <1>1, FactorInvariant, PTL

\* However many verifications and enrolments overlap, and between removals
\* that meet nobody, the flag a login reads says whether some method is on,
\* until a statement fails.
THEOREM FlagIsInStep == Spec => []FlagFollowsSettings
  <1>1. FactorInv => FlagFollowsSettings
    BY DEF FactorInv, Stage, FlagStage, At, Quiet, FlagFollowsSettings
  <1>2. QED
    BY <1>1, FactorInvariant, PTL

\* So does the summary agree with the tables it summarises.
THEOREM SettingsAreInStep == Spec => []SettingsFollowTables
  <1>1. ASSUME FactorInv, Quiet, ~failed, ~raced
        PROVE  /\ settings["passkey"] <=> items["passkey"] # {}
               /\ settings["push"] <=> items["push"] # {}
               /\ totp.enabled => settings["totp"]
    <2>1. Stage /\ "passkey" \in Kind /\ "push" \in Kind
      BY <1>1 DEF FactorInv, Kind
    <2>2. QED
      BY <1>1, <2>1 DEF Stage, ItemStage, TotpStage, At, AtFor, Quiet
  <1>2. FactorInv => SettingsFollowTables
    BY <1>1 DEF SettingsFollowTables
  <1>3. QED
    BY <1>2, FactorInvariant, PTL

\* And a user of whom a login demands a second factor has one or has recovery
\* codes left, unless she has used them all and begun the set-up of TOTP anew.
THEOREM UsersHaveAWayIn == Spec => []WayIn
  <1>1. ASSUME FactorInv, Quiet, ~failed, ~raced, mfaEnabled, ~totp.enabled,
               \A k \in Kind : items[k] = {}
        PROVE  codes = "left" \/ BeganAnewWithoutCodes
    <2>1. Stage /\ TypeOK /\ "passkey" \in Kind /\ "push" \in Kind
      BY <1>1 DEF FactorInv, Kind
    <2>2. settings["totp"] \/ settings["passkey"] \/ settings["push"]
      BY <1>1, <2>1, AnyMethodIs DEF Stage, FlagStage, At, Quiet
    <2>3. settings["totp"]
      BY <1>1, <2>1, <2>2 DEF Stage, ItemStage, AtFor, Quiet
    <2>4. codes # "none" /\ Anew
      BY <1>1, <2>1, <2>3 DEF Stage, TotpStage, At, Quiet
    <2>5. QED
      BY <2>1, <2>4 DEF TypeOK, Anew, BeganAnewWithoutCodes
  <1>2. FactorInv => WayIn
    BY <1>1 DEF WayIn
  <1>3. QED
    BY <1>2, FactorInvariant, PTL

-----------------------------------------------------------------------------
(* The one-time passwords.                                                 *)

\* The key is absent, or holds a code.
KeySound ==
    /\ stored.ttl = 0 => stored = NoEntry
    /\ stored.ttl > 0 => stored.otp \in Otp

\* What a verification read, and what it is going to write.
VerifierSound(v) ==
    /\ verify[v].pc = "idle" => verify[v] = NoGuess
    /\ verify[v].pc # "idle" => verify[v].otp \in Otp
    /\ verify[v].pc \in {"wrong", "restore"} => verify[v].attempts < MaxAttempts

SenderSound(s) ==
    /\ send[s].pc = "idle" => send[s] = Rest
    /\ send[s].pc # "idle" => send[s].otp \in drawn

\* Nobody has heard of a code before it is stored.
Unheard(o) ==
    /\ stored.otp # o
    /\ \A v \in Verifier : verify[v].otp # o
    /\ wrong[o] = 0 /\ accepted[o] = 0

Unsent(o) ==
    /\ o \notin drawn => Unheard(o)
    /\ \A s \in Sender : send[s].pc = "store" /\ send[s].otp = o =>
          /\ Unheard(o)
          /\ \A q \in Sender : send[q].otp = o => q = s

\* What the verification that has read code o knows of it.  What was lost makes
\* up for the guesses and the use that the key does not know of.
Holds(v, o) ==
    /\ verify[v].pc # "answer" \/ flow = "email" => accepted[o] <= lost[o]
    /\ verify[v].pc = "wrong" => wrong[o] <= verify[v].attempts + lost[o]
    /\ verify[v].pc \in {"drop", "restore"} =>
          wrong[o] + 1 <= verify[v].attempts + lost[o]
    /\ verify[v].pc = "restore" /\ verify[v].ttl = 0 /\ stored.otp = o =>
          wrong[o] + 1 <= stored.attempts + lost[o]
    /\ verify[v].pc = "answer" /\ flow = "email" /\ stored.otp = o =>
          accepted[o] + 1 <= lost[o]

\* A code that can still be used has not been, and the key counts its guesses.
OnceOnly(o) ==
    /\ accepted[o] <= 1 + lost[o]
    /\ wrong[o] <= MaxAttempts + lost[o]
    /\ stored.otp = o => wrong[o] <= stored.attempts + lost[o]
    /\ stored.otp = o /\ (\A v \in Verifier : verify[v].otp # o) => accepted[o] <= lost[o]
    /\ \A v, w \in Verifier : verify[v].otp = o /\ verify[w].otp = o => v = w
    /\ \A v \in Verifier : verify[v].otp = o => Holds(v, o)

OtpInv ==
    /\ OtpTypeOK
    /\ KeySound
    /\ \A v \in Verifier : VerifierSound(v)
    /\ \A s \in Sender : SenderSound(s)
    /\ \A o \in Otp : Unsent(o)
    /\ \A o \in Otp \ contested : OnceOnly(o)

LEMMA OtpTypes ==
    /\ MaxAttempts \in Nat /\ MaxAttempts > 0
    /\ OtpTTL \in Nat /\ OtpTTL > 0
    /\ CooldownTTL \in Nat /\ CooldownTTL > 0
    /\ MaxLost \in Nat
    /\ NoOtp \notin Otp
    /\ NoEntry \in Entry
  <1>1. /\ MaxAttempts \in Nat /\ MaxAttempts > 0
        /\ OtpTTL \in Nat /\ OtpTTL > 0
        /\ CooldownTTL \in Nat /\ CooldownTTL > 0
        /\ NoOtp \notin Otp /\ MaxLost \in Nat
    BY OtpAssumption
  <1>2. 0 \in 0..(MaxAttempts - 1) /\ 0 \in 0..OtpTTL
    BY <1>1
  <1>3. QED
    BY <1>1, <1>2 DEF NoEntry, Entry

LEMMA OtpInvInit ==
    ASSUME OtpInit
    PROVE  OtpInv
  <1>1. OtpTypeOK
    <2>1. 0 \in 0..MaxAttempts /\ 0 \in 0..OtpTTL /\ 0 \in 0..CooldownTTL
          /\ CooldownTTL \in 0..CooldownTTL /\ 0 \in 0..MaxLost
      BY OtpTypes
    <2>2. QED
      BY <2>1, OtpTypes DEF OtpInit, OtpTypeOK, Rest, NoGuess
  <1>2. KeySound
    BY DEF OtpInit, KeySound, NoEntry
  <1>3. (\A v \in Verifier : VerifierSound(v)) /\ \A s \in Sender : SenderSound(s)
    BY DEF OtpInit, VerifierSound, SenderSound, NoGuess, Rest
  <1>4. \A o \in Otp : Unsent(o) /\ OnceOnly(o)
    BY OtpTypes
    DEF OtpInit, Unsent, Unheard, OnceOnly, NoEntry, NoGuess, Rest
  <1>5. QED
    BY <1>1, <1>2, <1>3, <1>4 DEF OtpInv

VType == [pc : {"idle", "wrong", "drop", "restore", "right", "answer"},
          otp : Otp \cup {NoOtp}, attempts : 0..MaxAttempts, ttl : 0..OtpTTL]

SType == [pc : {"idle", "store", "cool", "deliver"}, otp : Otp \cup {NoOtp},
          age : 0..CooldownTTL]

LEMMA OtpRequests ==
    ASSUME OtpTypeOK
    PROVE  /\ verify \in [Verifier -> VType]
           /\ send \in [Sender -> SType]
           /\ NoGuess \in VType
           /\ Rest \in SType
           /\ wrong \in [Otp -> Nat] /\ accepted \in [Otp -> Nat]
           /\ lost \in [Otp -> 0..MaxLost] /\ lost \in [Otp -> Nat]
           /\ stored \in Entry
           /\ \A p \in {"drop", "restore", "answer"}, q \in VType :
                 [q EXCEPT !.pc = p] \in VType
  <1>1. verify \in [Verifier -> VType] /\ send \in [Sender -> SType]
    BY DEF OtpTypeOK, VType, SType
  <1>2. 0 \in 0..MaxAttempts /\ 0 \in 0..OtpTTL /\ 0 \in 0..CooldownTTL
    BY OtpTypes
  <1>3. NoGuess \in VType /\ Rest \in SType
    BY <1>2 DEF NoGuess, Rest, VType, SType
  <1>4. ASSUME NEW p \in {"drop", "restore", "answer"}, NEW q \in VType
        PROVE  [q EXCEPT !.pc = p] \in VType
    BY DEF VType
  <1>5. lost \in [Otp -> 0..MaxLost] /\ lost \in [Otp -> Nat]
    BY OtpTypes DEF OtpTypeOK
  <1>6. QED
    BY <1>1, <1>3, <1>4, <1>5 DEF OtpTypeOK

\* A sender that keeps its code, or gives it up, past the SET of the code.
LEMMA SendMoves ==
    ASSUME OtpInv, NEW s \in Sender, NEW n \in SType,
           send' = [send EXCEPT ![s] = n],
           n = Rest \/ (n.pc \in {"cool", "deliver"} /\ n.otp = send[s].otp /\ send[s].pc # "idle"),
           cooldown' \in 0..CooldownTTL, apart' \in [Sender -> 0..CooldownTTL],
           lax' \in BOOLEAN,
           UNCHANGED <<flow, stored, verify, drawn, contested, lost, wrong, accepted>>
    PROVE  OtpInv'
  <1> USE OtpTypes, OtpRequests
  <1>1. OtpTypeOK
    BY DEF OtpInv
  <1>2. OtpTypeOK'
    <2>1. send' \in [Sender -> SType]
      BY <1>1
    <2>2. QED
      BY <1>1, <2>1 DEF OtpTypeOK, SType
  <1>3. KeySound' /\ \A v \in Verifier : VerifierSound(v)'
    BY DEF OtpInv, KeySound, VerifierSound
  <1>4. \A q \in Sender : SenderSound(q)'
    BY <1>1 DEF OtpInv, SenderSound, Rest
  <1>5. ASSUME NEW k \in Otp
        PROVE  Unsent(k)'
    <2>1. Unheard(k)' <=> Unheard(k)
      BY DEF Unheard
    <2>2. \A q \in Sender : send'[q].otp = k => send[q].otp = k
      BY <1>1 DEF Rest
    <2>3. \A q \in Sender : send'[q].pc = "store" => send'[q] = send[q]
      BY <1>1 DEF Rest
    <2>4. QED
      BY <2>1, <2>2, <2>3 DEF OtpInv, Unsent
  <1>6. \A k \in Otp \ contested' : OnceOnly(k)'
    BY DEF OtpInv, OnceOnly, Holds
  <1>7. QED
    BY <1>2, <1>3, <1>4, <1>5, <1>6 DEF OtpInv

\* A code nobody has heard of is drawn.
LEMMA DrawNext ==
    ASSUME OtpInv, NEW s \in Sender, Draw(s), lax' \in BOOLEAN,
           UNCHANGED <<flow, stored, cooldown, apart, guessing>>
    PROVE  OtpInv'
  <1> USE OtpTypes, OtpRequests
  <1>0. OtpTypeOK
    BY DEF OtpInv
  <1> DEFINE N(o) == [Rest EXCEPT !.pc = "store", !.otp = o]
  <1>1. PICK o \in Otp \ drawn :
           send' = [send EXCEPT ![s] = N(o)] /\ drawn' = drawn \cup {o}
    BY DEF Draw
  <1>2. UNCHANGED <<flow, stored, cooldown, verify, apart, contested, lost, wrong, accepted>>
    BY DEF guessing
  <1>3. N(o) \in SType /\ N(o).pc = "store" /\ N(o).otp = o
    BY <1>0 DEF SType, Rest
  <1> DEFINE n == N(o)
  <1> HIDE DEF N
  <1>4. OtpTypeOK'
    <2>1. send' \in [Sender -> SType]
      BY <1>0, <1>1, <1>3
    <2>2. QED
      BY <1>0, <1>1, <1>2, <2>1 DEF OtpTypeOK, SType
  <1>5. KeySound' /\ \A v \in Verifier : VerifierSound(v)'
    BY <1>2 DEF OtpInv, KeySound, VerifierSound
  <1>6. ASSUME NEW q \in Sender
        PROVE  SenderSound(q)'
    BY <1>0, <1>1, <1>3 DEF OtpInv, SenderSound
  <1>7. ASSUME NEW q \in Sender, send[q].otp = o
        PROVE  FALSE
    BY <1>7 DEF OtpInv, SenderSound, Rest
  <1>8. ASSUME NEW k \in Otp
        PROVE  Unsent(k)'
    <2>1. Unheard(k)' <=> Unheard(k)
      BY <1>2 DEF Unheard
    <2>2. ASSUME k \notin drawn'
          PROVE  Unheard(k)
      BY <1>1, <2>2 DEF OtpInv, Unsent
    <2>3. ASSUME NEW q \in Sender, send'[q].pc = "store", send'[q].otp = k
          PROVE  /\ Unheard(k)
                 /\ \A z \in Sender : send'[z].otp = k => z = q
      <3>1. CASE k = o
        <4>1. \A z \in Sender : send'[z].otp = o => z = s
          BY <1>0, <1>1, <1>7
        <4>2. Unheard(o)
          BY <1>1 DEF OtpInv, Unsent
        <4>3. QED
          BY <2>3, <3>1, <4>1, <4>2
      <3>2. CASE k # o
        <4>1. \A z \in Sender : send'[z].otp = k => z # s /\ send'[z] = send[z]
          BY <1>0, <1>1, <1>3, <3>2
        <4>2. QED
          BY <2>3, <4>1 DEF OtpInv, Unsent
      <3>3. QED
        BY <3>1, <3>2
    <2>4. QED
      BY <2>1, <2>2, <2>3 DEF Unsent
  <1>9. \A k \in Otp \ contested' : OnceOnly(k)'
    BY <1>2 DEF OtpInv, OnceOnly, Holds
  <1>10. QED
    BY <1>4, <1>5, <1>6, <1>8, <1>9 DEF OtpInv

\* It is stored, and from now on the key knows it.
LEMMA StoreOtpNext ==
    ASSUME OtpInv, NEW s \in Sender, StoreOtp(s), stored' # stored
    PROVE  OtpInv'
  <1> USE OtpTypes, OtpRequests
  <1>0. OtpTypeOK
    BY DEF OtpInv
  <1> DEFINE o == send[s].otp
             n == [send[s] EXCEPT !.pc = "cool"]
  <1>1. /\ send[s].pc = "store"
        /\ stored' = [otp |-> o, attempts |-> 0, ttl |-> OtpTTL]
        /\ send' = [send EXCEPT ![s] = n]
        /\ UNCHANGED <<flow, cooldown, verify, drawn, apart, lax, contested, lost, wrong, accepted>>
    BY DEF StoreOtp, guessing
  <1>2. n \in SType /\ n.pc = "cool" /\ n.otp = o
    BY <1>0 DEF SType
  <1>3. o \in drawn /\ o \in Otp
    BY <1>0, <1>1 DEF OtpInv, SenderSound, OtpTypeOK
  <1>4. Unheard(o) /\ \A q \in Sender : send[q].otp = o => q = s
    BY <1>1, <1>3 DEF OtpInv, Unsent
  <1> HIDE DEF o, n
  <1>5. stored' \in Entry
    <2>1. 0 \in 0..(MaxAttempts - 1) /\ OtpTTL \in 0..OtpTTL
      OBVIOUS
    <2>2. QED
      BY <1>1, <1>3, <2>1 DEF Entry
  <1>6. OtpTypeOK'
    <2>1. send' \in [Sender -> SType]
      BY <1>0, <1>1, <1>2
    <2>2. QED
      BY <1>0, <1>1, <1>5, <2>1 DEF OtpTypeOK, SType
  <1>7. KeySound' /\ \A v \in Verifier : VerifierSound(v)'
    BY <1>1, <1>3 DEF OtpInv, KeySound, VerifierSound
  <1>8. ASSUME NEW q \in Sender
        PROVE  SenderSound(q)'
    BY <1>0, <1>1, <1>2, <1>3 DEF OtpInv, SenderSound
  <1>9. ASSUME NEW k \in Otp
        PROVE  Unsent(k)'
    <2>1. ASSUME k # o, Unheard(k)
          PROVE  Unheard(k)'
      BY <1>1, <2>1 DEF Unheard
    <2>2. ASSUME NEW q \in Sender, send'[q].pc = "store", send'[q].otp = k
          PROVE  /\ Unheard(k)'
                 /\ \A z \in Sender : send'[z].otp = k => z = q
      <3>1. q # s /\ send'[q] = send[q]
        BY <1>0, <1>1, <1>2, <2>2
      <3>2. k # o
        BY <1>4, <2>2, <3>1
      <3>3. Unheard(k) /\ \A z \in Sender : send[z].otp = k => z = q
        BY <2>2, <3>1 DEF OtpInv, Unsent
      <3>4. \A z \in Sender : send'[z].otp = send[z].otp
        BY <1>0, <1>1, <1>2 DEF o
      <3>5. QED
        BY <2>1, <3>2, <3>3, <3>4
    <2>3. ASSUME k \notin drawn'
          PROVE  Unheard(k)'
      <3>1. Unheard(k) /\ k # o
        BY <1>1, <1>3, <2>3 DEF OtpInv, Unsent
      <3>2. QED
        BY <2>1, <3>1
    <2>4. QED
      BY <2>2, <2>3 DEF Unsent
  <1>10. ASSUME NEW k \in Otp \ contested'
         PROVE  OnceOnly(k)'
    <2>1. OnceOnly(k)
      BY <1>1 DEF OtpInv
    <2>2. CASE k = o
      <3>1. wrong[k] = 0 /\ accepted[k] = 0 /\ lost[k] \in Nat
        BY <1>0, <1>4, <2>2 DEF Unheard
      <3>2. \A v \in Verifier : verify'[v].otp # k
        BY <1>1, <1>4, <2>2 DEF Unheard
      <3>3. UNCHANGED <<wrong, accepted, lost>> /\ stored'.attempts = 0
        BY <1>1
      <3>4. QED
        BY <3>1, <3>2, <3>3 DEF OnceOnly
    <2>3. CASE k # o
      <3>1. stored'.otp # k
        BY <1>1, <2>3
      <3>2. QED
        BY <1>1, <2>1, <3>1 DEF OnceOnly, Holds
    <2>4. QED
      BY <2>2, <2>3
  <1>11. QED
    BY <1>6, <1>7, <1>8, <1>9, <1>10 DEF OtpInv

LEMMA SendNext ==
    ASSUME OtpInv, NEW s \in Sender,
           \/ CheckCooldown(s) \/ CooldownUnread(s) \/ StoreOtp(s)
           \/ SetCooldown(s) \/ Deliver(s) \/ SenderDies(s)
    PROVE  OtpInv'
  <1> USE OtpTypes, OtpRequests
  <1>0. OtpTypeOK
    BY DEF OtpInv
  <1>1. send[s] \in SType
    BY <1>0
  <1>2. cooldown \in 0..CooldownTTL /\ apart \in [Sender -> 0..CooldownTTL] /\ lax \in BOOLEAN
    BY <1>0 DEF OtpTypeOK
  <1>3. ASSUME CheckCooldown(s) \/ CooldownUnread(s)
        PROVE  OtpInv'
    <2>1. Draw(s) /\ lax' \in BOOLEAN /\ UNCHANGED <<flow, stored, cooldown, apart, guessing>>
      BY <1>2, <1>3 DEF CheckCooldown, CooldownUnread
    <2>2. QED
      BY <2>1, DrawNext
  <1>4. ASSUME NEW p \in {"cool", "deliver"}
        PROVE  /\ [send[s] EXCEPT !.pc = p] \in SType
               /\ [send[s] EXCEPT !.pc = p].pc = p
               /\ [send[s] EXCEPT !.pc = p].otp = send[s].otp
    BY <1>1 DEF SType
  <1>5. ASSUME StoreOtp(s), stored' = stored
        PROVE  OtpInv'
    <2>1. /\ send' = [send EXCEPT ![s] = [send[s] EXCEPT !.pc = "cool"]] /\ send[s].pc # "idle"
          /\ UNCHANGED <<flow, stored, cooldown, verify, drawn, apart, lax, contested, lost,
                         wrong, accepted>>
      BY <1>5 DEF StoreOtp, guessing
    <2>2. QED
      BY <1>2, <1>4, <2>1, SendMoves
  <1>6. ASSUME SetCooldown(s)
        PROVE  OtpInv'
    <2>1. /\ send' = [send EXCEPT ![s] = [send[s] EXCEPT !.pc = "deliver"]] /\ send[s].pc # "idle"
          /\ UNCHANGED <<flow, stored, verify, drawn, apart, contested, lost, wrong, accepted>>
      BY <1>6 DEF SetCooldown, guessing
    <2>2. CooldownTTL \in 0..CooldownTTL
      OBVIOUS
    <2>3. cooldown' \in 0..CooldownTTL /\ lax' \in BOOLEAN
      BY <1>2, <1>6, <2>2 DEF SetCooldown
    <2>4. QED
      BY <1>2, <1>4, <2>1, <2>3, SendMoves
  <1>7. ASSUME Deliver(s) \/ SenderDies(s)
        PROVE  OtpInv'
    <2>1. send[s].age \in 0..CooldownTTL
      BY <1>1 DEF SType
    <2>2. /\ send' = [send EXCEPT ![s] = Rest]
          /\ apart' \in [Sender -> 0..CooldownTTL]
          /\ UNCHANGED <<flow, stored, cooldown, verify, drawn, lax, contested, lost, wrong,
                         accepted>>
      BY <1>2, <1>7, <2>1 DEF Deliver, SenderDies, guessing
    <2>3. Rest \in SType
      BY <1>0
    <2>4. QED
      BY <1>2, <2>2, <2>3, SendMoves
  <1>8. QED
    BY <1>3, <1>5, <1>6, <1>7, StoreOtpNext

-----------------------------------------------------------------------------
(* Verifications.                                                          *)

\* A step of a verification touches the code it has read, and no other.
LEMMA VerifyFrame ==
    ASSUME OtpInv, NEW v \in Verifier, NEW n \in VType,
           NEW p \in Otp, p = verify[v].otp,
           verify' = [verify EXCEPT ![v] = n], n.otp \in {p, NoOtp},
           VerifierSound(v)',
           stored' \in Entry, KeySound',
           stored' = stored \/ stored'.otp \in {p, NoOtp},
           wrong' \in [Otp -> Nat], accepted' \in [Otp -> Nat],
           lost' \in [Otp -> 0..MaxLost],
           \A k \in Otp : k # p =>
              wrong'[k] = wrong[k] /\ accepted'[k] = accepted[k] /\ lost'[k] = lost[k],
           UNCHANGED <<flow, cooldown, send, drawn, apart, lax, contested>>,
           p \notin contested => OnceOnly(p)'
    PROVE  OtpInv'
  <1> USE OtpTypes, OtpRequests
  <1>1. OtpTypeOK
    BY DEF OtpInv
  <1>2. OtpTypeOK'
    <2>1. verify' \in [Verifier -> VType]
      BY <1>1
    <2>2. QED
      BY <1>1, <2>1 DEF OtpTypeOK, VType
  <1>3. \A w \in Verifier : VerifierSound(w)'
    BY <1>1 DEF OtpInv, VerifierSound
  <1>4. \A s \in Sender : SenderSound(s)'
    BY DEF OtpInv, SenderSound
  <1>5. \A k \in Otp, w \in Verifier : k # p /\ verify'[w].otp = k => verify'[w] = verify[w]
    BY <1>1
  <1>6. ASSUME NEW k \in Otp
        PROVE  Unsent(k)'
    <2>1. ASSUME Unheard(k)
          PROVE  Unheard(k)'
      <3>1. k # p
        BY <2>1 DEF Unheard
      <3>2. QED
        BY <1>5, <2>1, <3>1 DEF Unheard
    <2>2. QED
      BY <2>1 DEF OtpInv, Unsent
  <1>7. ASSUME NEW k \in Otp \ contested'
        PROVE  OnceOnly(k)'
    <2>1. CASE k = p
      BY <1>7, <2>1
    <2>2. CASE k # p
      <3>1. OnceOnly(k)
        BY <1>7 DEF OtpInv
      <3>2. stored'.otp = k => stored' = stored
        BY <2>2
      <3>3. wrong'[k] = wrong[k] /\ accepted'[k] = accepted[k] /\ lost'[k] = lost[k]
        BY <2>2
      <3>4. \A w \in Verifier : verify[w].otp = k <=> verify'[w].otp = k
        BY <1>1, <1>5, <2>2
      <3>5. ASSUME NEW w \in Verifier, verify'[w].otp = k
            PROVE  Holds(w, k)'
        <4>1. Holds(w, k) /\ verify'[w] = verify[w]
          BY <1>5, <2>2, <3>1, <3>4, <3>5 DEF OnceOnly
        <4>2. QED
          BY <3>2, <3>3, <4>1 DEF Holds
      <3>6. QED
        BY <3>1, <3>2, <3>3, <3>4, <3>5 DEF OnceOnly
    <2>3. QED
      BY <2>1, <2>2
  <1>8. QED
    BY <1>2, <1>3, <1>4, <1>6, <1>7 DEF OtpInv

\* The first to read a code knows its count; the second contests it.
LEMMA ReadNext ==
    ASSUME OtpInv, NEW v \in Verifier, ReadOtp(v)
    PROVE  OtpInv'
  <1> USE OtpTypes, OtpRequests
  <1> DEFINE o == stored.otp
  <1>1. OtpTypeOK
    BY DEF OtpInv
  <1>2. PICK d \in {"wrong", "right"} :
           verify' = [verify EXCEPT ![v] =
                        [NoGuess EXCEPT !.pc = d, !.otp = o, !.attempts = stored.attempts]]
    BY DEF ReadOtp
  <1> DEFINE n == [NoGuess EXCEPT !.pc = d, !.otp = o, !.attempts = stored.attempts]
  <1>3. /\ verify[v].pc = "idle" /\ o \in Otp
        /\ (\E w \in Verifier : verify[w].otp = o) => contested' = contested \cup {o}
        /\ contested \subseteq contested' /\ contested' \subseteq contested \cup {o}
        /\ UNCHANGED <<flow, stored, cooldown, send, drawn, apart, lax, lost, wrong, accepted>>
    BY DEF ReadOtp, OtpInv, KeySound, spacing
  <1>4. stored.attempts \in 0..MaxAttempts /\ stored.attempts < MaxAttempts
    BY <1>1 DEF Entry
  <1>5. n \in VType /\ n.pc = d /\ n.otp = o /\ n.attempts = stored.attempts
    <2>1. 0 \in 0..OtpTTL
      OBVIOUS
    <2>2. QED
      BY <1>3, <1>4, <2>1 DEF NoGuess, VType
  <1> HIDE DEF o, n
  <1>6. verify' = [verify EXCEPT ![v] = n]
    BY <1>2 DEF n, o
  <1>7. OtpTypeOK'
    <2>1. verify' \in [Verifier -> VType]
      BY <1>1, <1>5, <1>6
    <2>2. contested' \subseteq Otp
      BY <1>1, <1>3 DEF OtpTypeOK
    <2>3. QED
      BY <1>1, <1>3, <2>1, <2>2 DEF OtpTypeOK, VType
  <1>8. ASSUME NEW w \in Verifier
        PROVE  VerifierSound(w)'
    BY <1>1, <1>3, <1>4, <1>5, <1>6 DEF OtpInv, VerifierSound
  <1>9. KeySound' /\ \A s \in Sender : SenderSound(s)'
    BY <1>3 DEF OtpInv, KeySound, SenderSound
  <1>10. \A k \in Otp, w \in Verifier : k # o /\ verify'[w].otp = k => verify'[w] = verify[w]
    BY <1>1, <1>5, <1>6
  <1>11. ASSUME NEW k \in Otp
         PROVE  Unsent(k)'
    <2>1. ASSUME Unheard(k)
          PROVE  Unheard(k)'
      <3>1. k # o
        BY <2>1 DEF Unheard, o
      <3>2. QED
        BY <1>3, <1>10, <2>1, <3>1 DEF Unheard
    <2>2. QED
      BY <1>3, <2>1 DEF OtpInv, Unsent
  <1>12. ASSUME NEW k \in Otp \ contested'
         PROVE  OnceOnly(k)'
    <2>1. OnceOnly(k)
      BY <1>3 DEF OtpInv
    <2>2. CASE k = o
      <3>1. \A w \in Verifier : verify[w].otp # o
        BY <1>3, <2>2
      <3>2. \A w \in Verifier : verify'[w].otp = o => w = v
        BY <1>1, <1>6, <3>1
      <3>3. verify'[v] = n
        BY <1>1, <1>6
      <3>4. accepted[k] <= lost[k] /\ wrong[k] <= stored.attempts + lost[k]
        BY <2>1, <2>2, <3>1 DEF OnceOnly, o
      <3>5. verify'[v].pc = d /\ verify'[v].attempts = stored.attempts
        BY <1>5, <3>3
      <3>6. Holds(v, k)'
        BY <1>2, <1>3, <3>4, <3>5 DEF Holds
      <3>7. verify'[v].otp = k
        BY <1>5, <2>2, <3>3
      <3>8. QED
        BY <1>3, <2>1, <2>2, <3>2, <3>6, <3>7 DEF OnceOnly
    <2>3. CASE k # o
      <3>1. \A w \in Verifier : verify'[w].otp = k => verify'[w] = verify[w]
        BY <1>10, <2>3
      <3>2. stored'.otp # k
        BY <1>3, <2>3 DEF o
      <3>3. QED
        BY <1>3, <2>1, <3>1, <3>2 DEF OnceOnly, Holds
    <2>4. QED
      BY <2>2, <2>3
  <1>13. QED
    BY <1>7, <1>8, <1>9, <1>11, <1>12 DEF OtpInv

\* What a verification past its GET may rely on, and what it is to leave.
LEMMA InHand ==
    ASSUME OtpInv, NEW v \in Verifier, verify[v].pc # "idle",
           NEW p, p = verify[v].otp
    PROVE  /\ p \in Otp /\ p # NoOtp
           /\ stored.otp = NoOtp \/ stored.ttl > 0
           /\ p \notin contested =>
                 /\ Holds(v, p)
                 /\ accepted[p] <= 1 + lost[p]
                 /\ wrong[p] <= MaxAttempts + lost[p]
                 /\ stored.otp = p => wrong[p] <= stored.attempts + lost[p]
                 /\ \A w \in Verifier : verify[w].otp = p => w = v
  <1>1. p \in Otp /\ p # NoOtp
    BY OtpTypes DEF OtpInv, VerifierSound
  <1>2. stored.otp = NoOtp \/ stored.ttl > 0
    BY OtpTypes DEF OtpInv, KeySound, NoEntry, OtpTypeOK, Entry
  <1>3. QED
    BY <1>1, <1>2 DEF OtpInv, OnceOnly

LEMMA EmptyKey == NoEntry.otp = NoOtp /\ NoEntry.ttl = 0
  BY DEF NoEntry

\* How a verification of code p ends: by dying, with the answer that the guess
\* was wrong, or with what is left to do once it was right.  What it was to
\* write about the code is written or lost.
Loses(p) == lost[p] < MaxLost /\ lost' = [lost EXCEPT ![p] = @ + 1]

Dies(v, p) ==
    /\ UNCHANGED <<stored, wrong, accepted>>
    /\ \/ Loses(p)
       \/ UNCHANGED lost /\ (verify[v].pc # "answer" \/ flow = "email")

AnswersWrong(v, p) ==
    /\ wrong' = [wrong EXCEPT ![p] = @ + 1]
    /\ verify[v].pc \in {"drop", "restore"}
    /\ UNCHANGED accepted
    /\ \/ stored' = NoEntry /\ UNCHANGED lost
       \/ Loses(p) /\ UNCHANGED stored
       \/ verify[v].pc = "restore" /\ verify[v].ttl = 0 /\ UNCHANGED <<stored, lost>>
       \/ /\ stored'.otp = p /\ stored'.attempts = verify[v].attempts
          /\ UNCHANGED lost

AnswersRight(v, p) ==
    /\ verify[v].pc = "answer"
    /\ UNCHANGED wrong
    /\ \/ /\ flow = "email"
          /\ accepted' = [accepted EXCEPT ![p] = @ + 1]
          /\ UNCHANGED <<stored, lost>>
       \/ UNCHANGED <<accepted, lost>> /\ stored' = NoEntry
       \/ UNCHANGED <<accepted, stored>> /\ Loses(p)

Ends(v, p) == Dies(v, p) \/ AnswersWrong(v, p) \/ AnswersRight(v, p)

\* The one code it is about.
LEMMA EndsWell ==
    ASSUME OtpInv, NEW v \in Verifier, verify[v].pc # "idle",
           NEW p, p = verify[v].otp, p \notin contested, Ends(v, p),
           UNCHANGED <<flow, contested>>,
           \A w \in Verifier : verify'[w].otp # p
    PROVE  OnceOnly(p)'
  <1> USE OtpTypes, OtpRequests
  <1>1. OtpTypeOK
    BY DEF OtpInv
  <1>2. p \in Otp /\ p # NoOtp
    BY InHand
  <1>3. PICK a \in Nat, w \in Nat, l \in Nat : a = accepted[p] /\ w = wrong[p] /\ l = lost[p]
    BY <1>1, <1>2
  <1>4. PICK g \in 0..MaxAttempts : g = verify[v].attempts
    BY <1>1 DEF VType
  <1>5. /\ a <= 1 + l /\ w <= MaxAttempts + l
        /\ stored.otp = p => w <= stored.attempts + l
        /\ verify[v].pc # "answer" \/ flow = "email" => a <= l
        /\ verify[v].pc \in {"drop", "restore"} => w + 1 <= g + l
        /\ verify[v].pc = "restore" /\ verify[v].ttl = 0 /\ stored.otp = p =>
              w + 1 <= stored.attempts + l
        /\ verify[v].pc = "answer" /\ flow = "email" /\ stored.otp = p => a + 1 <= l
    BY <1>3, <1>4, InHand DEF Holds
  <1>6. Loses(p) => lost'[p] = l + 1
    BY <1>1, <1>2, <1>3 DEF Loses
  <1>7. stored.attempts \in Nat
    BY <1>1 DEF Entry
  <1>8. SUFFICES
          /\ accepted'[p] <= 1 + lost'[p] /\ wrong'[p] <= MaxAttempts + lost'[p]
          /\ stored'.otp = p =>
                wrong'[p] <= stored'.attempts + lost'[p] /\ accepted'[p] <= lost'[p]
    BY DEF OnceOnly
  <1>9. CASE Dies(v, p)
    BY <1>3, <1>5, <1>6, <1>7, <1>9 DEF Dies
  <1>10. CASE AnswersWrong(v, p)
    <2>1. /\ wrong'[p] = w + 1 /\ accepted'[p] = a /\ a <= l /\ w + 1 <= g + l
          /\ lost'[p] = l \/ lost'[p] = l + 1
      BY <1>1, <1>2, <1>3, <1>5, <1>6, <1>10 DEF AnswersWrong
    <2>2. ASSUME stored'.otp = p
          PROVE  wrong'[p] <= stored'.attempts + lost'[p]
      <3>1. CASE Loses(p) /\ UNCHANGED stored
        BY <1>3, <1>5, <1>6, <1>7, <2>1, <2>2, <3>1
      <3>2. CASE verify[v].pc = "restore" /\ verify[v].ttl = 0 /\ UNCHANGED <<stored, lost>>
        BY <1>3, <1>5, <2>1, <2>2, <3>2
      <3>3. CASE stored'.attempts = g /\ UNCHANGED lost
        BY <1>3, <2>1, <3>3
      <3>4. QED
        BY <1>2, <1>4, <1>10, <2>2, <3>1, <3>2, <3>3, EmptyKey DEF AnswersWrong
    <2>3. accepted'[p] <= lost'[p] /\ accepted'[p] <= 1 + lost'[p]
      BY <1>3, <2>1
    <2>4. wrong'[p] <= MaxAttempts + lost'[p]
      BY <1>3, <1>4, <2>1
    <2>5. QED
      BY <2>2, <2>3, <2>4
  <1>11. CASE AnswersRight(v, p)
    <2>1. wrong'[p] = w /\ verify[v].pc = "answer"
      BY <1>3, <1>11 DEF AnswersRight
    <2>2. CASE /\ flow = "email" /\ UNCHANGED <<stored, lost>>
               /\ accepted' = [accepted EXCEPT ![p] = @ + 1]
      <3>1. accepted'[p] = a + 1 /\ lost'[p] = l
        BY <1>1, <1>2, <1>3, <2>2
      <3>2. QED
        BY <1>3, <1>5, <1>7, <2>1, <2>2, <3>1
    <2>3. CASE UNCHANGED <<accepted, lost>> /\ stored' = NoEntry
      <3>1. accepted'[p] = a /\ lost'[p] = l /\ stored'.otp # p
        BY <1>2, <1>3, <2>3, EmptyKey
      <3>2. QED
        BY <1>3, <1>5, <2>1, <3>1
    <2>4. CASE UNCHANGED <<accepted, stored>> /\ Loses(p)
      <3>1. accepted'[p] = a /\ lost'[p] = l + 1
        BY <1>3, <1>6, <2>4
      <3>2. QED
        BY <1>3, <1>5, <1>7, <2>1, <2>4, <3>1
    <2>5. QED
      BY <1>11, <2>2, <2>3, <2>4 DEF AnswersRight
  <1>12. QED
    BY <1>9, <1>10, <1>11 DEF Ends

LEMMA EndNext ==
    ASSUME OtpInv, NEW v \in Verifier, verify[v].pc # "idle",
           NEW p, p = verify[v].otp, EndGuess(v),
           stored' \in Entry, KeySound',
           Ends(v, p),
           UNCHANGED <<flow, cooldown, send, drawn, apart, lax, contested>>
    PROVE  OtpInv'
  <1> USE OtpTypes, OtpRequests
  <1>1. OtpTypeOK
    BY DEF OtpInv
  <1>2. p \in Otp /\ p # NoOtp
    BY InHand
  <1>3. verify' = [verify EXCEPT ![v] = NoGuess]
    BY DEF EndGuess
  <1>4. NoGuess.otp = NoOtp /\ NoGuess.pc = "idle"
    BY DEF NoGuess
  <1>5. VerifierSound(v)'
    BY <1>1, <1>3, <1>4 DEF VerifierSound
  <1>6. /\ wrong' \in [Otp -> Nat] /\ accepted' \in [Otp -> Nat]
        /\ \A k \in Otp : k # p => wrong'[k] = wrong[k] /\ accepted'[k] = accepted[k]
    BY <1>1, <1>2 DEF Ends, Dies, AnswersWrong, AnswersRight
  <1>7. lost' \in [Otp -> 0..MaxLost] /\ \A k \in Otp : k # p => lost'[k] = lost[k]
    <2>1. lost[p] \in 0..MaxLost /\ (Loses(p) => lost[p] + 1 \in 0..MaxLost)
      BY <1>1, <1>2 DEF Loses
    <2>2. UNCHANGED lost \/ Loses(p)
      BY DEF Ends, Dies, AnswersWrong, AnswersRight
    <2>3. QED
      BY <1>1, <1>2, <2>1, <2>2 DEF Loses
  <1>8. ASSUME p \notin contested
        PROVE  OnceOnly(p)'
    <2>1. \A w \in Verifier : verify'[w].otp # p
      BY <1>1, <1>2, <1>3, <1>4, <1>8, InHand
    <2>2. QED
      BY <1>8, <2>1, EndsWell
  <1>9. stored' = stored \/ stored'.otp \in {p, NoOtp}
    BY EmptyKey DEF Ends, Dies, AnswersWrong, AnswersRight
  <1>10. QED
    <2>1. NoGuess \in VType /\ NoGuess.otp \in {p, NoOtp} /\ p \in Otp
      BY <1>1, <1>2, <1>4
    <2>2. QED
      BY <2>1, <1>3, <1>5, <1>6, <1>7, <1>8, <1>9, VerifyFrame

\* The statements of a verification.
LEMMA CountNext ==
    ASSUME OtpInv, NEW v \in Verifier, CountGuess(v) \/ TtlUnread(v)
    PROVE  OtpInv'
  <1> USE OtpTypes, OtpRequests
  <1>1. PICK p : p = verify[v].otp
    OBVIOUS
  <1>2. OtpTypeOK /\ p \in Otp /\ p # NoOtp
    BY <1>1, InHand DEF OtpInv, CountGuess, TtlUnread
  <1>3. verify[v] \in VType /\ verify[v].pc = "wrong" /\ verify[v].attempts < MaxAttempts
    BY <1>2 DEF OtpInv, VerifierSound, CountGuess, TtlUnread
  <1>4. PICK g \in Nat : g = verify[v].attempts
    BY <1>3 DEF VType
  <1>5. stored.ttl \in 0..OtpTTL /\ 0 \in 0..OtpTTL /\ stored.attempts \in Nat
    BY <1>2 DEF Entry
  <1>6. PICK l \in {"drop", "restore"}, t \in 0..OtpTTL :
           /\ verify' = [verify EXCEPT ![v].pc = l, ![v].attempts = @ + 1, ![v].ttl = t]
           /\ l = "drop" \/ g + 1 < MaxAttempts
           /\ \/ UNCHANGED lost /\ t = stored.ttl
              \/ Loses(p)
    <2>1. CASE CountGuess(v)
      <3>1. verify' = [verify EXCEPT ![v].pc = IF LastGuess(v) THEN "drop" ELSE "restore",
                                     ![v].attempts = @ + 1, ![v].ttl = stored.ttl]
            /\ UNCHANGED lost
        BY <2>1 DEF CountGuess
      <3>2. ~LastGuess(v) => g + 1 < MaxAttempts
        BY <1>4 DEF LastGuess
      <3>3. CASE LastGuess(v)
        BY <1>5, <3>1, <3>3
      <3>4. CASE ~LastGuess(v)
        BY <1>5, <3>1, <3>2, <3>4
      <3>5. QED
        BY <3>3, <3>4
    <2>2. CASE TtlUnread(v)
      <3>1. /\ verify' = [verify EXCEPT ![v].pc = "restore", ![v].attempts = @ + 1, ![v].ttl = 0]
            /\ Loses(p)
        BY <1>1, <2>2 DEF TtlUnread, Lose, Loses
      <3>2. g + 1 < MaxAttempts
        BY <1>4, <2>2 DEF TtlUnread, LastGuess
      <3>3. QED
        BY <1>5, <3>1, <3>2
    <2>3. QED
      BY <2>1, <2>2
  <1> DEFINE n == [verify[v] EXCEPT !.pc = l, !.attempts = @ + 1, !.ttl = t]
  <1>7. n \in VType /\ n.pc = l /\ n.otp = p /\ n.ttl = t /\ n.attempts = g + 1
    <2>1. g + 1 \in 0..MaxAttempts
      BY <1>3, <1>4
    <2>2. QED
      BY <1>1, <1>3, <1>4, <2>1 DEF VType
  <1>8. /\ verify' = [verify EXCEPT ![v] = n]
        /\ UNCHANGED <<flow, stored, cooldown, send, drawn, apart, lax, contested, wrong, accepted>>
    BY <1>6 DEF CountGuess, TtlUnread, spacing
  <1> HIDE DEF n
  <1>9. verify'[v] = n
    BY <1>2, <1>8
  <1>10. VerifierSound(v)' /\ KeySound' /\ stored' \in Entry
    BY <1>2, <1>6, <1>7, <1>8, <1>9 DEF VerifierSound, OtpInv, KeySound
  <1>11. PICK c \in Nat : c = lost[p]
    BY <1>2
  <1>12. /\ lost' \in [Otp -> 0..MaxLost] /\ \A k \in Otp : k # p => lost'[k] = lost[k]
         /\ UNCHANGED lost \/ lost'[p] = c + 1
    <2>1. Loses(p) => c + 1 \in 0..MaxLost
      BY <1>2, <1>11 DEF Loses
    <2>2. QED
      BY <1>2, <1>6, <1>11, <2>1 DEF Loses
  <1>13. ASSUME p \notin contested
         PROVE  OnceOnly(p)'
    <2>1. PICK a \in Nat, w \in Nat : a = accepted[p] /\ w = wrong[p]
      BY <1>2
    <2>2. /\ a <= c /\ a <= 1 + c /\ w <= MaxAttempts + c /\ w <= g + c
          /\ stored.otp = p => w <= stored.attempts + c
          /\ \A q \in Verifier : verify[q].otp = p => q = v
      BY <1>1, <1>3, <1>4, <1>11, <1>13, <2>1, InHand DEF Holds
    <2>3. stored.ttl = 0 => stored.otp # p
      BY <1>2, EmptyKey DEF OtpInv, KeySound
    <2>4. \/ lost'[p] = c /\ (t = 0 => stored.otp # p)
          \/ lost'[p] = c + 1
      BY <1>2, <1>6, <1>11, <1>12, <2>3 DEF Loses
    <2>5. accepted'[p] = a /\ wrong'[p] = w /\ stored' = stored
      BY <1>8, <2>1
    <2>6. Holds(v, p)'
      <3>1. verify'[v].pc = l /\ verify'[v].attempts = g + 1 /\ verify'[v].ttl = t
        BY <1>7, <1>9
      <3>2. accepted'[p] <= lost'[p] /\ wrong'[p] + 1 <= g + 1 + lost'[p]
        BY <1>11, <2>1, <2>2, <2>4, <2>5
      <3>3. t = 0 /\ stored.otp = p => wrong'[p] + 1 <= stored.attempts + lost'[p]
        BY <1>5, <1>11, <2>1, <2>2, <2>4, <2>5
      <3>4. l # "wrong" /\ l # "answer"
        BY <1>6
      <3>5. QED
        BY <2>5, <3>1, <3>2, <3>3, <3>4 DEF Holds
    <2>7. \A q \in Verifier : verify'[q].otp = p => q = v
      BY <1>1, <1>2, <1>8, <2>2
    <2>8. /\ accepted'[p] <= lost'[p] /\ accepted'[p] <= 1 + lost'[p]
          /\ wrong'[p] <= MaxAttempts + lost'[p]
          /\ stored.otp = p => wrong'[p] <= stored.attempts + lost'[p]
      BY <1>5, <1>11, <2>1, <2>2, <2>4, <2>5
    <2>9. QED
      BY <2>5, <2>6, <2>7, <2>8 DEF OnceOnly
  <1>14. wrong' \in [Otp -> Nat] /\ accepted' \in [Otp -> Nat]
    BY <1>2, <1>8
  <1>15. QED
    BY <1>1, <1>2, <1>7, <1>8, <1>10, <1>12, <1>13, <1>14, VerifyFrame

LEMMA AnswerNext ==
    ASSUME OtpInv, NEW v \in Verifier,
           \/ DropOtp(v) \/ RestoreOtp(v) \/ VerifierDies(v)
           \/ verify[v].pc = "answer" /\ (DeleteThenLogin(v) \/ RaiseThenDelete(v))
    PROVE  OtpInv'
  <1> USE OtpTypes, OtpRequests
  <1>1. PICK p : p = verify[v].otp
    OBVIOUS
  <1>2. /\ OtpTypeOK /\ verify[v].pc # "idle" /\ EndGuess(v)
        /\ UNCHANGED <<flow, cooldown, send, drawn, apart, lax, contested>>
    BY
    DEF OtpInv, DropOtp, RestoreOtp, VerifierDies, DeleteThenLogin, RaiseThenDelete, spacing
  <1>3. p \in Otp /\ p # NoOtp
    BY <1>1, <1>2, InHand
  <1>4. (stored' = stored \/ stored' = NoEntry) => stored' \in Entry /\ KeySound'
    BY <1>2, EmptyKey DEF KeySound, OtpInv
  <1>5. ASSUME DropOtp(v)
        PROVE  stored' \in Entry /\ KeySound' /\ AnswersWrong(v, p)
    BY <1>1, <1>4, <1>5 DEF DropOtp, AnswerWrong, AnswersWrong, Lose, Loses
  <1>6. ASSUME RestoreOtp(v), stored' = Restored(v), verify[v].ttl > 0, UNCHANGED lost
        PROVE  stored' \in Entry /\ KeySound' /\ AnswersWrong(v, p)
    <2>1. verify[v] \in VType /\ verify[v].pc = "restore" /\ verify[v].attempts < MaxAttempts
      BY <1>2, <1>6 DEF OtpInv, VerifierSound, RestoreOtp
    <2>2. stored' = [otp |-> p, attempts |-> verify[v].attempts, ttl |-> verify[v].ttl]
      BY <1>1, <1>6 DEF Restored
    <2>3. verify[v].attempts \in 0..(MaxAttempts - 1) /\ verify[v].ttl \in 0..OtpTTL
      BY <2>1 DEF VType
    <2>4. stored' \in Entry
      BY <1>3, <2>2, <2>3 DEF Entry
    <2>5. KeySound'
      BY <1>3, <1>6, <2>2, <2>3 DEF KeySound
    <2>6. AnswersWrong(v, p)
      BY <1>1, <1>6, <2>1, <2>2 DEF RestoreOtp, AnswerWrong, AnswersWrong
    <2>7. QED
      BY <2>4, <2>5, <2>6
  <1>7. ASSUME RestoreOtp(v), ~(stored' = Restored(v) /\ verify[v].ttl > 0 /\ UNCHANGED lost)
        PROVE  stored' \in Entry /\ KeySound' /\ AnswersWrong(v, p)
    BY <1>1, <1>4, <1>7 DEF RestoreOtp, AnswerWrong, AnswersWrong, Lose, Loses
  <1>8. ASSUME verify[v].pc = "answer", DeleteThenLogin(v) \/ RaiseThenDelete(v)
        PROVE  stored' \in Entry /\ KeySound' /\ AnswersRight(v, p)
    BY <1>1, <1>4, <1>8
    DEF DeleteThenLogin, RaiseThenDelete, Accept, DelOtp, Lose, Loses, AnswersRight
  <1>9. ASSUME VerifierDies(v)
        PROVE  stored' \in Entry /\ KeySound' /\ Dies(v, p)
    <2>1. flow = "email" \/ flow = "phone"
      BY <1>2 DEF OtpTypeOK
    <2>2. QED
      BY <1>1, <1>4, <1>9, <2>1 DEF VerifierDies, Lose, Loses, Dies
  <1>10. stored' \in Entry /\ KeySound' /\ Ends(v, p)
    BY <1>5, <1>6, <1>7, <1>8, <1>9 DEF Ends
  <1>11. QED
    BY <1>1, <1>2, <1>10, EndNext

\* A right guess, by e-mail: the key is deleted, or that is lost, before the
\* login; by phone: the level is raised before the key is deleted.
LEMMA RightNext ==
    ASSUME OtpInv, NEW v \in Verifier, verify[v].pc = "right",
           DeleteThenLogin(v) \/ RaiseThenDelete(v)
    PROVE  OtpInv'
  <1> USE OtpTypes, OtpRequests
  <1>1. PICK p : p = verify[v].otp
    OBVIOUS
  <1> DEFINE n == [verify[v] EXCEPT !.pc = "answer"]
  <1>2. OtpTypeOK /\ p \in Otp /\ p # NoOtp
    BY <1>1, InHand DEF OtpInv
  <1>3. n \in VType /\ n.pc = "answer" /\ n.otp = p
    BY <1>1, <1>2 DEF VType
  <1>4. /\ verify' = [verify EXCEPT ![v] = n]
        /\ UNCHANGED <<flow, cooldown, send, drawn, apart, lax, contested, wrong>>
        /\ \/ flow = "email" /\ stored' = NoEntry /\ UNCHANGED <<lost, accepted>>
           \/ flow = "email" /\ Loses(p) /\ UNCHANGED <<stored, accepted>>
           \/ /\ flow # "email" /\ UNCHANGED <<stored, lost>>
              /\ accepted' = [accepted EXCEPT ![p] = @ + 1]
    BY <1>1
    DEF DeleteThenLogin, RaiseThenDelete, DelOtp, Proceed, Accept, Lose, Loses, n, spacing
  <1> HIDE DEF n
  <1>5. verify'[v] = n
    BY <1>2, <1>4
  <1>6. VerifierSound(v)' /\ KeySound' /\ stored' \in Entry
    BY <1>2, <1>3, <1>4, <1>5, EmptyKey DEF VerifierSound, OtpInv, KeySound
  <1>7. PICK a \in Nat, w \in Nat, c \in Nat : a = accepted[p] /\ w = wrong[p] /\ c = lost[p]
    BY <1>2
  <1>8. /\ lost' \in [Otp -> 0..MaxLost] /\ accepted' \in [Otp -> Nat] /\ wrong' \in [Otp -> Nat]
        /\ \A k \in Otp : k # p =>
              wrong'[k] = wrong[k] /\ accepted'[k] = accepted[k] /\ lost'[k] = lost[k]
    <2>1. Loses(p) => c + 1 \in 0..MaxLost
      BY <1>2, <1>7 DEF Loses
    <2>2. QED
      BY <1>2, <1>4, <1>7, <2>1 DEF Loses
  <1>9. ASSUME p \notin contested
        PROVE  OnceOnly(p)'
    <2>1. /\ a <= c /\ w <= MaxAttempts + c
          /\ stored.otp = p => w <= stored.attempts + c
          /\ \A q \in Verifier : verify[q].otp = p => q = v
      BY <1>1, <1>7, <1>9, InHand DEF Holds
    <2>2. stored.attempts \in Nat
      BY <1>2 DEF Entry
    <2>3. wrong'[p] = w
      BY <1>4, <1>7
    <2>4. verify'[v].pc = "answer" /\ verify'[v].otp = p
      BY <1>3, <1>5
    <2>5. \A q \in Verifier : verify'[q].otp = p => q = v
      BY <1>1, <1>2, <1>4, <2>1
    <2>6. CASE flow = "email" /\ stored' = NoEntry /\ UNCHANGED <<lost, accepted>>
      <3>1. accepted'[p] = a /\ lost'[p] = c /\ stored'.otp # p
        BY <1>2, <1>7, <2>6, EmptyKey
      <3>2. Holds(v, p)'
        BY <1>7, <2>1, <2>4, <3>1 DEF Holds
      <3>3. QED
        BY <1>7, <2>1, <2>3, <2>5, <3>1, <3>2 DEF OnceOnly
    <2>7. CASE flow = "email" /\ Loses(p) /\ UNCHANGED <<stored, accepted>>
      <3>1. accepted'[p] = a /\ lost'[p] = c + 1
        BY <1>2, <1>7, <2>7 DEF Loses
      <3>2. Holds(v, p)'
        BY <1>7, <2>1, <2>4, <3>1 DEF Holds
      <3>3. QED
        BY <1>7, <2>1, <2>2, <2>3, <2>5, <2>7, <3>1, <3>2 DEF OnceOnly
    <2>8. CASE /\ flow # "email" /\ UNCHANGED <<stored, lost>>
               /\ accepted' = [accepted EXCEPT ![p] = @ + 1]
      <3>1. accepted'[p] = a + 1 /\ lost'[p] = c /\ flow' # "email"
        BY <1>2, <1>4, <1>7, <2>8
      <3>2. Holds(v, p)'
        BY <2>4, <3>1 DEF Holds
      <3>3. ~(\A q \in Verifier : verify'[q].otp # p)
        BY <2>4
      <3>4. QED
        BY <1>7, <2>1, <2>2, <2>3, <2>5, <2>8, <3>1, <3>2, <3>3 DEF OnceOnly
    <2>9. QED
      BY <1>4, <2>6, <2>7, <2>8
  <1>10. stored' = stored \/ stored'.otp \in {p, NoOtp}
    BY <1>4, EmptyKey
  <1>11. QED
    BY <1>1, <1>2, <1>3, <1>4, <1>6, <1>8, <1>9, <1>10, VerifyFrame

\* The clock takes codes away and changes none.
LEMMA TickNext ==
    ASSUME OtpInv, Tick
    PROVE  OtpInv'
  <1> USE OtpTypes, OtpRequests
  <1>1. OtpTypeOK
    BY DEF OtpInv
  <1>2. UNCHANGED <<flow, verify, drawn, contested, lost, wrong, accepted, lax>>
    BY DEF Tick, guessing
  <1>3. stored' = NoEntry \/ (stored' = [stored EXCEPT !.ttl = @ - 1] /\ stored.ttl > 1)
    BY <1>1 DEF Tick, Entry
  <1>4. /\ stored' \in Entry
        /\ stored' = NoEntry \/ (/\ stored'.otp = stored.otp
                                    /\ stored'.attempts = stored.attempts
                                    /\ stored'.ttl > 0 /\ stored.ttl > 0)
    <2>1. stored \in Entry
      BY <1>1
    <2>2. CASE stored' = NoEntry
      BY <1>1, <2>2
    <2>3. CASE stored' = [stored EXCEPT !.ttl = @ - 1] /\ stored.ttl > 1
      <3>1. stored.ttl - 1 \in 0..OtpTTL /\ stored.ttl - 1 > 0
        BY <2>1, <2>3 DEF Entry
      <3>2. QED
        BY <2>1, <2>3, <3>1 DEF Entry
    <2>4. QED
      BY <1>3, <2>2, <2>3
  <1>5. OtpTypeOK'
    <2>1. cooldown \in 0..CooldownTTL /\ apart \in [Sender -> 0..CooldownTTL]
      BY <1>1 DEF OtpTypeOK
    <2>2. cooldown' \in 0..CooldownTTL
      <3>1. \A n \in 0..CooldownTTL : Left(n) \in 0..CooldownTTL
        BY DEF Left
      <3>2. cooldown' = Left(cooldown)
        BY DEF Tick
      <3>3. QED
        BY <2>1, <3>1, <3>2
    <2>3. \A x \in 0..CooldownTTL : Later(x) \in 0..CooldownTTL
      BY DEF Later
    <2>4. apart' \in [Sender -> 0..CooldownTTL]
      BY <2>1, <2>3 DEF Tick
    <2>5. ASSUME NEW s \in Sender
          PROVE  [send[s] EXCEPT !.age = Later(send[s].age)] \in SType
      <3>1. send[s] \in SType /\ send[s].age \in 0..CooldownTTL
        BY <1>1 DEF SType
      <3>2. PICK x \in 0..CooldownTTL : x = Later(send[s].age)
        BY <2>3, <3>1
      <3>3. [send[s] EXCEPT !.age = x] \in SType
        BY <3>1 DEF SType
      <3>4. QED
        BY <3>2, <3>3
    <2>6. send' \in [Sender -> SType]
      BY <1>1, <2>5 DEF Tick
    <2>7. QED
      BY <1>1, <1>2, <1>4, <2>2, <2>4, <2>6 DEF OtpTypeOK, SType
  <1>6. KeySound'
    BY <1>4, EmptyKey DEF OtpInv, KeySound
  <1>7. \A v \in Verifier : VerifierSound(v)'
    BY <1>2 DEF OtpInv, VerifierSound
  <1>8. /\ \A s \in Sender : send'[s].pc = send[s].pc /\ send'[s].otp = send[s].otp
        /\ \A s \in Sender : SenderSound(s)'
    <2>1. \A s \in Sender : send[s].pc # "deliver" => send'[s] = send[s]
      BY DEF Tick
    <2>2. ASSUME NEW s \in Sender
          PROVE  send'[s].pc = send[s].pc /\ send'[s].otp = send[s].otp
      <3>1. send[s] \in SType
        BY <1>1
      <3>2. QED
        BY <3>1 DEF Tick, SType
    <2>3. ASSUME NEW s \in Sender
          PROVE  SenderSound(s)'
      BY <1>2, <2>1, <2>2 DEF OtpInv, SenderSound
    <2>4. QED
      BY <2>2, <2>3
  <1>9. \A k \in Otp : stored'.otp = k => stored.otp = k /\ stored'.attempts = stored.attempts
    BY <1>1, <1>4, EmptyKey
  <1>10. \A k \in Otp : Unsent(k)'
    BY <1>2, <1>8, <1>9 DEF OtpInv, Unsent, Unheard
  <1>11. ASSUME NEW k \in Otp \ contested'
         PROVE  OnceOnly(k)'
    <2>1. OnceOnly(k)
      BY <1>2 DEF OtpInv
    <2>2. QED
      BY <1>2, <1>9, <2>1 DEF OnceOnly, Holds
  <1>12. QED
    BY <1>5, <1>6, <1>7, <1>8, <1>10, <1>11 DEF OtpInv

LEMMA OtpInvNext ==
    ASSUME OtpInv, [OtpNext]_otpVars
    PROVE  OtpInv'
  <1>1. ASSUME NEW v \in Verifier, DeleteThenLogin(v) \/ RaiseThenDelete(v)
        PROVE  OtpInv'
    <2>1. verify[v].pc = "right" \/ verify[v].pc = "answer"
      BY <1>1 DEF DeleteThenLogin, RaiseThenDelete
    <2>2. QED
      BY <1>1, <2>1, RightNext, AnswerNext
  <1>2. ASSUME UNCHANGED otpVars
        PROVE  OtpInv'
    BY <1>2
    DEF otpVars, OtpInv, OtpTypeOK, KeySound, VerifierSound, SenderSound, Unsent,
        Unheard, OnceOnly, Holds, spacing, guessing
  <1>3. QED
    BY <1>1, <1>2, SendNext, ReadNext, CountNext, AnswerNext, TickNext DEF OtpNext

LEMMA OtpInvariant == OtpSpec => []OtpInv
  BY OtpInvInit, OtpInvNext, PTL DEF OtpSpec

\* Keys, requests and counts keep their types.
THEOREM OtpTypeCorrect == OtpSpec => []OtpTypeOK
  <1>1. OtpInv => OtpTypeOK
    BY DEF OtpInv
  <1>2. QED
    BY <1>1, OtpInvariant, PTL

\* A code that no two verifications are at work on at once is good for one use,
\* and for one more each time its deletion is lost.
THEOREM OtpIsUsedOnce == OtpSpec => []OtpUsedOnce
  <1>1. OtpInv => OtpUsedOnce
    BY DEF OtpInv, OnceOnly, OtpUsedOnce
  <1>2. QED
    BY <1>1, OtpInvariant, PTL

\* Such a code is answered at most MaxAttempts wrong guesses, and one more each
\* time its count is lost.
THEOREM OtpGuessesAreBounded == OtpSpec => []GuessesBounded
  <1>1. OtpInv => GuessesBounded
    BY DEF OtpInv, OnceOnly, GuessesBounded
  <1>2. QED
    BY <1>1, OtpInvariant, PTL

\* As long as the cooldown key is read and written: what is left of it and the
\* time a message has been on its way make up the cooldown, so do what is left
\* of it and what has passed since a sender's last message, and a Send under
\* way has found nothing left.
Spaced ==
    ~lax => \A s \in Sender :
               /\ send[s].pc = "deliver" => cooldown + send[s].age >= CooldownTTL
               /\ cooldown + apart[s] >= CooldownTTL
               /\ send[s].pc # "idle" => apart[s] >= CooldownTTL

LEMMA SpacedNext ==
    ASSUME OtpInv, Spaced, [OtpNext]_otpVars
    PROVE  Spaced'
  <1> USE OtpTypes, OtpRequests
  <1>1. /\ OtpTypeOK /\ cooldown \in 0..CooldownTTL /\ apart \in [Sender -> 0..CooldownTTL]
        /\ send \in [Sender -> SType]
        /\ \A s \in Sender : send[s].age \in 0..CooldownTTL
    BY DEF OtpInv, OtpTypeOK, SType
  <1>2. ASSUME NEW s \in Sender, CheckCooldown(s)
        PROVE  Spaced'
    <2>1. PICK n : send' = [send EXCEPT ![s] = n] /\ n.pc = "store"
      <3>1. \A o \in Otp : [Rest EXCEPT !.pc = "store", !.otp = o].pc = "store"
        BY DEF Rest
      <3>2. QED
        BY <1>2, <3>1 DEF CheckCooldown, Draw
    <2>2. cooldown = 0 /\ UNCHANGED <<cooldown, apart, lax>>
      BY <1>2 DEF CheckCooldown
    <2>3. QED
      BY <1>1, <2>1, <2>2 DEF Spaced
  <1>3. ASSUME NEW s \in Sender, CooldownUnread(s)
        PROVE  Spaced'
    BY <1>3 DEF CooldownUnread, Spaced
  <1>4. ASSUME NEW s \in Sender, StoreOtp(s)
        PROVE  Spaced'
    <2>1. \A q \in Sender :
             /\ send'[q].pc = IF q = s THEN "cool" ELSE send[q].pc
             /\ send'[q].age = send[q].age
      BY <1>1, <1>4 DEF StoreOtp, SType
    <2>2. send[s].pc = "store" /\ UNCHANGED <<cooldown, apart, lax>>
      BY <1>4 DEF StoreOtp
    <2>3. QED
      BY <2>1, <2>2 DEF Spaced
  <1>5. ASSUME NEW s \in Sender, SetCooldown(s)
        PROVE  Spaced'
    <2>1. \A q \in Sender :
             /\ send'[q].pc = IF q = s THEN "deliver" ELSE send[q].pc
             /\ send'[q].age = send[q].age
      BY <1>1, <1>5 DEF SetCooldown, SType
    <2>2. send[s].pc = "cool" /\ UNCHANGED apart
      BY <1>5 DEF SetCooldown
    <2>3. ASSUME ~lax'
          PROVE  ~lax /\ cooldown' = CooldownTTL
      BY <1>5, <2>3 DEF SetCooldown
    <2>4. QED
      BY <1>1, <2>1, <2>2, <2>3 DEF Spaced
  <1>6. ASSUME NEW s \in Sender, Deliver(s)
        PROVE  Spaced'
    <2>1. /\ send[s].pc = "deliver" /\ UNCHANGED <<cooldown, lax>>
          /\ apart' = [apart EXCEPT ![s] = send[s].age]
          /\ send' = [send EXCEPT ![s] = Rest]
      BY <1>6 DEF Deliver
    <2>2. Rest.pc = "idle"
      BY DEF Rest
    <2>3. QED
      BY <1>1, <2>1, <2>2 DEF Spaced
  <1>7. ASSUME NEW s \in Sender, SenderDies(s)
        PROVE  Spaced'
    <2>1. send' = [send EXCEPT ![s] = Rest] /\ UNCHANGED <<cooldown, lax, apart>>
      BY <1>7 DEF SenderDies
    <2>2. Rest.pc = "idle"
      BY DEF Rest
    <2>3. QED
      BY <1>1, <2>1, <2>2 DEF Spaced
  <1>8. CASE Tick
    <2>1. UNCHANGED lax
      BY <1>8 DEF Tick
    <2>2. PICK c \in Nat : c = cooldown /\ c <= CooldownTTL
      BY <1>1
    <2>3. cooldown' \in Nat /\ (cooldown' = c - 1 \/ (cooldown' = 0 /\ c = 0))
      BY <1>8, <2>2 DEF Tick, Left
    <2>4. ASSUME NEW x \in 0..CooldownTTL, c + x >= CooldownTTL
          PROVE  cooldown' + Later(x) >= CooldownTTL
      BY <2>2, <2>3, <2>4 DEF Later
    <2>5. ASSUME NEW x \in 0..CooldownTTL, x >= CooldownTTL
          PROVE  Later(x) >= CooldownTTL
      BY <2>5 DEF Later
    <2>6. ASSUME NEW s \in Sender
          PROVE  /\ apart'[s] = Later(apart[s]) /\ send'[s].pc = send[s].pc
                 /\ send[s].pc = "deliver" => send'[s].age = Later(send[s].age)
      <3>1. send[s] \in SType
        BY <1>1
      <3>2. PICK x : x = Later(send[s].age)
        OBVIOUS
      <3>3. send'[s] = IF send[s].pc = "deliver" THEN [send[s] EXCEPT !.age = x] ELSE send[s]
        BY <1>8, <3>2 DEF Tick
      <3>4. apart'[s] = Later(apart[s])
        BY <1>8 DEF Tick
      <3>5. QED
        BY <3>1, <3>2, <3>3, <3>4 DEF SType
    <2>7. QED
      BY <1>1, <2>1, <2>2, <2>4, <2>5, <2>6 DEF Spaced
  <1>9. ASSUME UNCHANGED spacing
        PROVE  Spaced'
    BY <1>9 DEF spacing, Spaced
  <1>10. QED
    BY <1>2, <1>3, <1>4, <1>5, <1>6, <1>7, <1>8, <1>9
    DEF OtpNext, otpVars, ReadOtp, CountGuess, TtlUnread, DropOtp, RestoreOtp,
        DeleteThenLogin, RaiseThenDelete, VerifierDies

\* However many Sends overlap, the message of one that began after another had
\* ended goes out a cooldown later, less what that other one's took to go out.
THEOREM OtpCooldownHolds == OtpSpec => CooldownHolds
  <1> DEFINE A == \A s \in Sender : Deliver(s) /\ ~lax => apart[s] >= CooldownTTL
  <1>1. ASSUME OtpInit
        PROVE  Spaced
    <2>1. \A s \in Sender : send[s].pc = "idle" /\ apart[s] = CooldownTTL
      BY <1>1 DEF OtpInit, Rest
    <2>2. cooldown = 0 /\ 0 + CooldownTTL >= CooldownTTL
      BY <1>1, OtpTypes DEF OtpInit
    <2>3. QED
      BY <2>1, <2>2 DEF Spaced
  <1>2. OtpInv /\ Spaced /\ [OtpNext]_otpVars => Spaced'
    BY SpacedNext
  <1>3. Spaced => A
    BY DEF Spaced, Deliver
  <1> HIDE DEF A
  <1>4. OtpSpec => [][A]_(otpVars)
    BY <1>1, <1>2, <1>3, OtpInvariant, PTL DEF OtpSpec
  <1>5. QED
    BY <1>4 DEF A, CooldownHolds

=============================================================================
