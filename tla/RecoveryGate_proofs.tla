-------------------------- MODULE RecoveryGate_proofs --------------------------
(***************************************************************************)
(* Recovery codes keep their promises for any numbers of requests, batches *)
(* and codes.  What concerns the codes alone is proved of RecoveryCodes;   *)
(* the limiter in front of the route takes nothing away from it.           *)
(***************************************************************************)
EXTENDS RecoveryGate, FiniteSetTheorems, TLAPS

\* Requests work on codes that exist; a batch being inserted is not visible,
\* and is inserted by one request.
Held ==
    /\ \A r \in Req : \A c \in req[r].codes : row[c] # "never"
    /\ \A r \in Req : req[r].pc = "insert" =>
          \A i \in 1..PerBatch : row[<<req[r].batch, i>>] = "never"
    /\ \A r \in Req : req[r].pc = "insert" <=> req[r].batch # NoBatch
    /\ \A r, q \in Req :
          req[r].pc = "insert" /\ req[q].batch = req[r].batch => r = q

RecoveryInv == TypeOK /\ Held /\ AcceptedIsSpent

LEMMA RecoveryInvInit == Init => RecoveryInv
  BY RecoveryAssumption
  DEF Init, RecoveryInv, TypeOK, Held, AcceptedIsSpent, Idle, RowStatus

LEMMA OneCode == \A c \in Code : Cardinality({c}) = 1
  BY FS_Singleton

LEMMA RecoveryInvNext == RecoveryInv /\ [Next]_vars => RecoveryInv'
  <1> SUFFICES ASSUME RecoveryInv, [Next]_vars
               PROVE  RecoveryInv'
    OBVIOUS
  <1> USE RecoveryAssumption
  <1> USE DEF RecoveryInv, TypeOK, Held, AcceptedIsSpent, RowStatus, Idle
  <1>1. ASSUME NEW r \in Req, NEW b \in Batch, BeginGenerate(r, b)
        PROVE  RecoveryInv'
    <2>1. req' = [req EXCEPT ![r] = [pc |-> "insert", batch |-> b, codes |-> Present]]
          /\ met' = met \cup {{b, req[q].batch} : q \in Regenerating}
          /\ UNCHANGED <<row, accepted>>
      BY <1>1 DEF BeginGenerate
    <2>2. Present \subseteq Code /\ \A c \in Present : row[c] # "never"
      BY DEF Present
    <2>3. TypeOK'
      <3>1. \A q \in Regenerating : {b, req[q].batch} \in SUBSET Batch
        BY DEF Regenerating
      <3>2. met' \subseteq SUBSET Batch
        BY <2>1, <3>1
      <3>3. QED
        BY <2>1, <2>2, <3>2
    <2>4. Held'
      BY <1>1, <2>1, <2>2 DEF BeginGenerate
    <2>5. AcceptedIsSpent'
      BY <2>1
    <2>6. QED
      BY <2>3, <2>4, <2>5
  <1>2. ASSUME NEW r \in Req, CommitGenerate(r)
        PROVE  RecoveryInv'
    <2>1. /\ row' = [c \in Code |-> CASE c[1] = req[r].batch -> "unused"
                                      [] c \in req[r].codes -> "deleted"
                                      [] OTHER -> row[c]]
          /\ req' = [req EXCEPT ![r] = Idle]
          /\ req[r].pc = "insert"
          /\ UNCHANGED <<met, accepted>>
      BY <1>2 DEF CommitGenerate, Replaced, Finish
    <2>2. \A c \in Code : c[1] = req[r].batch => row[c] = "never"
      BY <2>1 DEF Code
    <2>3. TypeOK'
      BY <2>1
    <2>4. Held'
      <3>1. \A q \in Req : \A c \in req'[q].codes : row'[c] # "never"
        BY <2>1
      <3>2. ASSUME NEW q \in Req, req'[q].pc = "insert", NEW i \in 1..PerBatch
            PROVE  row'[<<req'[q].batch, i>>] = "never"
        <4>1. q # r /\ req'[q] = req[q] /\ req[q].batch # req[r].batch
          BY <2>1, <3>2
        <4>2. row[<<req[q].batch, i>>] = "never"
          BY <4>1, <3>2
        <4>3. <<req[q].batch, i>> \in Code
          BY <4>1, <3>2 DEF Code
        <4>4. <<req[q].batch, i>> \notin req[r].codes
          BY <4>2
        <4>5. QED
          BY <2>1, <4>1, <4>2, <4>3, <4>4
      <3>3. QED
        BY <2>1, <3>1, <3>2
    <2>5. AcceptedIsSpent'
      BY <2>1, <2>2
    <2>6. QED
      BY <2>3, <2>4, <2>5
  <1>3. ASSUME NEW r \in Req, NEW c \in Code, SelectCode(r, c)
        PROVE  RecoveryInv'
    <2>1. req' = [req EXCEPT ![r] = [pc |-> "mark", batch |-> NoBatch, codes |-> {c}]]
          /\ row[c] = "unused" /\ UNCHANGED <<row, met, accepted>>
      BY <1>3 DEF SelectCode, Unused
    <2>2. Cardinality({c}) = 1
      BY OneCode
    <2>3. TypeOK'
      BY <2>1, <2>2
    <2>4. Held'
      <3>1. \A q \in Req : \A d \in req'[q].codes : row'[d] # "never"
        BY <2>1
      <3>2. \A q \in Req : req'[q].pc = "insert" <=> req'[q].batch # NoBatch
        BY <1>3, <2>1 DEF SelectCode
      <3>3. ASSUME NEW q \in Req, req'[q].pc = "insert"
            PROVE  req'[q] = req[q]
        BY <2>1, <3>3
      <3>4. QED
        BY <1>3, <2>1, <3>1, <3>2, <3>3 DEF SelectCode
    <2>5. AcceptedIsSpent'
      BY <2>1
    <2>6. QED
      BY <2>3, <2>4, <2>5
  <1>4. ASSUME NEW r \in Req, NEW c \in Code, MarkUsed(r, c)
        PROVE  RecoveryInv'
    <2>1. /\ row' = [row EXCEPT ![c] = IF @ = "deleted" THEN @ ELSE "used"]
          /\ accepted' = [accepted EXCEPT ![c] = @ + 1]
          /\ req' = [req EXCEPT ![r] = Idle]
          /\ row[c] # "never"
          /\ UNCHANGED met
      BY <1>4 DEF MarkUsed, Finish
    <2>2. TypeOK'
      BY <2>1
    <2>3. \A d \in Code : row'[d] = "never" <=> row[d] = "never"
      BY <2>1
    <2>4. Held'
      <3>1. \A q \in Req : \A d \in req'[q].codes : row'[d] # "never"
        BY <2>1, <2>3
      <3>2. ASSUME NEW q \in Req, req'[q].pc = "insert", NEW i \in 1..PerBatch
            PROVE  row'[<<req'[q].batch, i>>] = "never"
        <4>1. req'[q] = req[q]
          BY <2>1, <3>2
        <4>2. <<req[q].batch, i>> \in Code
          BY <4>1, <3>2 DEF Code
        <4>3. QED
          BY <2>3, <4>1, <4>2, <3>2
      <3>3. QED
        BY <2>1, <3>1, <3>2
    <2>5. AcceptedIsSpent'
      BY <2>1
    <2>6. QED
      BY <2>2, <2>4, <2>5
  <1>5. ASSUME NEW r \in Req, Fail(r)
        PROVE  RecoveryInv'
    BY <1>5 DEF Fail, Finish
  <1>6. CASE UNCHANGED vars
    BY <1>6 DEF vars
  <1>7. QED
    BY <1>1, <1>2, <1>3, <1>4, <1>5, <1>6 DEF Next

\* The limiter lets the codes do what they do without it, and nothing else.
LEMMA GateRefines == [GateNext]_gateVars => [Next]_vars
  <1>1. ASSUME NEW r \in Req, Limited(r) \/ WrongCode(r)
        PROVE  UNCHANGED vars
    BY <1>1 DEF Limited, WrongCode
  <1>2. ASSUME NEW r \in Req, NEW c \in Code, ValidateRecovery(r, c)
        PROVE  Next
    BY <1>2 DEF ValidateRecovery, Next
  <1>3. ASSUME NEW r \in Req, RegenerateCodes(r)
        PROVE  Next
    BY <1>3 DEF RegenerateCodes, Next
  <1>4. ASSUME NEW r \in Req, Fail(r)
        PROVE  Next
    BY <1>4 DEF Next
  <1>5. ASSUME UNCHANGED gateVars
        PROVE  UNCHANGED vars
    BY <1>5 DEF gateVars
  <1>6. QED
    BY <1>1, <1>2, <1>3, <1>4, <1>5 DEF GateNext

\* Behind the limiter the codes still behave as RecoveryCodes says.
THEOREM GateImplementsCodes == GateSpec => Spec
  BY GateRefines, PTL DEF GateSpec, GateInit, Spec

\* A code that has let somebody in is used or deleted ever after, whatever
\* regenerations and failures race with it.
THEOREM RecoveryAcceptedIsSpent == GateSpec => []AcceptedIsSpent
  <1>1. RecoveryInv => AcceptedIsSpent
    BY DEF RecoveryInv
  <1>2. QED
    BY <1>1, RecoveryInvInit, RecoveryInvNext, GateImplementsCodes, PTL DEF Spec

\* The rows, the requests and the counts keep their types.
THEOREM RecoveryTypeCorrect == GateSpec => []TypeOK
  <1>1. RecoveryInv => TypeOK
    BY DEF RecoveryInv
  <1>2. QED
    BY <1>1, RecoveryInvInit, RecoveryInvNext, GateImplementsCodes, PTL DEF Spec

-----------------------------------------------------------------------------
\* A regeneration under way deletes all the codes that can be used, but for
\* those of regenerations it has overlapped.
HoldsAll ==
    /\ \A r \in Req : req[r].pc = "insert" =>
          \A c \in Unused \ req[r].codes : {c[1], req[r].batch} \in met
    /\ \A r, q \in Req :
          req[r].pc = "insert" /\ req[q].pc = "insert" /\ r # q
          => {req[r].batch, req[q].batch} \in met

LEMMA OneBatchNext ==
    ASSUME RecoveryInv, HoldsAll, OneBatch, [Next]_vars
    PROVE  HoldsAll' /\ OneBatch'
  <1> USE RecoveryAssumption
  <1> USE DEF RecoveryInv, TypeOK, HoldsAll, OneBatch, Unused, RowStatus, Idle
  <1>1. ASSUME NEW r \in Req, NEW b \in Batch, BeginGenerate(r, b)
        PROVE  HoldsAll' /\ OneBatch'
    <2>1. /\ req' = [req EXCEPT ![r] = [pc |-> "insert", batch |-> b, codes |-> Present]]
          /\ met' = met \cup {{b, req[q].batch} : q \in Regenerating}
          /\ UNCHANGED <<row, accepted>>
      BY <1>1 DEF BeginGenerate
    <2>2. Unused \subseteq Present
      BY DEF Present
    <2>3. \A q \in Req : q # r /\ req'[q].pc = "insert"
             => req'[q] = req[q] /\ {b, req[q].batch} \in met'
      BY <2>1 DEF Regenerating
    <2>4. met \subseteq met' /\ Unused' = Unused
      BY <2>1
    <2>5. req'[r].batch = b /\ req'[r].codes = Present
      BY <2>1
    <2>6. ASSUME NEW q \in Req, req'[q].pc = "insert", NEW c \in Unused' \ req'[q].codes
          PROVE  {c[1], req'[q].batch} \in met'
      <3>1. q # r /\ req'[q] = req[q]
        BY <2>2, <2>3, <2>4, <2>5, <2>6
      <3>2. QED
        BY <2>4, <2>6, <3>1
    <2>7. ASSUME NEW p \in Req, NEW q \in Req, req'[p].pc = "insert",
                 req'[q].pc = "insert", p # q
          PROVE  {req'[p].batch, req'[q].batch} \in met'
      <3>1. CASE p = r
        BY <2>3, <2>5, <2>7, <3>1
      <3>2. CASE q = r
        <4>1. {req'[p].batch, req'[q].batch} = {b, req[p].batch}
          BY <2>3, <2>5, <2>7, <3>2
        <4>2. QED
          BY <2>3, <2>7, <3>2, <4>1
      <3>3. CASE p # r /\ q # r
        BY <2>3, <2>4, <2>7, <3>3
      <3>4. QED
        BY <3>1, <3>2, <3>3
    <2>8. OneBatch'
      BY <2>4
    <2>9. HoldsAll'
      BY <2>6, <2>7
    <2>10. QED
      BY <2>8, <2>9
  <1>2. ASSUME NEW r \in Req, CommitGenerate(r)
        PROVE  HoldsAll' /\ OneBatch'
    <2>1. /\ row' = [c \in Code |-> CASE c[1] = req[r].batch -> "unused"
                                      [] c \in req[r].codes -> "deleted"
                                      [] OTHER -> row[c]]
          /\ req' = [req EXCEPT ![r] = Idle]
          /\ req[r].pc = "insert"
          /\ met' = met
      BY <1>2 DEF CommitGenerate, Replaced, Finish
    <2>2. \A c \in Unused' : \/ c[1] = req[r].batch
                             \/ c \in Unused \ req[r].codes
      BY <2>1
    <2>3. \A q \in Req : req'[q].pc = "insert" => q # r /\ req'[q] = req[q]
      BY <2>1
    <2>4. ASSUME NEW q \in Req, req'[q].pc = "insert", NEW c \in Unused' \ req'[q].codes
          PROVE  {c[1], req'[q].batch} \in met'
      <3>1. q # r /\ req'[q] = req[q]
        BY <2>3, <2>4
      <3>2. CASE c[1] = req[r].batch
        BY <2>1, <2>4, <3>1, <3>2
      <3>3. CASE c \in Unused \ req[r].codes
        BY <2>1, <2>4, <3>1, <3>3
      <3>4. QED
        BY <2>2, <3>2, <3>3
    <2>5. ASSUME NEW p \in Req, NEW q \in Req, req'[p].pc = "insert",
                 req'[q].pc = "insert", p # q
          PROVE  {req'[p].batch, req'[q].batch} \in met'
      BY <2>1, <2>3, <2>5
    <2>6. ASSUME NEW c \in Unused', NEW d \in Unused', c[1] # d[1]
          PROVE  {c[1], d[1]} \in met'
      <3>1. CASE c[1] = req[r].batch
        <4>1. d \in Unused \ req[r].codes /\ {c[1], d[1]} = {d[1], req[r].batch}
          BY <2>2, <2>6, <3>1
        <4>2. QED
          BY <2>1, <4>1
      <3>2. CASE d[1] = req[r].batch
        BY <2>1, <2>2, <2>6, <3>2
      <3>3. CASE c \in Unused /\ d \in Unused
        BY <2>1, <2>6, <3>3
      <3>4. QED
        BY <2>2, <3>1, <3>2, <3>3
    <2>7. HoldsAll'
      BY <2>4, <2>5
    <2>8. OneBatch'
      BY <2>6
    <2>9. QED
      BY <2>7, <2>8
  <1>3. ASSUME NEW r \in Req, NEW c \in Code, SelectCode(r, c)
        PROVE  HoldsAll' /\ OneBatch'
    BY <1>3 DEF SelectCode
  <1>4. ASSUME NEW r \in Req, NEW c \in Code, MarkUsed(r, c)
        PROVE  HoldsAll' /\ OneBatch'
    <2>1. Unused' \subseteq Unused /\ met' = met
      BY <1>4 DEF MarkUsed
    <2>2. \A q \in Req : req'[q].pc = "insert" => req'[q] = req[q]
      BY <1>4 DEF MarkUsed, Finish
    <2>3. QED
      BY <2>1, <2>2
  <1>5. ASSUME NEW r \in Req, Fail(r)
        PROVE  HoldsAll' /\ OneBatch'
    BY <1>5 DEF Fail, Finish
  <1>6. CASE UNCHANGED vars
    BY <1>6 DEF vars
  <1>7. QED
    BY <1>1, <1>2, <1>3, <1>4, <1>5, <1>6 DEF Next

\* Codes of two batches can be used side by side only when their regenerations
\* overlapped each other, however many others overlap or fail.
THEOREM RecoveryOneBatch == GateSpec => []OneBatch
  <1>1. Init => HoldsAll /\ OneBatch
    BY DEF Init, HoldsAll, OneBatch, Unused, Idle
  <1>2. RecoveryInv /\ HoldsAll /\ OneBatch /\ [Next]_vars => HoldsAll' /\ OneBatch'
    BY OneBatchNext
  <1>3. QED
    BY <1>1, <1>2, RecoveryInvInit, RecoveryInvNext, GateImplementsCodes, PTL DEF Spec

-----------------------------------------------------------------------------
(***************************************************************************)
(* What a code is worth.  Two validations of one code may both answer yes; *)
(* how often that can happen, and that nothing but the overlap lets it.    *)
(***************************************************************************)

\* The validations that have read the code as unused and not answered.
Marking(c) == {r \in Req : req[r].pc = "mark" /\ req[r].codes = {c}}

ReuseBounded == \A c \in Code : accepted[c] <= Cardinality(Req)

WorthInv == \A c \in Code : accepted[c] + Cardinality(Marking(c)) <= Cardinality(Req)

\* Sets of requests can be counted.
LEMMA CountRequests ==
    /\ Cardinality(Req) \in Nat
    /\ \A S \in SUBSET Req :
          IsFiniteSet(S) /\ Cardinality(S) \in Nat /\ Cardinality(S) <= Cardinality(Req)
    /\ \A S, T \in SUBSET Req : S \subseteq T => Cardinality(S) <= Cardinality(T)
  <1>1. IsFiniteSet(Req)
    BY GateAssumption
  <1>2. ASSUME NEW S \in SUBSET Req
        PROVE  IsFiniteSet(S) /\ Cardinality(S) \in Nat /\ Cardinality(S) <= Cardinality(Req)
    BY <1>1, FS_Subset, FS_CardinalityType
  <1>3. ASSUME NEW S \in SUBSET Req, NEW T \in SUBSET Req, S \subseteq T
        PROVE  Cardinality(S) <= Cardinality(T)
    BY <1>2, <1>3, FS_Subset
  <1>4. Cardinality(Req) \in Nat
    BY <1>1, FS_CardinalityType
  <1>5. QED
    BY <1>2, <1>3, <1>4

\* Nobody new has read the code, and it has not been accepted again.
LEMMA WorthKept ==
    ASSUME TypeOK, NEW c \in Code,
           accepted[c] + Cardinality(Marking(c)) <= Cardinality(Req),
           accepted'[c] = accepted[c], Marking(c)' \subseteq Marking(c)
    PROVE  accepted'[c] + Cardinality(Marking(c)') <= Cardinality(Req)
  <1>1. Marking(c) \in SUBSET Req /\ Marking(c)' \in SUBSET Req
    BY DEF Marking
  <1>2. /\ Cardinality(Marking(c)') <= Cardinality(Marking(c))
        /\ Cardinality(Marking(c)) \in Nat /\ Cardinality(Marking(c)') \in Nat
    BY <1>1, CountRequests
  <1>3. accepted[c] \in Nat /\ Cardinality(Req) \in Nat
    BY CountRequests DEF TypeOK
  <1>4. QED
    BY <1>2, <1>3

LEMMA WorthNext ==
    ASSUME RecoveryInv, WorthInv, [Next]_vars
    PROVE  WorthInv'
  <1> SUFFICES ASSUME NEW c \in Code
               PROVE  accepted'[c] + Cardinality(Marking(c)') <= Cardinality(Req)
    BY DEF WorthInv, Marking
  <1> USE DEF RecoveryInv, TypeOK
  <1>0. accepted[c] + Cardinality(Marking(c)) <= Cardinality(Req)
    BY DEF WorthInv
  <1>1. ASSUME accepted'[c] = accepted[c], Marking(c)' \subseteq Marking(c)
        PROVE  accepted'[c] + Cardinality(Marking(c)') <= Cardinality(Req)
    BY <1>0, <1>1, WorthKept
  <1>2. ASSUME NEW r \in Req, NEW b \in Batch, BeginGenerate(r, b)
        PROVE  accepted'[c] = accepted[c] /\ Marking(c)' \subseteq Marking(c)
    BY <1>2 DEF BeginGenerate, Marking
  <1>3. ASSUME NEW r \in Req, CommitGenerate(r) \/ Fail(r)
        PROVE  accepted'[c] = accepted[c] /\ Marking(c)' \subseteq Marking(c)
    BY <1>3 DEF CommitGenerate, Fail, Finish, Idle, Marking
  <1>4. ASSUME NEW r \in Req, NEW d \in Code, SelectCode(r, d)
        PROVE  accepted'[c] + Cardinality(Marking(c)') <= Cardinality(Req)
    <2>1. req' = [req EXCEPT ![r] = [pc |-> "mark", batch |-> NoBatch, codes |-> {d}]]
          /\ row[d] = "unused" /\ accepted' = accepted
      BY <1>4 DEF SelectCode, Unused
    <2>2. CASE c = d
      <3>1. accepted[c] = 0
        BY <2>1, <2>2 DEF AcceptedIsSpent
      <3>2. Marking(c)' \in SUBSET Req
        BY DEF Marking
      <3>3. Cardinality(Marking(c)') \in Nat /\ Cardinality(Marking(c)') <= Cardinality(Req)
        BY <3>2, CountRequests
      <3>4. QED
        BY <2>1, <3>1, <3>3
    <2>3. CASE c # d
      <3>1. Marking(c)' \subseteq Marking(c)
        BY <2>1, <2>3 DEF Marking
      <3>2. QED
        BY <2>1, <3>1, <1>1
    <2>4. QED
      BY <2>2, <2>3
  <1>5. ASSUME NEW r \in Req, NEW d \in Code, MarkUsed(r, d)
        PROVE  accepted'[c] + Cardinality(Marking(c)') <= Cardinality(Req)
    <2>1. /\ req[r].pc = "mark" /\ req[r].codes = {d}
          /\ req' = [req EXCEPT ![r] = Idle]
          /\ accepted' = [accepted EXCEPT ![d] = @ + 1]
      BY <1>5 DEF MarkUsed, Finish
    <2>2. CASE c = d
      <3>1. r \in Marking(c) /\ Marking(c)' = Marking(c) \ {r}
        BY <2>1, <2>2 DEF Marking, Idle
      <3>2. Marking(c) \in SUBSET Req
        BY DEF Marking
      <3>3. IsFiniteSet(Marking(c)) /\ Cardinality(Marking(c)) \in Nat
        BY <3>2, CountRequests
      <3>4. Cardinality(Marking(c)') = Cardinality(Marking(c)) - 1
        BY <3>1, <3>3, FS_RemoveElement
      <3>5. accepted'[c] = accepted[c] + 1 /\ accepted[c] \in Nat
        BY <2>1, <2>2
      <3>6. QED
        BY <1>0, <3>3, <3>4, <3>5, CountRequests
    <2>3. CASE c # d
      <3>1. accepted'[c] = accepted[c] /\ Marking(c)' \subseteq Marking(c)
        BY <2>1, <2>3 DEF Marking, Idle
      <3>2. QED
        BY <3>1, <1>1
    <2>4. QED
      BY <2>2, <2>3
  <1>6. CASE UNCHANGED vars
    <2>1. accepted'[c] = accepted[c] /\ Marking(c)' \subseteq Marking(c)
      BY <1>6 DEF vars, Marking
    <2>2. QED
      BY <2>1, <1>1
  <1>7. QED
    BY <1>1, <1>2, <1>3, <1>4, <1>5, <1>6 DEF Next

\* A recovery code lets in at most as many requests as can be in progress at
\* the same time: all of them must have read it before the first one answers.
THEOREM RecoveryReuseBounded == GateSpec => []ReuseBounded
  <1>1. Init => WorthInv
    <2> SUFFICES ASSUME Init, NEW c \in Code
                 PROVE  accepted[c] + Cardinality(Marking(c)) <= Cardinality(Req)
      BY DEF WorthInv
    <2>1. accepted[c] = 0 /\ Marking(c) = {}
      BY DEF Init, Idle, Marking
    <2>2. Cardinality(Marking(c)) = 0
      BY <2>1, FS_EmptySet
    <2>3. QED
      BY <2>1, <2>2, CountRequests
  <1>2. RecoveryInv /\ WorthInv /\ [Next]_vars => WorthInv'
    BY WorthNext
  <1>3. RecoveryInv /\ WorthInv => ReuseBounded
    <2> SUFFICES ASSUME RecoveryInv, WorthInv, NEW c \in Code
                 PROVE  accepted[c] <= Cardinality(Req)
      BY DEF ReuseBounded
    <2>1. Marking(c) \in SUBSET Req
      BY DEF Marking
    <2>2. Cardinality(Marking(c)) \in Nat
      BY <2>1, CountRequests
    <2>3. accepted[c] \in Nat /\ accepted[c] + Cardinality(Marking(c)) <= Cardinality(Req)
      BY DEF RecoveryInv, TypeOK, WorthInv
    <2>4. QED
      BY <2>2, <2>3, CountRequests
  <1>4. QED
    BY <1>1, <1>2, <1>3, RecoveryInvInit, RecoveryInvNext, GateImplementsCodes, PTL DEF Spec

\* No validation that is not yet past its SELECT when a code lets somebody in
\* gets past it with that code.
NoLateReuse ==
    [][\A c \in Code : accepted[c] > 0 => Marking(c)' \subseteq Marking(c)]_vars

LEMMA NobodyReads ==
    ASSUME RecoveryInv, [Next]_vars, NEW c \in Code, accepted[c] > 0
    PROVE  Marking(c)' \subseteq Marking(c)
  <1> USE DEF RecoveryInv, TypeOK, AcceptedIsSpent, Marking, Idle
  <1>1. ASSUME NEW r \in Req, NEW b \in Batch, BeginGenerate(r, b)
        PROVE  Marking(c)' \subseteq Marking(c)
    BY <1>1 DEF BeginGenerate
  <1>2. ASSUME NEW r \in Req, CommitGenerate(r) \/ Fail(r)
        PROVE  Marking(c)' \subseteq Marking(c)
    BY <1>2 DEF CommitGenerate, Fail, Finish
  <1>3. ASSUME NEW r \in Req, NEW d \in Code, SelectCode(r, d)
        PROVE  Marking(c)' \subseteq Marking(c)
    <2>1. req' = [req EXCEPT ![r] = [pc |-> "mark", batch |-> NoBatch, codes |-> {d}]]
          /\ row[d] = "unused"
      BY <1>3 DEF SelectCode, Unused
    <2>2. d # c
      BY <2>1
    <2>3. QED
      BY <2>1, <2>2
  <1>4. ASSUME NEW r \in Req, NEW d \in Code, MarkUsed(r, d)
        PROVE  Marking(c)' \subseteq Marking(c)
    BY <1>4 DEF MarkUsed, Finish
  <1>5. CASE UNCHANGED vars
    BY <1>5 DEF vars
  <1>6. QED
    BY <1>1, <1>2, <1>3, <1>4, <1>5 DEF Next

\* A code is used again only by validations that had read it before it let
\* the first one in.
THEOREM RecoveryNoLateReuse == GateSpec => NoLateReuse
  <1>1. RecoveryInv /\ [Next]_vars
          => [\A c \in Code : accepted[c] > 0 => Marking(c)' \subseteq Marking(c)]_vars
    BY NobodyReads
  <1>2. QED
    BY <1>1, RecoveryInvInit, RecoveryInvNext, GateImplementsCodes, PTL
       DEF Spec, NoLateReuse

-----------------------------------------------------------------------------
(***************************************************************************)
(* The limiter.  What it bounds is counted: the requests of the last       *)
(* window that got through, and those that have passed the count and not   *)
(* got through yet.                                                        *)
(***************************************************************************)

\* The handler behind it does nothing the limiter can see.
LEMMA GateRunsLimit == [GateNext]_gateVars => [Limit!LimitNext]_(Limit!limitVars)
  <1>1. ASSUME NEW r \in Req, Limited(r)
        PROVE  Limit!LimitNext
    BY <1>1 DEF Limited, Limit!LimitNext
  <1>2. ASSUME NEW r \in Req, Limit!Leave(r)
        PROVE  Limit!LimitNext
    BY <1>2 DEF Limit!LimitNext
  <1>3. ASSUME NEW r \in Req, NEW c \in Code, ValidateRecovery(r, c)
        PROVE  [Limit!LimitNext]_(Limit!limitVars)
    BY <1>2, <1>3 DEF ValidateRecovery, limitVars, Limit!limitVars
  <1>4. ASSUME NEW r \in Req, RegenerateCodes(r)
        PROVE  [Limit!LimitNext]_(Limit!limitVars)
    BY <1>4 DEF RegenerateCodes, limitVars, Limit!limitVars
  <1>5. CASE Limit!Tick
    BY <1>5 DEF Limit!LimitNext
  <1>6. CASE UNCHANGED gateVars
    BY <1>6 DEF gateVars, limitVars, Limit!limitVars
  <1>7. QED
    BY <1>1, <1>2, <1>3, <1>4, <1>5, <1>6 DEF GateNext, WrongCode

\* Every behaviour of the composition is one of the limiter.
THEOREM GateImplementsLimit == GateSpec => Limit!LimitSpec
  BY GateRunsLimit, PTL DEF GateSpec, GateInit, Limit!LimitSpec

\* The requests let through that the window ending now still counts.
Recent == {m \in passed : m[1] + Window > clock}

\* The requests that the count lets through and that are not through yet.
Granted == {r \in Req : call[r].pc \in {"add", "expire"} /\ call[r].count < MaxRequests}

Bound == MaxRequests + Cardinality(Req)

\* A request knows when it came.
Stamped == \A r \in Req : Limit!InPipeline(r) => call[r].now \in Limit!Moment

\* While no pipeline takes time: whoever is in one came just now, the key has
\* whoever got through in the last window, and does not go before them.
Prompt ==
    /\ \A r \in Req : Limit!InPipeline(r) => call[r].now[1] = clock
    /\ \A r \in Req : call[r].pc = "expire" => call[r].now \in entries
    /\ Recent \subseteq entries
    /\ \A m \in passed : m[1] <= clock
    /\ expires > 0 => \A m \in passed : m[1] + Window <= expires

Few ==
    /\ Cardinality(Recent) + Cardinality(Granted) < Bound
    /\ \A t \in Limit!Time : Cardinality(Limit!PassedIn(t)) < Bound

LimitInv == Limit!LimitTypeOK /\ Stamped /\ (~slow => Prompt /\ Few)

\* The module counts as it does.
LEMMA SameCount == \A S : Limit!Cardinality(S) = Cardinality(S)
  BY DEF Limit!Cardinality, Cardinality

LEMMA LimitConstants ==
    /\ MaxRequests \in Nat /\ MaxRequests > 0
    /\ Window \in Nat /\ Window > 0
    /\ MaxCalls \in Nat /\ MaxTime \in Nat
    /\ IsFiniteSet(Req) /\ Cardinality(Req) \in Nat
    /\ Bound \in Nat
    /\ IsFiniteSet(Limit!Moment)
  <1>1. /\ MaxRequests \in Nat /\ MaxRequests > 0
        /\ Window \in Nat /\ Window > 0
        /\ MaxCalls \in Nat /\ MaxTime \in Nat
        /\ IsFiniteSet(Req)
    BY GateAssumption
  <1>2. Cardinality(Req) \in Nat
    BY <1>1, FS_CardinalityType
  <1>3. IsFiniteSet(0..MaxTime) /\ IsFiniteSet(1..MaxCalls)
    BY <1>1, FS_Interval
  <1>4. IsFiniteSet(Limit!Moment)
    BY <1>3, FS_Product DEF Limit!Moment, Limit!Time
  <1>5. QED
    BY <1>1, <1>2, <1>4 DEF Bound

\* Moments are pairs of numbers, and sets of them can be counted.
LEMMA Moments ==
    /\ \A m \in Limit!Moment : m[1] \in Limit!Time /\ m[1] \in Nat
    /\ \A S \in SUBSET Limit!Moment : IsFiniteSet(S) /\ Cardinality(S) \in Nat
  <1>1. \A m \in Limit!Moment : m[1] \in Limit!Time /\ m[1] \in Nat
    BY LimitConstants DEF Limit!Moment, Limit!Time
  <1>2. ASSUME NEW S \in SUBSET Limit!Moment
        PROVE  IsFiniteSet(S) /\ Cardinality(S) \in Nat
    BY LimitConstants, FS_Subset, FS_CardinalityType
  <1>3. QED
    BY <1>1, <1>2

\* A part has no more elements than the whole.
LEMMA Fewer ==
    /\ \A S, T \in SUBSET Limit!Moment :
          S \subseteq T => Cardinality(S) <= Cardinality(T)
    /\ \A S \in SUBSET Req : IsFiniteSet(S) /\ Cardinality(S) \in Nat
    /\ \A S, T \in SUBSET Req : S \subseteq T => Cardinality(S) <= Cardinality(T)
  <1>1. ASSUME NEW S \in SUBSET Limit!Moment, NEW T \in SUBSET Limit!Moment, S \subseteq T
        PROVE  Cardinality(S) <= Cardinality(T)
    BY <1>1, Moments, FS_Subset
  <1>2. ASSUME NEW S \in SUBSET Req
        PROVE  IsFiniteSet(S) /\ Cardinality(S) \in Nat
    BY LimitConstants, FS_Subset, FS_CardinalityType
  <1>3. ASSUME NEW S \in SUBSET Req, NEW T \in SUBSET Req, S \subseteq T
        PROVE  Cardinality(S) <= Cardinality(T)
    BY <1>2, <1>3, FS_Subset
  <1>4. QED
    BY <1>1, <1>2, <1>3

\* What the ZCARD answers is a number.
LEMMA Counted ==
    ASSUME Limit!LimitTypeOK, NEW r \in Req, Limit!Count(r)
    PROVE  \E n \in Nat :
              /\ n = Cardinality(entries)
              /\ call' = [call EXCEPT ![r].pc = "add", ![r].count = n]
              /\ call[r].pc = "count"
              /\ UNCHANGED <<clock, entries, expires, passed, slow>>
  <1>1. Cardinality(entries) \in Nat
    BY Moments DEF Limit!LimitTypeOK
  <1>2. /\ call' = [call EXCEPT ![r].pc = "add", ![r].count = Cardinality(entries)]
        /\ call[r].pc = "count"
        /\ UNCHANGED <<clock, entries, expires, passed, slow>>
    BY SameCount, Zenon DEF Limit!Count
  <1>3. QED
    BY <1>1, <1>2, Zenon

LEMMA LimitTypes ==
    ASSUME Limit!LimitTypeOK, Stamped, [Limit!LimitNext]_(Limit!limitVars)
    PROVE  Limit!LimitTypeOK' /\ Stamped'
  <1> USE DEF Limit!LimitTypeOK, Stamped, Limit!InPipeline
  <1>1. ASSUME NEW r \in Req, Limit!Arrive(r)
        PROVE  Limit!LimitTypeOK' /\ Stamped'
    <2>1. PICK n \in 1..MaxCalls :
            call' = [call EXCEPT ![r] = [pc |-> "prune", now |-> <<clock, n>>, count |-> 0]]
      BY <1>1 DEF Limit!Arrive
    <2>2. <<clock, n>> \in Limit!Moment
      BY DEF Limit!Moment
    <2>3. QED
      BY <1>1, <2>1, <2>2 DEF Limit!Arrive
  <1>2. ASSUME NEW r \in Req, Limit!Prune(r)
        PROVE  Limit!LimitTypeOK' /\ Stamped'
    BY <1>2 DEF Limit!Prune, Limit!Goto
  <1>3. ASSUME NEW r \in Req, Limit!Count(r)
        PROVE  Limit!LimitTypeOK' /\ Stamped'
    <2>2. PICK n \in Nat :
            /\ n = Cardinality(entries)
            /\ call' = [call EXCEPT ![r].pc = "add", ![r].count = n]
            /\ call[r].pc = "count"
            /\ UNCHANGED <<clock, entries, expires, passed, slow>>
      BY <1>3, Counted
    <2>3. call'[r] = [pc |-> "add", now |-> call[r].now, count |-> n]
          /\ \A q \in Req \ {r} : call'[q] = call[q]
      BY <2>2
    <2>4. call' \in [Req -> [pc : {"outside", "prune", "count", "add", "expire", "handler"},
                            now : Limit!Moment \cup {Limit!NoMoment}, count : Nat]]
      BY <2>2
    <2>5. QED
      BY <2>2, <2>3, <2>4
  <1>4. ASSUME NEW r \in Req, Limit!Add(r)
        PROVE  Limit!LimitTypeOK' /\ Stamped'
    BY <1>4 DEF Limit!Add, Limit!Goto
  <1>5. ASSUME NEW r \in Req, Limit!Decide(r)
        PROVE  Limit!LimitTypeOK' /\ Stamped'
    <2>1. clock + Window \in Nat
      BY LimitConstants DEF Limit!Time
    <2>2. QED
      BY <1>5, <2>1 DEF Limit!Decide, Limit!PassOn, Limit!Outside
  <1>6. ASSUME NEW r \in Req, Limit!PipelineFails(r) \/ Limit!Leave(r)
        PROVE  Limit!LimitTypeOK' /\ Stamped'
    BY <1>6 DEF Limit!PipelineFails, Limit!Leave, Limit!PassOn, Limit!Outside
  <1>7. CASE Limit!Tick
    <2>1. clock' \in Limit!Time
      BY <1>7, LimitConstants DEF Limit!Tick, Limit!Time
    <2>2. QED
      BY <1>7, <2>1 DEF Limit!Tick
  <1>8. CASE UNCHANGED Limit!limitVars
    BY <1>8 DEF Limit!limitVars
  <1>9. QED
    BY <1>1, <1>2, <1>3, <1>4, <1>5, <1>6, <1>7, <1>8 DEF Limit!LimitNext

\* Few stays when nobody new is let past the count or through.
LEMMA FewKept ==
    ASSUME Limit!LimitTypeOK, Few, Recent' \subseteq Recent,
           Granted' \subseteq Granted, passed' = passed
    PROVE  Few'
  <1>1. Recent \in SUBSET Limit!Moment /\ Recent' \in SUBSET Limit!Moment
    BY DEF Limit!LimitTypeOK, Recent
  <1>2. Granted \in SUBSET Req /\ Granted' \in SUBSET Req
    BY DEF Granted
  <1>3. Cardinality(Recent') <= Cardinality(Recent)
    BY <1>1, Fewer
  <1>4. Cardinality(Granted') <= Cardinality(Granted)
    BY <1>2, Fewer
  <1>5. /\ Cardinality(Recent) \in Nat /\ Cardinality(Recent') \in Nat
        /\ Cardinality(Granted) \in Nat /\ Cardinality(Granted') \in Nat
    BY <1>1, <1>2, Moments, Fewer
  <1>6. Cardinality(Recent') + Cardinality(Granted') < Bound
    BY <1>3, <1>4, <1>5, LimitConstants DEF Few
  <1>7. \A t \in Limit!Time : Limit!PassedIn(t)' = Limit!PassedIn(t)
    BY DEF Limit!PassedIn
  <1>8. QED
    BY <1>6, <1>7 DEF Few, Bound

LEMMA LimitPrompt ==
    ASSUME Limit!LimitTypeOK, Stamped, Prompt, ~slow',
           [Limit!LimitNext]_(Limit!limitVars)
    PROVE  Prompt'
  <1> USE LimitConstants DEF Limit!LimitTypeOK, Stamped, Prompt, Limit!InPipeline, Recent
  <1>1. ASSUME NEW r \in Req, Limit!Arrive(r)
        PROVE  Prompt'
    <2>1. PICK n \in 1..MaxCalls :
            call' = [call EXCEPT ![r] = [pc |-> "prune", now |-> <<clock, n>>, count |-> 0]]
      BY <1>1 DEF Limit!Arrive
    <2>2. QED
      BY <1>1, <2>1 DEF Limit!Arrive
  <1>2. ASSUME NEW r \in Req, Limit!Prune(r)
        PROVE  Prompt'
    <2>1. /\ call[r].now[1] = clock /\ clock \in Nat
          /\ entries' = {m \in entries : m[1] + Window > clock}
          /\ expires' \in {0, expires}
          /\ call' = [call EXCEPT ![r].pc = "count"]
          /\ UNCHANGED <<clock, passed, slow>>
      BY <1>2 DEF Limit!Prune, Limit!Goto, Limit!Time
    <2>2. \A q \in Req : call'[q].now = call[q].now
      BY <2>1
    <2>3. ASSUME NEW q \in Req, call'[q].pc = "expire"
          PROVE  call'[q].now \in entries'
      <3>1. call[q].pc = "expire" /\ call[q].now \in entries /\ call[q].now[1] = clock
        BY <2>1, <2>3
      <3>2. QED
        BY <2>1, <2>2, <3>1
    <2>4. Recent' \subseteq entries'
      BY <2>1
    <2>5. QED
      BY <1>2, <2>1, <2>2, <2>3, <2>4 DEF Limit!Prune
  <1>3. ASSUME NEW r \in Req, Limit!Count(r)
        PROVE  Prompt'
    <2>2. PICK n \in Nat :
            /\ n = Cardinality(entries)
            /\ call' = [call EXCEPT ![r].pc = "add", ![r].count = n]
            /\ call[r].pc = "count"
            /\ UNCHANGED <<clock, entries, expires, passed, slow>>
      BY <1>3, Counted
    <2>3. QED
      BY <2>2
  <1>4. ASSUME NEW r \in Req, Limit!Add(r)
        PROVE  Prompt'
    BY <1>4 DEF Limit!Add, Limit!Goto, Limit!Recorded
  <1>5. ASSUME NEW r \in Req, Limit!Decide(r)
        PROVE  Prompt'
    <2>1. /\ call[r].pc = "expire" /\ call[r].now \in entries
          /\ call[r].now[1] = clock
          /\ expires' = clock + Window
          /\ passed' \subseteq passed \cup {call[r].now}
          /\ UNCHANGED <<clock, entries, slow>>
      BY <1>5 DEF Limit!Decide
    <2>2. /\ call'[r].pc \in {"outside", "handler"}
          /\ \A q \in Req \ {r} : call'[q] = call[q]
      BY <1>5 DEF Limit!Decide, Limit!PassOn, Limit!Outside
    <2>3. \A m \in passed' : m[1] <= clock /\ m[1] \in Nat
      BY <2>1, Moments DEF Limit!Time
    <2>4. \A m \in passed' : m[1] + Window <= expires'
      BY <2>1, <2>3 DEF Limit!Time
    <2>5. QED
      BY <2>1, <2>2, <2>3, <2>4
  <1>6. ASSUME NEW r \in Req, Limit!PipelineFails(r) \/ Limit!Leave(r)
        PROVE  Prompt'
    BY <1>6 DEF Limit!PipelineFails, Limit!Leave, Limit!PassOn, Limit!Outside
  <1>7. CASE Limit!Tick
    <2>1. /\ \A r \in Req : ~Limit!InPipeline(r)
          /\ clock' = clock + 1 /\ clock \in Nat
          /\ UNCHANGED <<call, passed>>
      <3>1. slow' = (slow \/ \E r \in Req : Limit!InPipeline(r))
            /\ UNCHANGED <<call, passed>> /\ clock' = clock + 1
        BY <1>7 DEF Limit!Tick
      <3>2. clock \in Nat
        BY DEF Limit!Time
      <3>3. QED
        BY <3>1, <3>2, Zenon
    <2>2. \A m \in passed : m[1] \in Nat /\ m[1] <= clock'
      BY <2>1, Moments
    <2>3. CASE expires \in 1..clock'
      <3>1. expires' = 0
        BY <1>7, <2>3 DEF Limit!Tick
      <3>2. \A m \in passed : m[1] + Window <= clock'
        BY <2>1, <2>2, <2>3
      <3>3. Recent' = {}
        BY <2>1, <2>2, <3>2
      <3>4. QED
        BY <2>1, <2>2, <3>1, <3>3
    <2>4. CASE expires \notin 1..clock'
      <3>1. UNCHANGED <<entries, expires>>
        BY <1>7, <2>4 DEF Limit!Tick
      <3>2. Recent' \subseteq Recent
        BY <2>1, <2>2
      <3>3. QED
        BY <2>1, <2>2, <3>1, <3>2
    <2>5. QED
      BY <2>3, <2>4
  <1>8. CASE UNCHANGED Limit!limitVars
    BY <1>8 DEF Limit!limitVars
  <1>9. QED
    BY <1>1, <1>2, <1>3, <1>4, <1>5, <1>6, <1>7, <1>8 DEF Limit!LimitNext

LEMMA LimitFew ==
    ASSUME Limit!LimitTypeOK, Limit!LimitTypeOK', Prompt, Prompt', Few, ~slow',
           [Limit!LimitNext]_(Limit!limitVars)
    PROVE  Few'
  <1> USE LimitConstants DEF Limit!LimitTypeOK
  <1>1. ASSUME NEW r \in Req, Limit!Arrive(r)
        PROVE  Few'
    <2>1. PICK n \in 1..MaxCalls :
            call' = [call EXCEPT ![r] = [pc |-> "prune", now |-> <<clock, n>>, count |-> 0]]
      BY <1>1 DEF Limit!Arrive
    <2>2. Granted' \subseteq Granted
      BY <2>1 DEF Granted
    <2>3. UNCHANGED <<clock, passed>>
      BY <1>1 DEF Limit!Arrive
    <2>4. Recent' = Recent
      BY <2>3 DEF Recent
    <2>5. QED
      BY <2>2, <2>3, <2>4, FewKept
  <1>2. ASSUME NEW r \in Req, Limit!Prune(r) \/ Limit!Add(r)
        PROVE  Few'
    <2>1. /\ UNCHANGED <<clock, passed>>
          /\ \/ call[r].pc = "prune" /\ call' = [call EXCEPT ![r].pc = "count"]
             \/ call[r].pc = "add" /\ call' = [call EXCEPT ![r].pc = "expire"]
      BY <1>2 DEF Limit!Prune, Limit!Add, Limit!Goto
    <2>2. Granted' \subseteq Granted
      BY <2>1 DEF Granted
    <2>3. Recent' = Recent
      BY <2>1 DEF Recent
    <2>4. QED
      BY <2>1, <2>2, <2>3, FewKept
  <1>3. ASSUME NEW r \in Req, Limit!Count(r)
        PROVE  Few'
    <2>2. PICK n \in Nat :
            /\ n = Cardinality(entries)
            /\ call' = [call EXCEPT ![r].pc = "add", ![r].count = n]
            /\ call[r].pc = "count"
            /\ UNCHANGED <<clock, entries, expires, passed, slow>>
      BY <1>3, Counted
    <2>3. Recent' = Recent
      BY <2>2 DEF Recent
    <2>4. CASE n < MaxRequests
      <3>1. Recent \in SUBSET Limit!Moment /\ entries \in SUBSET Limit!Moment
        BY DEF Recent
      <3>2. Recent \subseteq entries
        BY DEF Prompt
      <3>3. Cardinality(Recent) <= n /\ Cardinality(Recent) \in Nat
        BY <2>2, <3>1, <3>2, Fewer, Moments
      <3>4. Granted' \in SUBSET Req /\ Req \in SUBSET Req
        BY DEF Granted
      <3>5. Cardinality(Granted') <= Cardinality(Req) /\ Cardinality(Granted') \in Nat
        BY <3>4, Fewer
      <3>6. Cardinality(Recent') + Cardinality(Granted') < Bound
        BY <2>3, <2>4, <3>3, <3>5 DEF Bound
      <3>7. \A t \in Limit!Time : Limit!PassedIn(t)' = Limit!PassedIn(t)
        BY <2>2 DEF Limit!PassedIn
      <3>8. QED
        BY <3>6, <3>7 DEF Few, Bound
    <2>5. CASE ~(n < MaxRequests)
      <3>1. call'[r].count = n /\ \A q \in Req \ {r} : call'[q] = call[q]
        BY <2>2
      <3>2. Granted' \subseteq Granted
        BY <2>5, <3>1 DEF Granted
      <3>3. QED
        BY <2>2, <2>3, <3>2, FewKept
    <2>6. QED
      BY <2>4, <2>5
  <1>4. ASSUME NEW r \in Req, Limit!Decide(r), Limit!Refused(r)
        PROVE  Few'
    <2>1. UNCHANGED <<clock, passed>> /\ call' = [call EXCEPT ![r] = Limit!Outside]
      BY <1>4 DEF Limit!Decide
    <2>2. Granted' \subseteq Granted
      BY <2>1 DEF Granted, Limit!Outside
    <2>3. Recent' = Recent
      BY <2>1 DEF Recent
    <2>4. QED
      BY <2>1, <2>2, <2>3, FewKept
  <1>5. ASSUME NEW r \in Req, Limit!Decide(r), ~Limit!Refused(r)
        PROVE  Few'
    <2>1. /\ call[r].pc = "expire" /\ call[r].count < MaxRequests
          /\ call[r].now[1] = clock
          /\ passed' = passed \cup {call[r].now}
          /\ UNCHANGED clock
      BY <1>5 DEF Limit!Decide, Limit!Refused, Prompt, Limit!InPipeline
    <2>2. call'[r].pc = "handler" /\ \A q \in Req \ {r} : call'[q] = call[q]
      BY <1>5 DEF Limit!Decide, Limit!PassOn, Limit!Outside
    <2>3. r \in Granted /\ Granted' = Granted \ {r}
      BY <2>1, <2>2 DEF Granted
    <2>4. Recent' \subseteq Recent \cup {call[r].now}
      BY <2>1 DEF Recent
    <2>5. call[r].now \in Limit!Moment
      BY <1>5 DEF Limit!Decide, Prompt
    <2>6. Cardinality(Granted') = Cardinality(Granted) - 1
          /\ Cardinality(Granted) \in Nat /\ Cardinality(Granted') \in Nat
      <3>1. Granted \in SUBSET Req /\ Granted' \in SUBSET Req
        BY DEF Granted
      <3>2. IsFiniteSet(Granted)
        BY <3>1, Fewer
      <3>3. QED
        BY <2>3, <3>1, <3>2, Fewer, FS_RemoveElement
    <2>7. Cardinality(Recent') <= Cardinality(Recent) + 1
          /\ Cardinality(Recent) \in Nat /\ Cardinality(Recent') \in Nat
      <3> DEFINE more == Recent \cup {call[r].now}
      <3>1. Recent \in SUBSET Limit!Moment /\ Recent' \in SUBSET Limit!Moment
            /\ more \in SUBSET Limit!Moment
        BY <2>5 DEF Recent
      <3>2. IsFiniteSet(Recent) /\ Cardinality(Recent) \in Nat
        BY <3>1, Moments
      <3>3. Cardinality(more) <= Cardinality(Recent) + 1
        <4>1. Cardinality(more) \in {Cardinality(Recent), Cardinality(Recent) + 1}
          BY <3>2, FS_AddElement
        <4> HIDE DEF more
        <4>2. QED
          BY <3>2, <4>1
      <3>4. Cardinality(Recent') <= Cardinality(more)
        BY <2>4, <3>1, Fewer
      <3>5. Cardinality(Recent') \in Nat /\ Cardinality(more) \in Nat
        BY <3>1, Moments
      <3> HIDE DEF more
      <3>6. QED
        BY <3>2, <3>3, <3>4, <3>5
    <2>8. Cardinality(Recent') + Cardinality(Granted') < Bound
      BY <2>6, <2>7 DEF Few
    <2>9. ASSUME NEW t \in Limit!Time
          PROVE  Cardinality(Limit!PassedIn(t)') < Bound
      <3>1. CASE t <= clock /\ clock < t + Window
        <4>1. Limit!PassedIn(t)' \subseteq Recent'
          <5>1. ASSUME NEW m \in passed', t <= m[1]
                PROVE  m[1] + Window > clock
            BY <3>1, <5>1, Moments DEF Limit!Time
          <5>2. QED
            BY <2>1, <5>1 DEF Limit!PassedIn, Recent
        <4>2. Limit!PassedIn(t)' \in SUBSET Limit!Moment /\ Recent' \in SUBSET Limit!Moment
          BY DEF Limit!PassedIn, Recent
        <4>3. Cardinality(Limit!PassedIn(t)') <= Cardinality(Recent')
              /\ Cardinality(Limit!PassedIn(t)') \in Nat
          BY <4>1, <4>2, Fewer, Moments
        <4>4. QED
          BY <2>6, <2>7, <2>8, <4>3
      <3>2. CASE ~(t <= clock /\ clock < t + Window)
        <4>1. Limit!PassedIn(t)' = Limit!PassedIn(t)
          BY <2>1, <3>2 DEF Limit!PassedIn
        <4>2. QED
          BY <4>1 DEF Few
      <3>3. QED
        BY <3>1, <3>2
    <2>10. QED
      BY <2>8, <2>9 DEF Few, Bound
  <1>6. ASSUME NEW r \in Req, Limit!PipelineFails(r) \/ Limit!Leave(r)
        PROVE  Few'
    <2>1. /\ UNCHANGED <<clock, passed>>
          /\ call'[r].pc \in {"outside", "handler"}
          /\ \A q \in Req \ {r} : call'[q] = call[q]
      BY <1>6 DEF Limit!PipelineFails, Limit!Leave, Limit!PassOn, Limit!Outside
    <2>2. Granted' \subseteq Granted
      BY <2>1 DEF Granted
    <2>3. Recent' = Recent
      BY <2>1 DEF Recent
    <2>4. QED
      BY <2>1, <2>2, <2>3, FewKept
  <1>7. CASE Limit!Tick
    <2>1. UNCHANGED <<call, passed>> /\ clock' = clock + 1
      BY <1>7 DEF Limit!Tick
    <2>2. Granted' = Granted
      BY <2>1 DEF Granted
    <2>3. Recent' \subseteq Recent
      BY <2>1, Moments DEF Recent, Limit!Time
    <2>4. QED
      BY <2>1, <2>2, <2>3, FewKept
  <1>8. CASE UNCHANGED Limit!limitVars
    <2>1. UNCHANGED <<call, passed, clock>>
      BY <1>8 DEF Limit!limitVars
    <2>2. Granted' = Granted /\ Recent' = Recent
      BY <2>1 DEF Granted, Recent
    <2>3. QED
      BY <2>1, <2>2, FewKept
  <1>9. ASSUME NEW r \in Req, Limit!Decide(r)
        PROVE  Few'
    BY <1>4, <1>5, <1>9
  <1>10. QED
    BY <1>1, <1>2, <1>3, <1>6, <1>7, <1>8, <1>9 DEF Limit!LimitNext

LEMMA LimitInvInit == Limit!LimitInit => LimitInv
  <1> SUFFICES ASSUME Limit!LimitInit
               PROVE  LimitInv
    OBVIOUS
  <1> USE LimitConstants DEF Limit!LimitInit
  <1>1. Recent = {} /\ Granted = {} /\ \A t \in Limit!Time : Limit!PassedIn(t) = {}
    BY DEF Recent, Granted, Limit!PassedIn, Limit!Outside
  <1>2. Cardinality({}) = 0
    BY FS_EmptySet
  <1>3. Few
    <2>1. Cardinality(Recent) = 0 /\ Cardinality(Granted) = 0
          /\ \A t \in Limit!Time : Cardinality(Limit!PassedIn(t)) = 0
      BY <1>1, <1>2, Zenon
    <2>2. 0 < Bound
      BY DEF Bound
    <2>3. Cardinality(Recent) + Cardinality(Granted) < Bound
      BY <2>1, <2>2
    <2>4. QED
      BY <2>1, <2>2, <2>3 DEF Few
  <1>4. Limit!LimitTypeOK /\ Stamped
    <2>1. clock \in Limit!Time /\ expires \in Nat
      BY DEF Limit!Time
    <2>2. call = [r \in Req |-> [pc |-> "outside", now |-> Limit!NoMoment, count |-> 0]]
      BY DEF Limit!Outside
    <2>3. \A r \in Req : call[r].pc = "outside" /\ call[r].now = Limit!NoMoment /\ call[r].count = 0
      BY <2>2
    <2>4. [pc |-> "outside", now |-> Limit!NoMoment, count |-> 0]
            \in [pc : {"outside", "prune", "count", "add", "expire", "handler"},
                 now : Limit!Moment \cup {Limit!NoMoment}, count : Nat]
      OBVIOUS
    <2>5. Limit!LimitTypeOK
      BY <2>1, <2>2, <2>4 DEF Limit!LimitTypeOK
    <2>6. Stamped
      BY <2>3 DEF Stamped, Limit!InPipeline
    <2>7. QED
      BY <2>5, <2>6
  <1>5. Prompt
    BY <1>1 DEF Prompt, Limit!InPipeline, Limit!Outside
  <1>6. QED
    BY <1>3, <1>4, <1>5 DEF LimitInv

LEMMA LimitInvNext ==
    LimitInv /\ [Limit!LimitNext]_(Limit!limitVars) => LimitInv'
  <1> SUFFICES ASSUME LimitInv, [Limit!LimitNext]_(Limit!limitVars)
               PROVE  LimitInv'
    OBVIOUS
  <1>1. Limit!LimitTypeOK' /\ Stamped'
    BY LimitTypes DEF LimitInv
  <1>2. ~slow' => ~slow
    BY DEF Limit!LimitNext, Limit!limitVars, Limit!Arrive, Limit!Prune, Limit!Count,
           Limit!Add, Limit!Decide, Limit!PipelineFails, Limit!Leave, Limit!Tick
  <1>3. ASSUME ~slow'
        PROVE  Prompt' /\ Few'
    BY <1>1, <1>2, <1>3, LimitPrompt, LimitFew DEF LimitInv
  <1>4. QED
    BY <1>1, <1>3 DEF LimitInv

\* The window, the requests in the middleware and the history of those it let
\* through keep their types behind the gate.
THEOREM LimiterTypeCorrect == GateSpec => []Limit!LimitTypeOK
  <1>1. LimitInv => Limit!LimitTypeOK
    BY DEF LimitInv
  <1>2. QED
    BY <1>1, LimitInvInit, LimitInvNext, GateImplementsLimit, PTL DEF Limit!LimitSpec

\* While pipelines take no time, the guesses that get through in any window
\* are fewer than MaxRequests and one for every request that can be between
\* the count and the answer.
THEOREM RecoveryGuessesLimited == GateSpec => []GuessesLimited
  <1>1. Few => \A t \in Limit!Time :
                  Cardinality(Limit!PassedIn(t)) < MaxRequests + Cardinality(Req)
    BY DEF Few, Bound
  <1>2. LimitInv => GuessesLimited
    BY <1>1, SameCount, Zenon DEF LimitInv, GuessesLimited, Limit!PassedBounded
  <1>3. QED
    BY <1>2, LimitInvInit, LimitInvNext, GateImplementsLimit, PTL DEF Limit!LimitSpec

=============================================================================
