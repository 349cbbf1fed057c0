----------------------------- MODULE RecoveryGate -----------------------------
(***************************************************************************)
(* Recovery codes behind the rate limiter of the /auth routes.  A recovery *)
(* code has no counter of failed guesses of its own: the limiter is all    *)
(* that bounds them.  Regeneration is a route, and so a window, of its own *)
(* and is not limited here.                                                *)
(***************************************************************************)
EXTENDS RecoveryCodes

CONSTANTS MaxRequests, Window, RedisFails, MaxTime, MaxCalls

ASSUME GateAssumption ==
    /\ {MaxRequests, Window, MaxCalls} \subseteq Nat \ {0}
    /\ MaxTime \in Nat
    /\ RedisFails \in BOOLEAN
    /\ IsFiniteSet(Req)

VARIABLES clock, entries, expires, call, passed, slow

Limit == INSTANCE RateLimit

limitVars == <<clock, entries, expires, call, passed, slow>>

gateVars == <<vars, limitVars>>

GateInit == Init /\ Limit!LimitInit

\* The middleware has let the request through and it has not reached the
\* SELECT.
Admitted(r) == call[r].pc = "handler" /\ req[r].pc = "idle"

\* Commands of the middleware.
Limited(r) ==
    /\ req[r].pc = "idle"
    /\ \/ Limit!Arrive(r) \/ Limit!Prune(r) \/ Limit!Count(r)
       \/ Limit!Add(r) \/ Limit!Decide(r) \/ Limit!PipelineFails(r)
    /\ UNCHANGED vars

\* No unused row matches what was typed.
WrongCode(r) ==
    /\ Admitted(r)
    /\ Limit!Leave(r)
    /\ UNCHANGED vars

\* ValidateRecovery: the SELECT, and the UPDATE with which it answers.
ValidateRecovery(r, c) ==
    \/ Admitted(r) /\ SelectCode(r, c) /\ UNCHANGED limitVars
    \/ MarkUsed(r, c) /\ Limit!Leave(r)

\* RegenerateCodes, on a route of its own.
RegenerateCodes(r) ==
    /\ call[r].pc = "outside"
    /\ \/ \E b \in Batch : BeginGenerate(r, b)
       \/ CommitGenerate(r)
       \/ Fail(r)
    /\ UNCHANGED limitVars

GateNext ==
    \/ \E r \in Req :
          \/ Limited(r)
          \/ WrongCode(r)
          \/ \E c \in Code : ValidateRecovery(r, c)
          \/ RegenerateCodes(r)
          \/ Fail(r) /\ Limit!Leave(r)
    \/ Limit!Tick /\ UNCHANGED vars

GateSpec == GateInit /\ [][GateNext]_gateVars

-----------------------------------------------------------------------------
\* The guesses at recovery codes that the limiter of the route has counted are
\* as few as it allows; while its pipelines fail, guesses are not counted.
GuessesLimited == Limit!PassedBounded

=============================================================================
