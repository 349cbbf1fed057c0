------------------------------- MODULE RateLimit -------------------------------
(***************************************************************************)
(* The sliding window of the requests one address makes of one route: a    *)
(* Redis sorted set of their times.  A request reads the clock, then sends *)
(* four commands in a pipeline, which is no transaction: commands of other *)
(* requests may come in between, and a slow request works with a time that *)
(* has passed.                                                             *)
(***************************************************************************)
EXTENDS Naturals, FiniteSets

CONSTANTS
    Req,          \* requests in progress at the same time
    MaxRequests,  \* requests let through per window (the program: 20)
    Window,       \* length of the window (the program: one minute)
    RedisFails,   \* may the pipeline fail?
    MaxTime,      \* bound: the clock stops here
    MaxCalls      \* bound: requests in one unit of time

VARIABLES
    clock,
    entries,   \* the sorted set of requests, scored by their time
    expires,   \* when the key goes; 0 when it has no time to live
    call,      \* requests in the middleware, and in the handler behind it
    passed,    \* history: requests the count let through
    slow       \* history: time has passed while a pipeline was under way

limitVars == <<clock, entries, expires, call, passed, slow>>

Time == 0..MaxTime

\* What the clock shows: the time, which is the score, and the nanoseconds,
\* which make the member.
Moment == Time \X (1..MaxCalls)
NoMoment == <<0, 0>>

Outside == [pc |-> "outside", now |-> NoMoment, count |-> 0]

LimitTypeOK ==
    /\ clock \in Time
    /\ entries \subseteq Moment
    /\ expires \in Nat
    /\ call \in [Req -> [pc : {"outside", "prune", "count", "add", "expire", "handler"},
                         now : Moment \cup {NoMoment}, count : Nat]]
    /\ passed \subseteq Moment
    /\ slow \in BOOLEAN

LimitInit ==
    /\ clock = 0
    /\ entries = {}
    /\ expires = 0
    /\ call = [r \in Req |-> Outside]
    /\ passed = {}
    /\ slow = FALSE

InPipeline(r) == call[r].pc \in {"prune", "count", "add", "expire"}

Goto(r, pc) == call' = [call EXCEPT ![r].pc = pc]

\* The middleware is done with the request: c.Next().
PassOn(r) == call' = [call EXCEPT ![r] = [Outside EXCEPT !.pc = "handler"]]

\* now := time.Now(), at a nanosecond of its own.
Arrive(r) ==
    /\ call[r].pc = "outside"
    /\ \E n \in 1..MaxCalls :
          /\ <<clock, n>> \notin entries \cup passed \cup {call[q].now : q \in Req}
          /\ call' = [call EXCEPT ![r] = [pc |-> "prune", now |-> <<clock, n>>, count |-> 0]]
    /\ UNCHANGED <<clock, entries, expires, passed, slow>>

\* ZREMRANGEBYSCORE key 0 (now - window).  An empty set has no key, and so no
\* time to live.
Prune(r) ==
    /\ call[r].pc = "prune"
    /\ entries' = {m \in entries : m[1] + Window > call[r].now[1]}
    /\ expires' = IF entries' = {} THEN 0 ELSE expires
    /\ Goto(r, "count")
    /\ UNCHANGED <<clock, passed, slow>>

\* ZCARD.
Count(r) ==
    /\ call[r].pc = "count"
    /\ call' = [call EXCEPT ![r].pc = "add", ![r].count = Cardinality(entries)]
    /\ UNCHANGED <<clock, entries, expires, passed, slow>>

\* Mutant: a request at the limit is not recorded.
Recorded_Admitted(r) == call[r].count + 1 < MaxRequests

\* Which requests are recorded: those that will be refused as well.
Recorded(r) == TRUE

\* ZADD; the member is the time in nanoseconds, so no two are the same.
Add(r) ==
    /\ call[r].pc = "add"
    /\ entries' = IF Recorded(r) THEN entries \cup {call[r].now} ELSE entries
    /\ Goto(r, "expire")
    /\ UNCHANGED <<clock, expires, passed, slow>>

\* Mutant: one too many.
Refused_OffByOne(r) == call[r].count > MaxRequests

Refused(r) == call[r].count >= MaxRequests

\* EXPIRE; the pipeline is answered, and the count before the ZADD decides.
Decide(r) ==
    /\ call[r].pc = "expire"
    /\ expires' = clock + Window
    /\ IF Refused(r)
         THEN /\ call' = [call EXCEPT ![r] = Outside]
              /\ UNCHANGED passed
         ELSE /\ PassOn(r)
              /\ passed' = passed \cup {call[r].now}
    /\ UNCHANGED <<clock, entries, slow>>

\* An error of the pipeline, at whatever command, lets the request through.
\* What has not run by then is taken not to run.
PipelineFails(r) ==
    /\ RedisFails
    /\ InPipeline(r)
    /\ PassOn(r)
    /\ UNCHANGED <<clock, entries, expires, passed, slow>>

\* The handler behind the middleware has answered.
Leave(r) ==
    /\ call[r].pc = "handler"
    /\ call' = [call EXCEPT ![r] = Outside]
    /\ UNCHANGED <<clock, entries, expires, passed, slow>>

\* Time passes, and the key with it.
Tick ==
    /\ clock < MaxTime
    /\ clock' = clock + 1
    /\ IF expires \in 1..clock'
         THEN entries' = {} /\ expires' = 0
         ELSE UNCHANGED <<entries, expires>>
    /\ slow' = (slow \/ \E r \in Req : InPipeline(r))
    /\ UNCHANGED <<call, passed>>

\* The middleware in front of a handler that does nothing it can see.
LimitNext ==
    \/ \E r \in Req :
          \/ Arrive(r) \/ Prune(r) \/ Count(r) \/ Add(r) \/ Decide(r)
          \/ PipelineFails(r)
          \/ Leave(r)
    \/ Tick

LimitSpec == LimitInit /\ [][LimitNext]_limitVars

-----------------------------------------------------------------------------
\* However long a client keeps trying, in no window do more than MaxRequests
\* of its requests get through the count, and as many more as can be between
\* their ZCARD and another's ZADD; as long as pipelines take no time.  Requests
\* that a failing pipeline lets through are not among them: nothing bounds
\* those.
PassedIn(t) == {m \in passed : t <= m[1] /\ m[1] < t + Window}

PassedBounded ==
    ~slow => \A t \in Time : Cardinality(PassedIn(t)) < MaxRequests + Cardinality(Req)

=============================================================================
