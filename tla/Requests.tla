------------------------------ MODULE Requests ------------------------------
(***************************************************************************)
(* What a request passes before its handler: the idempotency middleware    *)
(* (middleware/idempotency.py), then the rate limiter                      *)
(* (middleware/rate_limiter.py), both on services/cache_service.py.  The   *)
(* requests modelled are a registration and its retries, which carry one   *)
(* Idempotency-Key; the handler is register of module Accounts.  All other *)
(* steps of Accounts go on beside them.                                    *)
(*                                                                         *)
(* The limiter keeps the seconds in which requests came, not the requests: *)
(* its members are str(now).  The cache keeps a client to Redis once the   *)
(* first connection succeeded; before that it uses a dict of the process.  *)
(***************************************************************************)
EXTENDS Accounts

CONSTANTS
    Tries,      \* the request and its retries
    Address,    \* the e-mail address they register
    Limit,      \* LIMITS: seconds with requests ...
    Window,     \* ... in so many seconds
    MaxFaults   \* bound: Redis outages and returns, restarts, expired entries

ASSUME RequestsAssumption ==
    /\ Address \in Emails
    /\ Limit \in Nat \ {0} /\ Window \in Nat \ {0}
    /\ MaxFaults \in Nat

VARIABLES
    progress,   \* where a request is
    answer,     \* what its sender was told
    redis,      \* is Redis up?
    connected,  \* has the process a Redis client?
    stored,     \* the cached response in Redis
    memory,     \* the cached response in _memory_cache
    seconds,    \* ages of the seconds in the sorted set of the limiter
    faults,     \* see MaxFaults
    committed,  \* history: has a request registered the address?
    late,       \* history: requests sent after the first success was answered
    forgotten   \* history: the cache lost, or may not have seen, an entry

cacheVars   == <<redis, connected, stored, memory>>
historyVars == <<committed, late, forgotten>>
requestVars == <<progress, answer, cacheVars, seconds, faults, historyVars>>

\* What a cached response can be.
Cached == {"nothing", "created"}

RequestsTypeOK ==
    /\ TypeOK
    /\ progress \in [Tries -> {"unsent", "missed", "admitted", "running", "done",
                             "stored", "over"}]
    /\ answer \in [Tries -> Cached \cup {"refused", "limited", "replayed", "lost"}]
    /\ redis \in BOOLEAN /\ connected \in BOOLEAN
    /\ stored \in Cached /\ memory \in Cached
    /\ seconds \subseteq 0 .. Window - 1
    /\ faults \in 0 .. MaxFaults
    /\ committed \in BOOLEAN /\ late \subseteq Tries /\ forgotten \in BOOLEAN
    /\ \A r \in Tries : progress[r] = "running" => registering[Address] # NotRegistering

RequestsInit ==
    /\ Init
    /\ progress = [r \in Tries |-> "unsent"]
    /\ answer = [r \in Tries |-> "nothing"]
    /\ redis \in BOOLEAN /\ connected = FALSE
    /\ stored = "nothing" /\ memory = "nothing"
    /\ seconds = {}
    /\ faults = 0
    /\ committed = FALSE /\ late = {} /\ forgotten = FALSE

-----------------------------------------------------------------------------
(* cache_service.py *)

\* get_redis: the process connects when it needs to and can.
UsesRedis == connected \/ redis

\* cache_get: with a client whose Redis is down, a miss.
Entry ==
    IF ~UsesRedis THEN memory
    ELSE IF redis THEN stored ELSE "nothing"

\* cache_set: with a client whose Redis is down, nothing.
Keep(response) ==
    /\ connected' = UsesRedis
    /\ stored' = IF redis THEN response ELSE stored
    /\ memory' = IF UsesRedis THEN memory ELSE response
    /\ forgotten' = (forgotten \/ (UsesRedis /\ ~redis))
    /\ UNCHANGED redis

-----------------------------------------------------------------------------
(* The middlewares, outermost first *)

Told(response) == \E r \in Tries : answer[r] = response

Answer(r, response) ==
    /\ answer' = [answer EXCEPT ![r] = response]
    /\ progress' = [progress EXCEPT ![r] = "over"]

\* Fault: the limiter is asked before the cache.
LimiterFirst(r) ==
    /\ progress[r] = "unsent"
    /\ seconds' = IF redis THEN seconds \cup {0} ELSE seconds
    /\ IF redis /\ Cardinality(seconds') > Limit THEN Answer(r, "limited")
       ELSE IF Entry # "nothing" THEN Answer(r, "replayed")
       ELSE progress' = [progress EXCEPT ![r] = "missed"] /\ UNCHANGED answer
    /\ connected' = UsesRedis
    /\ late' = IF Told("created") THEN late \cup {r} ELSE late
    /\ UNCHANGED <<vars, redis, stored, memory, faults, committed, forgotten>>

\* IdempotencyMiddleware, before call_next.
Arrive(r) ==
    /\ progress[r] = "unsent"
    /\ IF Entry # "nothing" THEN Answer(r, "replayed")
       ELSE progress' = [progress EXCEPT ![r] = "missed"] /\ UNCHANGED answer
    /\ connected' = UsesRedis
    /\ late' = IF Told("created") THEN late \cup {r} ELSE late
    /\ UNCHANGED <<vars, redis, stored, memory, seconds, faults, committed, forgotten>>

\* RateLimiterMiddleware.  A refused request counts as well.
Limiter(r) ==
    /\ progress[r] = "missed"
    /\ seconds' = IF redis THEN seconds \cup {0} ELSE seconds
    /\ IF redis /\ Cardinality(seconds') > Limit THEN Answer(r, "limited")
       ELSE progress' = [progress EXCEPT ![r] = "admitted"] /\ UNCHANGED answer
    /\ connected' = UsesRedis
    /\ UNCHANGED <<vars, redis, stored, memory, faults, historyVars>>

\* A second passes; the members of the set that left the window are removed.
Tick ==
    /\ seconds # {}
    /\ seconds' = {s + 1 : s \in seconds} \cap 0 .. Window - 1
    /\ UNCHANGED <<vars, progress, answer, cacheVars, faults, historyVars>>

\* Fault: the key is stored when the handler starts.
ExecuteAndKeep(r) ==
    /\ progress[r] = "admitted"
    /\ RegisterReads(Address)
    /\ progress' = [progress EXCEPT ![r] = "running"]
    /\ Keep("created")
    /\ UNCHANGED <<answer, seconds, faults, committed, late>>

\* The handler: register ...
Execute(r) ==
    /\ progress[r] = "admitted"
    /\ RegisterReads(Address)
    /\ progress' = [progress EXCEPT ![r] = "running"]
    /\ UNCHANGED <<answer, cacheVars, seconds, faults, historyVars>>

Commit(r) ==
    /\ progress[r] = "running"
    /\ RegisterCommits(Address)
    /\ progress' = [progress EXCEPT ![r] = "done"]
    /\ committed' = TRUE
    /\ UNCHANGED <<answer, cacheVars, seconds, faults, late, forgotten>>

\* ... which refuses an address that has an account: 409, or 500 if the other
\* registration was not yet committed when it looked.  No error is cached.
Refuse(r) ==
    /\ progress[r] = "admitted"
    /\ account[Address] # "none"
    /\ Answer(r, "refused")
    /\ UNCHANGED <<vars, cacheVars, seconds, faults, historyVars>>

\* IdempotencyMiddleware, after call_next: a success is cached ...
Store(r) ==
    /\ progress[r] = "done"
    /\ progress' = [progress EXCEPT ![r] = "stored"]
    /\ Keep("created")
    /\ UNCHANGED <<vars, answer, seconds, faults, committed, late>>

\* ... and then answered.
Reply(r) ==
    /\ progress[r] = "stored"
    /\ Answer(r, "created")
    /\ UNCHANGED <<vars, cacheVars, seconds, faults, historyVars>>

-----------------------------------------------------------------------------
(* Faults *)

Fault == faults < MaxFaults /\ faults' = faults + 1

\* Redis goes down, with or without its data; an entry is lost for the time.
RedisFails ==
    /\ Fault
    /\ redis
    /\ redis' = FALSE
    /\ \/ UNCHANGED <<stored, seconds>>
       \/ stored' = "nothing" /\ seconds' = {}
    /\ forgotten' = (forgotten \/ stored # "nothing")
    /\ UNCHANGED <<vars, progress, answer, connected, memory, committed, late>>

\* From now on the entries in memory are ignored.
RedisReturns ==
    /\ Fault
    /\ ~redis
    /\ redis' = TRUE
    /\ forgotten' = (forgotten \/ memory # "nothing")
    /\ UNCHANGED <<vars, progress, answer, connected, stored, memory, seconds, committed, late>>

\* The entry's 24 hours in Redis are over; entries in memory never expire.
EntryExpires ==
    /\ Fault
    /\ redis /\ stored # "nothing"
    /\ stored' = "nothing"
    /\ forgotten' = TRUE
    /\ UNCHANGED <<vars, progress, answer, redis, connected, memory, seconds, committed, late>>

\* The web process restarts: what ran is over, its memory is empty.
Restart ==
    /\ Fault
    /\ SessionsLost
    /\ progress' = [r \in Tries |-> IF progress[r] = "unsent" THEN "unsent" ELSE "over"]
    /\ answer' = [r \in Tries |-> IF progress[r] \in {"unsent", "over"} THEN answer[r]
                                  ELSE "lost"]
    /\ connected' = FALSE
    /\ memory' = "nothing"
    /\ forgotten' = (forgotten \/ memory # "nothing")
    /\ UNCHANGED <<redis, stored, seconds, committed, late>>

-----------------------------------------------------------------------------
Request(r) ==
    \/ Arrive(r) \/ Limiter(r)
    \/ Execute(r) \/ Commit(r) \/ Refuse(r)
    \/ Store(r) \/ Reply(r)

FaultStep == RedisFails \/ RedisReturns \/ EntryExpires \/ Restart

\* What others do.
Elsewhere ==
    /\ AccountStep \/ \E e \in Emails \ {Address} : Registration(e)
    /\ UNCHANGED requestVars

RequestsNext == Elsewhere \/ Tick \/ FaultStep \/ \E r \in Tries : Request(r)

RequestsSpec == RequestsInit /\ [][RequestsNext]_<<vars, requestVars>>

-----------------------------------------------------------------------------
(* Properties *)

\* A retry sent after the success was answered gets that answer again, from
\* the cache: it is neither refused because its account exists by now nor by
\* the limiter, whose count it does not reach.  The exceptions are an entry
\* that the cache has lost, and a process that dies before it answers.
RetriesAreReplayed ==
    \A r \in late : answer[r] \in {"nothing", "replayed", "lost"} \/ forgotten

\* What is replayed is the success of a registration that was committed: none
\* that runs, was refused or was rolled back, though perhaps one whose sender
\* was not told, because the process died before it answered.
ReplaysTellTheTruth == Told("replayed") => committed
=============================================================================
