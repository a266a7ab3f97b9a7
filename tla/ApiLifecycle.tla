---------------------------- MODULE ApiLifecycle -----------------------------
(***************************************************************************)
(* The Manager API process: start and the signal handling of server.ts and *)
(* lifecycle.ts, the readiness registry with its two probes in flight, and *)
(* app.close() with the onClose hooks, composed with the Redis connection  *)
(* and the PostgreSQL pool it starts and closes.                           *)
(*                                                                         *)
(* Fastify is external: close() stops the listener, waits for the requests *)
(* in flight and then runs the onClose hooks in reverse registration order *)
(* (PostgreSQL, Redis, readiness).                                         *)
(***************************************************************************)
EXTENDS RedisConnection, ConnectionPool

ASSUME ApiAssumption == Probes = Tasks    \* both are the requests in flight

VARIABLES main,       \* start() of server.ts
          listeners,  \* whether the signal handlers are installed
          accepting,  \* #acceptingTraffic of the readiness registry
          app,        \* the memoised shutdown and how far close() has come
          request     \* the requests to /ready and to the routes

apiVars == <<main, listeners, accepting, app, request>>
vars == <<apiVars, redisVars, poolVars>>

Requests == Tasks
Over == {"done", "failed", "killed", "dead"}

ApiTypeOK ==
    /\ main \in {"building", "listening", "serving", "cleaning"} \cup Over
    /\ listeners \in BOOLEAN
    /\ accepting \in BOOLEAN
    /\ app \in {"open", "draining", "database", "redis", "closed"}
    /\ request \in [Requests -> {"none", "probing", "working", "ready", "notReady", "answered"}]
    /\ RedisTypeOK /\ PoolTypeOK

Init ==
    /\ main = "building" /\ listeners = FALSE /\ accepting = TRUE /\ app = "open"
    /\ request = [r \in Requests |-> "none"]
    /\ RedisInit /\ PoolInit

-----------------------------------------------------------------------------
(* server.ts and lifecycle.ts *)

\* A configuration that does not validate ends start() before any resource.
ConfigurationFails ==
    /\ main = "building"
    /\ main' = "dead"
    /\ UNCHANGED <<listeners, accepting, app, request, redisVars, poolVars>>

\* buildServer starts both connections without waiting for either, then the
\* handlers are installed and listen is called.
Build ==
    /\ main = "building"
    /\ Connect /\ Ask(StartTask)
    /\ main' = "listening" /\ listeners' = TRUE
    /\ UNCHANGED <<accepting, app, request>>

\* createGracefulShutdown: mark, close, and the same promise for all callers.
Shutdown ==
    IF app = "open" THEN accepting' = FALSE /\ app' = "draining" ELSE UNCHANGED <<accepting, app>>

Listen ==
    /\ main = "listening"
    /\ main' = "serving"
    /\ UNCHANGED <<listeners, accepting, app, request, redisVars, poolVars>>

\* listen rejects: no handlers any more, and the same shutdown is awaited.
ListenFails ==
    /\ main = "listening"
    /\ main' = "cleaning" /\ listeners' = FALSE /\ Shutdown
    /\ UNCHANGED <<request, redisVars, poolVars>>

\* The first signal removes both handlers; another one has its default effect.
Signal ==
    /\ main \notin Over
    /\ IF listeners THEN listeners' = FALSE /\ Shutdown /\ UNCHANGED main
                    ELSE main' = "killed" /\ UNCHANGED <<listeners, accepting, app>>
    /\ UNCHANGED <<request, redisVars, poolVars>>

\* The process ends when nothing is left that keeps it alive.
Exit ==
    /\ main \in {"serving", "cleaning"} /\ app = "closed"
    /\ main' = IF main = "serving" THEN "done" ELSE "failed"
    /\ UNCHANGED <<listeners, accepting, app, request, redisVars, poolVars>>

-----------------------------------------------------------------------------
(* Requests *)

Reachable == main = "serving" /\ app = "open"

\* ReadinessRegistry.isReady sends both probes.  (Its early answer after the
\* mark has no request to answer: Fastify takes none once close() was called.)
BeginReady(r) ==
    /\ Reachable /\ accepting /\ request[r] = "none"
    /\ request' = [request EXCEPT ![r] = "probing"] /\ BeginPing(r) /\ Ask(r)
    /\ UNCHANGED <<main, listeners, accepting, app>>

\* The verdict over the settled probes, after the flag is read once more.
VerdictUnmarked(r) == ping[r] = "yes" /\ task[r] = "ok"    \* Slip: the flag is not read again
Verdict(r) == accepting /\ ping[r] = "yes" /\ task[r] = "ok"

\* HealthController.ready: 503 unless the registry is ready.
Status(r) == IF Verdict(r) THEN "ready" ELSE "notReady"

EndReady(r) ==
    /\ request[r] = "probing"
    /\ Asked(r) /\ Reuse(r)
    /\ request' = [request EXCEPT ![r] = Status(r)]
    /\ UNCHANGED <<main, listeners, accepting, app>>

\* Any other route: it uses a connection of the pool and ends with it.
BeginWork(r) ==
    /\ Reachable /\ request[r] = "none"
    /\ Ask(r)
    /\ request' = [request EXCEPT ![r] = "working"]
    /\ UNCHANGED <<main, listeners, accepting, app, redisVars>>

EndWork(r) ==
    /\ request[r] = "working"
    /\ Reuse(r)
    /\ request' = [request EXCEPT ![r] = "answered"]
    /\ UNCHANGED <<main, listeners, accepting, app, redisVars>>

\* The client has its answer and may ask again.
Another(r) ==
    /\ request[r] \in {"ready", "notReady", "answered"}
    /\ request' = [request EXCEPT ![r] = "none"]
    /\ UNCHANGED <<main, listeners, accepting, app, redisVars, poolVars>>

-----------------------------------------------------------------------------
(* app.close() *)

InFlight == {r \in Requests : request[r] \in {"probing", "working"}}

\* The listener is closed and the requests in flight are done: the hook of
\* the plugin that was registered last, PostgreSQL, runs first.
CloseDatabase ==
    /\ app = "draining" /\ InFlight = {}
    /\ app' = "database" /\ BeginPoolClose
    /\ UNCHANGED <<main, listeners, accepting, request, redisVars>>

DatabaseClosedAtOnce == poolClose # "none"    \* Slip: the hook does not await close()
DatabaseClosed == poolClose = "closed"

CloseRedis ==
    /\ app = "database" /\ DatabaseClosed
    /\ app' = "redis" /\ BeginClose
    /\ UNCHANGED <<main, listeners, accepting, request, poolVars>>

\* The hook of the readiness plugin marks as well, for a bare app.close().
RedisClosed == closeTask = "closed"

CloseReadiness ==
    /\ app = "redis" /\ RedisClosed
    /\ app' = "closed" /\ accepting' = FALSE
    /\ UNCHANGED <<main, listeners, request, redisVars, poolVars>>

-----------------------------------------------------------------------------

ProcessStep == Exit \/ CloseDatabase \/ CloseRedis \/ CloseReadiness

RequestStep(r) ==
    \/ BeginReady(r) \/ EndReady(r) \/ BeginWork(r) \/ EndWork(r) \/ Another(r)

RedisStep == Established \/ Lost \/ RedisProgress \/ \E r \in Requests : Pong(r) \/ EndPing(r)
PoolStep == PoolProgress \/ \E t \in Users : Grant(t) \/ WaitEnds(t) \/ Answer(t)

Next ==
    \/ ConfigurationFails \/ Build \/ Listen \/ ListenFails \/ Signal \/ ProcessStep
    \/ \E r \in Requests : RequestStep(r)
    \/ main \notin Over /\ RedisStep /\ UNCHANGED <<apiVars, poolVars>>
    \/ main \notin Over /\ PoolStep /\ UNCHANGED <<apiVars, redisVars>>

Spec == Init /\ [][Next]_vars

\* listen settles, the hooks run, commands and queries have timeouts.
Fairness ==
    /\ WF_vars(Listen \/ ListenFails) /\ WF_vars(ProcessStep)
    /\ WF_vars(RedisProgress /\ UNCHANGED <<apiVars, poolVars>>)
    /\ WF_vars(PoolProgress /\ UNCHANGED <<apiVars, redisVars>>)
    /\ \A r \in Requests :
        /\ WF_vars(EndReady(r) \/ EndWork(r))
        /\ WF_vars(EndPing(r) /\ UNCHANGED <<apiVars, poolVars>>)
    /\ \A t \in Users :
        WF_vars((WaitEnds(t) \/ Answer(t)) /\ UNCHANGED <<apiVars, redisVars>>)

FairSpec == Spec /\ Fairness

-----------------------------------------------------------------------------
(* Properties *)

\* No /ready answers 200 once a shutdown has begun, not even one whose probes
\* were sent before the mark and answered after it.
NeverReadyAfterShutdown ==
    [][\A r \in Requests : request[r] # "ready" /\ request'[r] = "ready" => app = "open"]_vars

\* Redis is closed only after the pool has answered its own close.
PoolClosesFirst == closing => poolClose = "closed"

\* A process that ended by itself, after a signal or a failed listen, or by
\* both at once, has closed everything it opened and handles no signal.
NothingLeft ==
    main \in {"done", "failed"} =>
        /\ closeTask = "closed" /\ ~IsOpen
        /\ poolClose = "closed" /\ Holders = {}
        /\ ~listeners /\ ~accepting

\* How far close() has come decides what is closed, and nobody serves, marks
\* readiness or waits for a signal once it has begun.
ClosedSoFar ==
    /\ main = "building" => app = "open" /\ ~listeners
    /\ app # "open" => ~accepting /\ ~listeners
    /\ poolClosing <=> app \in {"database", "redis", "closed"}
    /\ poolClose # "none" <=> poolClosing
    /\ closing <=> app \in {"redis", "closed"}
    /\ closeTask # "none" <=> closing
    /\ app \in {"redis", "closed"} => poolClose = "closed"
    /\ app = "closed" => closeTask = "closed"
    /\ main \in {"done", "failed"} => app = "closed"

\* A client that is being closed is not opened again, and close() answers
\* only after the connect that was pending.
StaysClosed ==
    /\ closing => ~IsOpen
    /\ closeTask = "closed" => connectTask # "pending"

\* What every step keeps, and what the properties above follow from.
ApiInv ==
    /\ ApiTypeOK /\ ClosedSoFar /\ StaysClosed
    /\ IsFiniteSet(Holders) /\ PoolBounded /\ ClosedPoolIsIdle

\* Whoever begins the shutdown, the process ends, with the server of either
\* dependency away or its pool full.
ShutdownEnds == app # "open" ~> main \in Over
=============================================================================
