----------------------------- MODULE WorkerShell -----------------------------
(***************************************************************************)
(* The life of one worker process: runWorkerShell of apps/worker with the  *)
(* start and close of the QueueWorkerPool it owns, the wait for a signal   *)
(* and the shared Redis connection.  Promises that can still be pending    *)
(* when another event arrives are variables of their own, so that every    *)
(* order in which they settle is a behaviour.  JobQueue models what the    *)
(* jobs of a consumer are; here a consumer is only busy or not.            *)
(***************************************************************************)
EXTENDS Naturals

CONSTANT QueueNames    \* the queues of the catalogue

VARIABLES shell,      \* where runWorkerShell is
          race,       \* what decided Promise.race of start and signal
          signal,     \* the promise of waitForShutdown
          start,      \* startTask of the pool
          close,      \* closeTask of the pool
          ready,      \* waitUntilReady of each consumer
          consumer,   \* each consumer
          socket,     \* the connection of each consumer
          redis       \* the shared Redis connection

vars == <<shell, race, signal, start, close, ready, consumer, socket, redis>>
poolVars == <<start, close, ready, consumer, socket>>

Over == {"ended", "failed", "killed"}

TypeOK ==
    /\ shell \in {"booting", "racing", "serving", "closing"} \cup Over
    /\ race \in {"open", "ready", "signal", "failed"}
    /\ signal \in {"none", "waiting", "received", "cancelled"}
    /\ start \in {"none", "pending", "closing", "ready", "failed"}
    /\ close \in {"none", "pending", "releasing", "releasingFailed", "done", "failed"}
    /\ ready \in [QueueNames -> {"pending", "yes", "no"}]
    /\ consumer \in [QueueNames -> {"none", "free", "busy", "closed", "broken"}]
    /\ socket \in [QueueNames -> {"none", "open", "closed"}]
    /\ redis \in {"none", "open", "closed"}

All(x) == [q \in QueueNames |-> x]

Init ==
    /\ shell = "booting" /\ race = "open" /\ signal = "none"
    /\ start = "none" /\ close = "none" /\ redis = "none"
    /\ ready = All("pending") /\ consumer = All("none") /\ socket = All("none")

\* Everything up to the first await: Redis starts to connect, the signal
\* listeners exist, start() has created every consumer and its connection.
Boot ==
    /\ shell = "booting"
    /\ shell' = "racing" /\ signal' = "waiting" /\ redis' = "open"
    /\ start' = "pending" /\ consumer' = All("free") /\ socket' = All("open")
    /\ UNCHANGED <<race, close, ready>>

Alive == shell # "killed"

\* The first promise to settle decides the race, the other is ignored.
RacedByStart(by) == IF race = "open" /\ by # "signal" THEN by ELSE race    \* Slip: signal awaited last
Raced(by) == IF race = "open" THEN by ELSE race

-----------------------------------------------------------------------------
(* Consumers *)

\* A consumer connects and begins to fetch, whatever the others do.
Connect(q) ==
    /\ Alive /\ consumer[q] = "free" /\ ready[q] = "pending"
    /\ ready' = [ready EXCEPT ![q] = "yes"]
    /\ UNCHANGED <<shell, race, signal, start, close, consumer, socket, redis>>

\* Its first connection fails, or it was closed before it was there.
Refuse(q) ==
    /\ Alive /\ consumer[q] # "none" /\ ready[q] = "pending"
    /\ ready' = [ready EXCEPT ![q] = "no"]
    /\ UNCHANGED <<shell, race, signal, start, close, consumer, socket, redis>>

BeginJob(q) ==
    /\ Alive /\ consumer[q] = "free" /\ ready[q] = "yes" /\ close = "none"
    /\ consumer' = [consumer EXCEPT ![q] = "busy"]
    /\ UNCHANGED <<shell, race, signal, start, close, ready, socket, redis>>

EndJob(q) ==
    /\ Alive /\ consumer[q] = "busy"
    /\ consumer' = [consumer EXCEPT ![q] = "free"]
    /\ UNCHANGED <<shell, race, signal, start, close, ready, socket, redis>>

\* close() of one consumer: it waits for the active job, and may reject.
CloseConsumer(q) ==
    /\ Alive /\ close = "pending" /\ consumer[q] = "free"
    /\ \E outcome \in {"closed", "broken"} : consumer' = [consumer EXCEPT ![q] = outcome]
    /\ UNCHANGED <<shell, race, signal, start, close, ready, socket, redis>>

-----------------------------------------------------------------------------
(* QueueWorkerPool *)

AnyReady == \E q \in QueueNames : ready[q] = "yes"    \* Slip: Promise.any
AllReady == \A q \in QueueNames : ready[q] = "yes"

StartReady ==
    /\ Alive /\ start = "pending" /\ AllReady
    /\ start' = "ready" /\ race' = Raced("ready")
    /\ UNCHANGED <<shell, signal, close, ready, consumer, socket, redis>>

\* The close task is created once, by whoever closes first.
CloseRequested == IF close = "none" THEN "pending" ELSE close

\* One consumer failed to connect: #start awaits the close of all, then throws.
StartFails ==
    /\ Alive /\ start = "pending" /\ \E q \in QueueNames : ready[q] = "no"
    /\ start' = "closing" /\ close' = CloseRequested
    /\ UNCHANGED <<shell, race, signal, ready, consumer, socket, redis>>

StartRejects ==
    /\ Alive /\ start = "closing" /\ close \in {"done", "failed"}
    /\ start' = "failed" /\ race' = Raced("failed")
    /\ UNCHANGED <<shell, signal, close, ready, consumer, socket, redis>>

\* Promise.all over the closes: all are done, or the first one has rejected.
AnyClosed == \E q \in QueueNames : consumer[q] = "closed"    \* Slip: not every close awaited
AllClosed == \A q \in QueueNames : consumer[q] = "closed"

ConsumersClosed ==
    /\ Alive /\ close = "pending"
    /\ \/ AllClosed /\ close' = "releasing"
       \/ (\E q \in QueueNames : consumer[q] = "broken") /\ close' = "releasingFailed"
    /\ UNCHANGED <<shell, race, signal, start, ready, consumer, socket, redis>>

\* finally: the connections are closed in either case.
ReleaseConnections ==
    /\ Alive /\ close \in {"releasing", "releasingFailed"}
    /\ socket' = All("closed")
    /\ close' = IF close = "releasing" THEN "done" ELSE "failed"
    /\ UNCHANGED <<shell, race, signal, start, ready, consumer, redis>>

-----------------------------------------------------------------------------
(* runWorkerShell and waitForShutdown *)

\* The first signal settles the wait and removes both listeners; before they
\* exist and after that, a signal has its default action and ends the process.
ReceiveSignal ==
    /\ shell \notin Over
    /\ IF signal = "waiting"
       THEN signal' = "received" /\ race' = Raced("signal") /\ UNCHANGED shell
       ELSE shell' = "killed" /\ UNCHANGED <<signal, race>>
    /\ UNCHANGED <<poolVars, redis>>

\* worker.ready is logged and the signal awaited.
AnnounceReady ==
    /\ shell = "racing" /\ race = "ready"
    /\ shell' = "serving"
    /\ UNCHANGED <<race, signal, redis, poolVars>>

\* abort() cancels a wait nobody answered, so that no listener is left.
Cancelled == IF signal = "waiting" THEN "cancelled" ELSE signal

\* finally: abort the wait, then close the pool.
BeginClose ==
    /\ \/ shell = "racing" /\ race \in {"signal", "failed"}
       \/ shell = "serving" /\ signal = "received"
    /\ shell' = "closing" /\ signal' = Cancelled /\ close' = CloseRequested
    /\ UNCHANGED <<race, start, ready, consumer, socket, redis>>

PoolClosed == close \in {"done", "failed"}

\* Whatever the close of the pool answered, Redis is closed after it, which
\* may reject as well (a client that is not open any more); the process then
\* logs worker.stopped, or rejects and sets the exit code.
Finish ==
    /\ shell = "closing" /\ PoolClosed
    /\ redis' = "closed"
    /\ \E rejects \in BOOLEAN :
           shell' = IF race = "failed" \/ close = "failed" \/ rejects THEN "failed" ELSE "ended"
    /\ UNCHANGED <<race, signal, poolVars>>

-----------------------------------------------------------------------------

ShellStep == Boot \/ AnnounceReady \/ BeginClose \/ Finish
PoolStep == StartReady \/ StartFails \/ StartRejects \/ ConsumersClosed \/ ReleaseConnections
ConsumerStep(q) == Connect(q) \/ Refuse(q) \/ BeginJob(q) \/ EndJob(q) \/ CloseConsumer(q)

Next == ShellStep \/ PoolStep \/ ReceiveSignal \/ \E q \in QueueNames : ConsumerStep(q)

Spec == Init /\ [][Next]_vars

\* The event loop runs what can run; jobs end, closes answer, and a closed
\* consumer stops waiting for its connection.  Connecting may take for ever.
Fairness ==
    /\ WF_vars(ShellStep) /\ WF_vars(PoolStep)
    /\ \A q \in QueueNames : WF_vars(EndJob(q)) /\ WF_vars(CloseConsumer(q))

FairSpec == Spec /\ Fairness

-----------------------------------------------------------------------------
(* Properties *)

\* worker.ready is only announced by a pool all of whose consumers connected
\* and that nobody, a failing start included, has begun to close.
ReadyMeansConsuming ==
    [][shell # "serving" /\ shell' = "serving" =>
           close = "none" /\ \A q \in QueueNames : ready[q] = "yes" /\ socket[q] = "open"]_vars

\* The connection under an active job is not closed, except when the close of
\* another consumer rejected: Promise.all does not wait for the rest then.
ConnectionsOutliveJobs ==
    \A q \in QueueNames : socket[q] = "closed" /\ consumer[q] = "busy" =>
        \E p \in QueueNames : consumer[p] = "broken"

\* Redis is closed last, after the connections of every consumer, also when
\* the start failed or the close of the pool rejected.
RedisClosedLast ==
    redis = "closed" => close \in {"done", "failed"} /\ socket = All("closed")

\* A process that came to its own end holds no listener, and no consumer can
\* fetch another job.
NothingLeft ==
    shell \in {"ended", "failed"} =>
        /\ signal # "waiting"
        /\ \A q \in QueueNames : consumer[q] \in {"free", "busy"} =>
               \E p \in QueueNames : consumer[p] = "broken"

\* What has begun when: nothing before Boot, the close only after a signal or
\* a start that failed, and the race is decided by what really happened.
Begun ==
    /\ \A q \in QueueNames : socket[q] = "none" <=> start = "none"
    /\ shell = "booting" => start = "none"
    /\ start = "none" => shell \in {"booting", "killed"} /\ close = "none"
                        /\ redis = "none" /\ signal = "none"
    /\ start = "ready" => AllReady
    /\ race = "ready" => start = "ready"
    /\ close # "none" => start \in {"closing", "failed"} \/ shell \in {"closing"} \cup Over
    /\ shell \in {"closing", "ended", "failed"} => close # "none" /\ signal # "waiting"
    /\ shell \in {"ended", "failed"} => PoolClosed

\* What the close of the pool has reached: every consumer, unless one of the
\* closes rejected, and only after them the connections.
ReleasedAfterClose ==
    /\ close \in {"releasing", "done"} => AllClosed
    /\ close \in {"releasingFailed", "failed"} => \E q \in QueueNames : consumer[q] = "broken"
    /\ PoolClosed => socket = All("closed")
    /\ \A q \in QueueNames : socket[q] = "closed" => PoolClosed

\* What every step keeps, and what the properties above follow from.
WorkerInv ==
    TypeOK /\ Begun /\ ReleasedAfterClose /\ RedisClosedLast

\* A signal ends the process even if it arrives while a consumer tries to
\* connect for ever, and so does a start that fails.
SignalEnds == (signal = "received" \/ start = "failed") ~> shell \in Over
=============================================================================
