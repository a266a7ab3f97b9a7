--------------------------- MODULE ConnectionPool ----------------------------
(***************************************************************************)
(* ManagedDatabaseConnection of packages/plugins/database: a pg.Pool of    *)
(* limited size shared by transactions, readiness probes and the first     *)
(* connection of start(), and its memoised close.  Waiting for a           *)
(* connection and holding one both end by timeouts (2 and 5 seconds).      *)
(***************************************************************************)
EXTENDS Naturals, FiniteSets

CONSTANTS Tasks,     \* users of the pool
          StartTask, \* the task of start()
          MaxPool    \* maximumPoolSize

ASSUME PoolAssumption == MaxPool \in Nat \ {0} /\ StartTask \notin Tasks

VARIABLES task,         \* what each user has of the pool
          poolClosing,  \* #closing, set in the same step as pool.end()
          poolClose     \* the progress of #close

poolVars == <<task, poolClosing, poolClose>>

Users == Tasks \cup {StartTask}

PoolTypeOK ==
    /\ task \in [Users -> {"idle", "queued", "holding", "ok", "failed"}]
    /\ poolClosing \in BOOLEAN
    /\ poolClose \in {"none", "ending", "awaiting", "closed"}

PoolInit ==
    /\ task = [t \in Users |-> "idle"]
    /\ poolClosing = FALSE
    /\ poolClose = "none"

Holders == {t \in Users : task[t] = "holding"}

Free == Cardinality(Holders) < MaxPool

\* connect of a probe, of start() or of a transaction: refused while the
\* pool closes, queued while it is full; the server may not answer.
MayAsk == ~poolClosing

Ask(t) ==
    /\ task[t] = "idle"
    /\ \E outcome \in IF ~MayAsk THEN {"failed"}
                     ELSE IF Free THEN {"holding", "failed"} ELSE {"queued"} :
           task' = [task EXCEPT ![t] = outcome]
    /\ UNCHANGED <<poolClosing, poolClose>>

\* A released connection goes to a waiter; a closing pool serves no waiter.
Grant(t) ==
    /\ task[t] = "queued" /\ Free /\ ~poolClosing
    /\ task' = [task EXCEPT ![t] = "holding"]
    /\ UNCHANGED <<poolClosing, poolClose>>

\* connectionTimeoutMillis ends every wait.
WaitsForEver(t) == FALSE    \* Slip: no connection timeout
MayGiveUp(t) == task[t] = "queued"

WaitEnds(t) ==
    /\ MayGiveUp(t)
    /\ task' = [task EXCEPT ![t] = "failed"]
    /\ UNCHANGED <<poolClosing, poolClose>>

Answer(t) ==
    /\ task[t] = "holding"
    /\ \E outcome \in {"ok", "failed"} : task' = [task EXCEPT ![t] = outcome]
    /\ UNCHANGED <<poolClosing, poolClose>>

Reuse(t) ==
    /\ t # StartTask /\ task[t] \in {"ok", "failed"}
    /\ task' = [task EXCEPT ![t] = "idle"]
    /\ UNCHANGED <<poolClosing, poolClose>>

\* close: the flag and pool.end() in one step, for all callers once.
BeginPoolClose ==
    /\ poolClose = "none"
    /\ poolClosing' = TRUE
    /\ poolClose' = "ending"
    /\ UNCHANGED task

\* pool.end() answers when the last connection came back.
PoolEnded ==
    /\ poolClose = "ending" /\ Holders = {}
    /\ poolClose' = "awaiting"
    /\ UNCHANGED <<task, poolClosing>>

StartSettled == task[StartTask] \notin {"queued", "holding"}

EndPoolClose ==
    /\ poolClose = "awaiting" /\ StartSettled
    /\ poolClose' = "closed"
    /\ UNCHANGED <<task, poolClosing>>

PoolProgress == PoolEnded \/ EndPoolClose

-----------------------------------------------------------------------------
(* Properties *)

\* Never more connections than the pool may open, waiters included.
PoolBounded == Cardinality(Holders) <= MaxPool

\* A pool that answered close holds nothing, not even the first connection
\* that start() was still waiting for, and it hands out nothing any more.
ClosedPoolIsIdle ==
    /\ poolClose \in {"awaiting", "closed"} => Holders = {}
    /\ poolClose = "closed" => task[StartTask] # "queued"

\* Whoever waits for a connection gets an answer, in a full pool and in one
\* that is closing and serves no waiter.
EveryTaskEnds ==
    \A t \in Users : task[t] \in {"queued", "holding"} ~> task[t] \in {"ok", "failed"}
=============================================================================
